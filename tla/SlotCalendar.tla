---------------------------- MODULE SlotCalendar ----------------------------
(***************************************************************************)
(* What booking promises about a court's day, whatever the tables, locks   *)
(* and transactions behind it: a slot is free or held by one party, it     *)
(* changes hands only by being given back first, and a party that moves    *)
(* takes only slots that are free or already its own.                      *)
(*                                                                         *)
(* A party is whatever may hold a slot: a booking in BookingDesk, a        *)
(* booking group in BookingGroups.                                         *)
(***************************************************************************)
CONSTANTS Slots, Parties

VARIABLE holders   \* per slot: the parties that hold it

Init == holders = [s \in Slots |-> {}]

\* Free slots are given out, each to one party.
Grant ==
  /\ holders' \in [Slots -> SUBSET Parties]
  /\ \A s \in Slots : \/ holders'[s] = holders[s]
                      \/ holders[s] = {} /\ \E p \in Parties : holders'[s] = {p}

\* Slots come back, by cancellation or because a hold has run out.
GiveBack ==
  /\ holders' \in [Slots -> SUBSET Parties]
  /\ \A s \in Slots : holders'[s] \in {holders[s], {}}

\* Party p gives back some of its slots and takes others in the same step.
Reschedule(p) ==
  /\ holders' \in [Slots -> SUBSET Parties]
  /\ \A s \in Slots : \/ holders'[s] = holders[s] \ {p}
                      \/ holders[s] \subseteq {p} /\ holders'[s] = {p}

Next == Grant \/ GiveBack \/ \E p \in Parties : Reschedule(p)

Spec == Init /\ [][Next]_holders
=============================================================================
