---------------------------- MODULE BookingDesk ----------------------------
(***************************************************************************)
(* The life of a court booking: internal/service/booking_create.go,        *)
(* booking_lifecycle.go, booking_update.go and the expiry worker of        *)
(* booking_service.go, over the bookings and payments tables and the slot  *)
(* locks kept in Redis or in the process's memory.                         *)
(*                                                                         *)
(* Every desk is one HTTP request in flight.  A handler is split where     *)
(* another request can act: between the lock calls, the transactions and,  *)
(* in CheckIn, between the unlocked read and the Save.  A transaction that *)
(* holds a row lock from its read to its commit is one step.  A refused    *)
(* request changes nothing and is not a step of its own.                   *)
(***************************************************************************)
EXTENDS BookingTables

CONSTANTS
  Desks,        \* requests in flight at once
  RedisLocks    \* locks live in Redis (TRUE) or in the process (FALSE)

ASSUME LocksAssumption == RedisLocks \in BOOLEAN

VARIABLES
  locks,       \* per slot: when its lock lapses (lock:slot:<id> or BookingService.locks)
  pc,          \* per desk: where its handler stands
  want,        \* per desk: slots being created
  ranged,      \* per desk: the creation came through CreatePendingBookingRange
  held,        \* per desk: locks it still has to delete
  made,        \* per desk: bookings inserted and not yet confirmed
  snap,        \* per desk: the row CheckIn has read, with its id
  clobbered    \* history: bookings a check-in overwrote with a stale row

desk == <<pc, want, ranged, held, made, snap>>
vars == <<now, rows, nextId, money, locks, desk, clobbered>>

NoSnap == [id |-> 1, row |-> NoRow]

PcValues == {"idle", "hold", "insert", "release", "confirm", "checkin"}

-----------------------------------------------------------------------------
Init ==
  /\ TablesInit
  /\ locks = [s \in Slots |-> 0]
  /\ pc = [d \in Desks |-> "idle"]
  /\ want = [d \in Desks |-> {}]
  /\ ranged = [d \in Desks |-> FALSE]
  /\ held = [d \in Desks |-> {}]
  /\ made = [d \in Desks |-> {}]
  /\ snap = [d \in Desks |-> NoSnap]
  /\ clobbered = {}

(***************************************************************************)
(* Creating a booking: hold the slot locks, insert, delete the locks, and  *)
(* confirm in a second transaction.                                        *)
(***************************************************************************)
Begin(d, S, isRange) ==
  /\ pc' = [pc EXCEPT ![d] = "hold"]
  /\ want' = [want EXCEPT ![d] = S]
  /\ ranged' = [ranged EXCEPT ![d] = isRange]
  /\ UNCHANGED <<held, made, snap>>

\* CreatePendingBooking up to reserveLock: the sweep of the slot comes first,
\* and stays even when the slot lies in the past or its court is closed.
CreateOne(d, s) ==
  /\ pc[d] = "idle"
  /\ RoomOnTheClock
  /\ rows' = ExpirePendingByTimeSlot(s)
  /\ \/ UNCHANGED desk
     \/ StartOf[s] >= now /\ Begin(d, {s}, FALSE)
  /\ UNCHANGED <<now, nextId, money, locks, clobbered>>

\* CreatePendingBookingRange up to its lock loop.  The end slot is exclusive.
CreateRange(d, lo, hi) ==
  /\ pc[d] = "idle"
  /\ RoomOnTheClock
  /\ lo < hi
  /\ StartOf[lo] >= now
  /\ Begin(d, lo..(hi - 1), TRUE)
  /\ UNCHANGED <<now, rows, nextId, money, locks, clobbered>>

\* One turn of the lock loop: a range sweeps the slot first, then reserveLock
\* succeeds unless an unexpired lock is there or Redis does not answer.
HoldSlot(d) ==
  \E s \in want[d] \ held[d] :
    /\ pc[d] = "hold"
    /\ \A t \in want[d] \ held[d] : s <= t
    /\ rows' = IF ranged[d] THEN ExpirePendingByTimeSlot(s) ELSE rows
    /\ \/ /\ locks[s] > now \/ RedisLocks
          /\ pc' = [pc EXCEPT ![d] = "release"]
          /\ UNCHANGED <<locks, held>>
       \/ /\ locks[s] <= now
          /\ locks' = [locks EXCEPT ![s] = now + Hold]
          /\ held' = [held EXCEPT ![d] = @ \cup {s}]
          /\ pc' = [pc EXCEPT ![d] = IF want[d] \ held[d] = {s} THEN "insert" ELSE "hold"]
    /\ UNCHANGED <<now, nextId, money, want, ranged, made, snap, clobbered>>

\* The creating transaction: every slot is checked and inserted, or none is.
\* The index has the last word, and any database error rolls back.
InsertBookings(d) ==
  /\ pc[d] = "insert"
  /\ \E new \in SUBSET Ids :
       /\ InsertTx(new, want[d])
       /\ made' = [made EXCEPT ![d] = new]
  /\ pc' = [pc EXCEPT ![d] = "release"]
  /\ UNCHANGED <<locks, want, ranged, held, snap, clobbered>>

InsertFails(d) ==
  /\ pc[d] = "insert"
  /\ pc' = [pc EXCEPT ![d] = "release"]
  /\ UNCHANGED <<now, rows, nextId, money, locks, want, ranged, held, made,
                 snap, clobbered>>

\* releaseLock deletes the key whoever set it; a Redis DEL on a request whose
\* client has gone is lost.
ReleaseLocks(d) ==
  /\ pc[d] = "release"
  /\ \E lost \in SUBSET (IF RedisLocks THEN held[d] ELSE {}) :
       locks' = [s \in Slots |-> IF s \in held[d] \ lost THEN 0 ELSE locks[s]]
  /\ held' = [held EXCEPT ![d] = {}]
  /\ want' = [want EXCEPT ![d] = {}]
  /\ ranged' = [ranged EXCEPT ![d] = FALSE]
  /\ pc' = [pc EXCEPT ![d] = IF made[d] = {} THEN "idle" ELSE "confirm"]
  /\ UNCHANGED <<now, rows, nextId, money, made, snap, clobbered>>

ConfirmManagedBookings(d) ==
  /\ pc[d] = "confirm"
  /\ ConfirmTx(made[d])
  /\ held' = [held EXCEPT ![d] = {rows[b].slot : b \in made[d]}]
  /\ made' = [made EXCEPT ![d] = {}]
  /\ pc' = [pc EXCEPT ![d] = "release"]
  /\ UNCHANGED <<locks, want, ranged, snap, clobbered>>

\* One booking can no longer be confirmed, or the database fails: none is.
ConfirmFails(d) ==
  /\ pc[d] = "confirm"
  /\ made' = [made EXCEPT ![d] = {}]
  /\ pc' = [pc EXCEPT ![d] = "idle"]
  /\ UNCHANGED <<now, rows, nextId, money, locks, want, ranged, held, snap,
                 clobbered>>

-----------------------------------------------------------------------------
(***************************************************************************)
(* Handlers of an existing booking.                                        *)
(***************************************************************************)

\* After its commit the handler deletes the locks of the booking's slot.
ThenRelease(d, s) ==
  /\ pc' = [pc EXCEPT ![d] = "release"]
  /\ held' = [held EXCEPT ![d] = {s}]
  /\ UNCHANGED <<want, ranged, made, snap>>

ConfirmDeposit(d, b, amount) ==
  /\ pc[d] = "idle"
  /\ DepositTx(b, amount)
  /\ ThenRelease(d, rows[b].slot)
  /\ UNCHANGED <<locks, clobbered>>

CancelBooking(d, b) ==
  /\ pc[d] = "idle"
  /\ CancelTx(b)
  /\ ThenRelease(d, rows[b].slot)
  /\ UNCHANGED <<locks, clobbered>>

UpdateBooking(d, b, s, p) ==
  /\ pc[d] = "idle"
  /\ UpdateTx(b, s, p)
  /\ UNCHANGED <<locks, desk, clobbered>>

\* CheckIn reads the booking without a row lock ...
CheckInRead(d, b) ==
  /\ pc[d] = "idle"
  /\ Arrives(rows[b])
  /\ pc' = [pc EXCEPT ![d] = "checkin"]
  /\ snap' = [snap EXCEPT ![d] = [id |-> b, row |-> rows[b]]]
  /\ UNCHANGED <<now, rows, nextId, money, locks, want, ranged, held, made,
                 clobbered>>

\* ... and saves every column of what it read; the index may reject the row.
CheckInSave(d) ==
  LET b == snap[d].id
      r == snap[d].row
  IN  /\ pc[d] = "checkin"
      /\ \/ /\ IndexRejects(r.slot, b)
            /\ UNCHANGED <<rows, clobbered>>
         \/ /\ ~IndexRejects(r.slot, b)
            /\ rows' = [rows EXCEPT ![b] = CheckedInRow(r)]
            /\ clobbered' = IF rows[b] = r THEN clobbered ELSE clobbered \cup {b}
      /\ pc' = [pc EXCEPT ![d] = "idle"]
      /\ snap' = [snap EXCEPT ![d] = NoSnap]
      /\ UNCHANGED <<now, nextId, money, locks, want, ranged, held, made>>

-----------------------------------------------------------------------------
\* The expiry worker's turn.  Its lock clean-up drops what Tick has let lapse.
ExpirePending ==
  /\ ExpireTx
  /\ UNCHANGED <<locks, desk, clobbered>>

\* Time passes, and with it the TTL of the locks: a lapsed lock is no lock.
Tick ==
  /\ now < MaxTime
  /\ now' = now + 1
  /\ locks' = [s \in Slots |-> IF locks[s] <= now' THEN 0 ELSE locks[s]]
  /\ UNCHANGED <<rows, nextId, money, desk, clobbered>>

\* The process dies and comes back: requests in flight are gone, committed
\* rows stay, and the locks stay only where Redis keeps them.
Restart ==
  /\ pc' = [d \in Desks |-> "idle"]
  /\ want' = [d \in Desks |-> {}]
  /\ ranged' = [d \in Desks |-> FALSE]
  /\ held' = [d \in Desks |-> {}]
  /\ made' = [d \in Desks |-> {}]
  /\ snap' = [d \in Desks |-> NoSnap]
  /\ locks' = IF RedisLocks THEN locks ELSE [s \in Slots |-> 0]
  /\ UNCHANGED <<now, rows, nextId, money, clobbered>>

Handler(d) ==
  \/ \E s \in Slots : CreateOne(d, s)
  \/ \E lo, hi \in Slots : CreateRange(d, lo, hi)
  \/ HoldSlot(d) \/ InsertBookings(d) \/ InsertFails(d) \/ ReleaseLocks(d)
  \/ ConfirmManagedBookings(d) \/ ConfirmFails(d)
  \/ \E b \in Ids :
       \/ \E amount \in 1..rows[b].due : ConfirmDeposit(d, b, amount)
       \/ CancelBooking(d, b)
       \/ \E s \in Slots, p \in 0..MaxReceived : UpdateBooking(d, b, s, p)
       \/ CheckInRead(d, b)
  \/ CheckInSave(d)

Next ==
  \/ \E d \in Desks : Handler(d)
  \/ ExpirePending
  \/ Tick
  \/ Restart

\* The clock runs and StartExpiryWorker's ticker fires for as long as the
\* process is up; nothing obliges a request to arrive or to finish.
Spec == Init /\ [][Next]_vars
FairSpec == Spec /\ WF_vars(ExpirePending) /\ WF_vars(Tick)

-----------------------------------------------------------------------------
(* What the component promises.                                            *)

\* Every variable keeps its type.
TypeOK ==
  /\ TablesTypeOK
  /\ locks \in [Slots -> Nat]
  /\ pc \in [Desks -> PcValues]
  /\ want \in [Desks -> SUBSET Slots]
  /\ ranged \in [Desks -> BOOLEAN]
  /\ held \in [Desks -> SUBSET Slots]
  /\ made \in [Desks -> SUBSET Ids]
  /\ snap \in [Desks -> [id: Ids, row: Row]]
  /\ clobbered \subseteq Ids

\* The payment ledger agrees with the booking it is about, as long as no
\* check-in overwrote the booking: what came in less what went out is the
\* deposit of a live booking, and what a canceled one forfeits.
LedgerBacksDeposit ==
  \A b \in Ids \ clobbered :
    LET net == received[b] - returned[b]
        r   == rows[b]
    IN  IF r.status = "canceled" THEN net \in {0, r.paid - r.paid \div 2}
                                 ELSE net = r.paid

\* A canceled booking comes back to life only in the Save of a check-in that
\* read it before it was canceled.
OnlyStaleCheckInRevives ==
  [][\A b \in Ids : rows[b].status = "canceled" /\ rows'[b].status # "canceled" =>
       \E d \in Desks : pc[d] = "checkin" /\ snap[d].id = b /\ snap[d].row # rows[b]]_vars

\* Every hold ends: by confirmation, by check-in or by the expiry worker, also
\* when the process died between the two transactions of a creation.
HoldsEnd ==
  \A b \in Ids : rows[b].status = "pending" ~> rows[b].status # "pending"

\* Seen from outside, a slot of the day is free or held by one booking, and
\* goes from one booking to another only by being free in between.
Calendar == INSTANCE SlotCalendar WITH
  Parties <- Ids,
  holders <- [s \in Slots |-> {b \in Ids : rows[b].slot = s /\ rows[b].status \in Live}]
ImplementsCalendar == Calendar!Spec

\* The ledger never pays back more for a booking than it took.
NeverRefundsMoreThanReceived == \A b \in Ids : returned[b] <= received[b]
=============================================================================
