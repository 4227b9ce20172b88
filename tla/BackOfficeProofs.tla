-------------------------- MODULE BackOfficeProofs --------------------------
(***************************************************************************)
(* The beverage counter, the court and price panel, the views that list    *)
(* what they asked for, the shift page and the choice of a day, for any    *)
(* number of calls, loads, courts, rules, drafts, queries and days; and    *)
(* what holds of all modules of the web application in one instance.       *)
(***************************************************************************)
EXTENDS FrontDeskProofs, MCWebPages

-----------------------------------------------------------------------------
(* The beverages. The stock of a beverage is what the ledger says, a       *)
(* transaction changes only what it is about, and the page shows its calls. *)

\* A row that is shown or typed has no negative stock.
Shown(x) == x = None \/ (x \in Drink /\ x.stock \in Nat)
AsksRightly(k) == /\ k.kind # "adjust" => k.qty \in Nat
                  /\ k.kind = "update" => k.label \in Labels
StockLoad == [of: {d \in Drink : d.stock \in Nat} \cup {None}, forSave: BOOLEAN]

\* The types of the server's state, with what the calls ask for: an adjustment alone may ask for
\* a negative quantity, and an edit has a label.
ServerTypes == /\ drink \in Drink /\ lockedBy \in Calls \cup {None}
               /\ ledger \in [sold: Nat, bought: Nat, adjusted: Int]
               /\ call \in [Calls -> StockCall]
               /\ \A c \in Calls : AsksRightly(call[c])

\* A transaction that is under way holds the lock, and the row is still as it read it.
RowIsLocked == /\ \A c \in Calls : call[c].stage = "locked" => lockedBy = c /\ call[c].read = drink
               /\ lockedBy # None => call[lockedBy].stage = "locked"

PageTypes == /\ page \in {"counter", "management"} /\ Shown(items)
             /\ drinkLoads \in Seq(StockLoad)
             /\ edit \in [editing: BOOLEAN, stock: Nat, label: Labels]
             /\ saving \in BOOLEAN /\ sent \in 0..MaxCalls /\ smooth \in BOOLEAN

StockIInv == ServerTypes /\ RowIsLocked /\ PageTypes /\ StockIsTheLedger

-----------------------------------------------------------------------------
(* The server.                                                             *)

\* Calls that are not locked before nor after a step leave the lock as it is.
LEMMA LockStays ==
  ASSUME ServerTypes, RowIsLocked, UNCHANGED <<drink, lockedBy>>, NEW c \in Calls,
         call[c].stage # "locked", NEW new, call' = [call EXCEPT ![c] = new], new.stage # "locked"
  PROVE  RowIsLocked'
BY DEF ServerTypes, RowIsLocked

\* A call that is sent asks for something that makes sense.
LEMMA RequestedIsCall ==
  ASSUME StockIInv, NEW c \in Calls, NEW kind \in {"sell", "restock", "update", "delete", "adjust", "create"},
         NEW by \in {"counter", "management", "other"}, NEW qty \in Int, NEW label \in Labels \cup {None},
         kind # "adjust" => qty \in Nat, kind = "update" => label \in Labels,
         Requested(c, kind, by, qty, label), UNCHANGED row
  PROVE  ServerTypes' /\ RowIsLocked' /\ sent' \in 0..MaxCalls /\ StockIsTheLedger'
<1>1. PICK new : new = [stage |-> "sent", kind |-> kind, by |-> by, qty |-> qty, label |-> label,
                        read |-> None]
  OBVIOUS
<1>2. new \in StockCall /\ new.stage = "sent" /\ AsksRightly(new)
  BY <1>1 DEF StockCall, AsksRightly
<1>3. call[c] = NoCall /\ call' = [call EXCEPT ![c] = new]
  BY <1>1 DEF Requested, FirstOf
<1>4. call[c].stage # "locked"
  BY <1>3 DEF NoCall
<1>5. ServerTypes'
  BY <1>2, <1>3 DEF StockIInv, ServerTypes, row
<1>6. RowIsLocked'
  BY <1>2, <1>3, <1>4, LockStays DEF StockIInv, row
<1>7. sent' \in 0..MaxCalls
  BY BeverageAssumption DEF StockIInv, PageTypes, Requested
<1>8. StockIsTheLedger'
  BY DEF StockIInv, StockIsTheLedger, row
<1> QED BY <1>5, <1>6, <1>7, <1>8

\* What a call may become at the end of its transaction.
LEMMA EndIsCall ==
  ASSUME NEW k \in StockCall, AsksRightly(k), NEW answer \in {"ok", "failed"},
         NEW new, new = NoCall \/ new = [k EXCEPT !.stage = answer, !.qty = 0, !.read = None]
  PROVE  new \in StockCall /\ new.stage # "locked" /\ AsksRightly(new)
<1>1. CASE new = NoCall
  <2>1. NoCall \in StockCall /\ NoCall.stage # "locked" /\ NoCall.qty \in Nat /\ NoCall.kind = None
    BY DEF NoCall, StockCall
  <2>2. NoCall.kind # "update" \/ NoCall.label \in Labels
    BY BeverageAssumption DEF NoCall
  <2> QED BY <1>1, <2>1, <2>2 DEF AsksRightly
<1>2. CASE new = [k EXCEPT !.stage = answer, !.qty = 0, !.read = None]
  <2>1. new = [stage |-> answer, kind |-> k.kind, by |-> k.by, qty |-> 0, label |-> k.label,
               read |-> None]
    BY <1>2 DEF StockCall
  <2>2. /\ k.kind \in {None, "sell", "restock", "update", "delete", "adjust", "create"}
        /\ k.by \in {None, "counter", "management", "other"} /\ k.label \in Labels \cup {None}
    BY DEF StockCall
  <2>3. new \in StockCall
    BY <2>1, <2>2 DEF StockCall
  <2>4. new.stage = answer /\ new.qty = 0 /\ new.kind = k.kind /\ new.label = k.label
    BY <2>1
  <2> QED BY <2>3, <2>4 DEF AsksRightly
<1> QED BY <1>1, <1>2

LEMMA EndedIsCall ==
  ASSUME ServerTypes, NEW c \in Calls, NEW answer \in {"ok", "failed"}, Ended(c, answer)
  PROVE  /\ call' \in [Calls -> StockCall]
         /\ \A d \in Calls : AsksRightly(call'[d])
         /\ \A d \in Calls : d # c => call'[d] = call[d]
         /\ call'[c].stage # "locked"
<1>1. PICK new : /\ call' = [call EXCEPT ![c] = new]
                 /\ \/ new = NoCall
                    \/ new = [call[c] EXCEPT !.stage = answer, !.qty = 0, !.read = None]
  BY DEF Ended
<1>2. new \in StockCall /\ new.stage # "locked" /\ AsksRightly(new)
  BY <1>1, EndIsCall DEF ServerTypes
<1> QED BY <1>1, <1>2 DEF ServerTypes

LEMMA LockKeeps ==
  ASSUME StockIInv, NEW c \in Calls, Lock(c)
  PROVE  ServerTypes' /\ RowIsLocked'
<1>1. call[c].stage = "sent" /\ lockedBy = None /\ lockedBy' = c /\ drink' = drink /\ ledger' = ledger
  BY DEF Lock
<1> DEFINE new == [call[c] EXCEPT !.stage = "locked", !.read = drink]
<1>2. call' = [call EXCEPT ![c] = new]
  BY DEF Lock, StockIInv, ServerTypes
<1>3. /\ new \in StockCall /\ new.stage = "locked" /\ new.read = drink
      /\ AsksRightly(new)
  BY DEF StockIInv, ServerTypes, StockCall, AsksRightly
<1>4. ServerTypes'
  BY <1>1, <1>2, <1>3 DEF StockIInv, ServerTypes
<1>5. \A d \in Calls : call[d].stage # "locked"
  BY <1>1, BeverageAssumption DEF StockIInv, RowIsLocked
<1>6. RowIsLocked'
  BY <1>1, <1>2, <1>3, <1>5 DEF StockIInv, ServerTypes, RowIsLocked
<1> QED BY <1>4, <1>6

\* The transaction that holds the lock ends.
LEMMA EndingUnlocks ==
  ASSUME StockIInv, NEW c \in Calls, call[c].stage = "locked", lockedBy' = None,
         NEW answer \in {"ok", "failed"}, Ended(c, answer)
  PROVE  RowIsLocked'
<1>1. \A d \in Calls : d # c => call[d].stage # "locked"
  BY DEF StockIInv, RowIsLocked
<1> QED BY <1>1, EndedIsCall DEF StockIInv, RowIsLocked

\* The row and the ledger with another value in one column.
LEMMA StockSet ==
  ASSUME NEW d \in Drink, NEW n \in Int, NEW e, e = [d EXCEPT !.stock = n]
  PROVE  e \in Drink /\ e.stock = n /\ e.label = d.label /\ e.active = d.active
BY DEF Drink

LEMMA SoldSet ==
  ASSUME NEW l \in [sold: Nat, bought: Nat, adjusted: Int], NEW n \in Nat, NEW m,
         m = [l EXCEPT !.sold = n]
  PROVE  /\ m \in [sold: Nat, bought: Nat, adjusted: Int]
         /\ m.sold = n /\ m.bought = l.bought /\ m.adjusted = l.adjusted
OBVIOUS

LEMMA BoughtSet ==
  ASSUME NEW l \in [sold: Nat, bought: Nat, adjusted: Int], NEW n \in Nat, NEW m,
         m = [l EXCEPT !.bought = n]
  PROVE  /\ m \in [sold: Nat, bought: Nat, adjusted: Int]
         /\ m.bought = n /\ m.sold = l.sold /\ m.adjusted = l.adjusted
OBVIOUS

LEMMA AdjustedSet ==
  ASSUME NEW l \in [sold: Nat, bought: Nat, adjusted: Int], NEW n \in Int, NEW m,
         m = [l EXCEPT !.adjusted = n]
  PROVE  /\ m \in [sold: Nat, bought: Nat, adjusted: Int]
         /\ m.adjusted = n /\ m.sold = l.sold /\ m.bought = l.bought
OBVIOUS

\* The row a transaction saves is a row, and the ledger accounts for its stock.
LEMMA SavedRowIsAccounted ==
  ASSUME StockIInv, NEW c \in Calls, call[c].stage = "locked", SavedRow(call[c])
  PROVE  /\ drink' \in Drink /\ ledger' \in [sold: Nat, bought: Nat, adjusted: Int]
         /\ StockIsTheLedger'
         /\ drink'.label # drink.label => lockedBy = c /\ call[c].kind = "update"
         /\ ~drink.active => ~drink'.active /\ ledger'.sold = ledger.sold
<1>1. PICK k : k = call[c]
  OBVIOUS
<1>2. /\ k.read = drink /\ lockedBy = c /\ drink \in Drink
      /\ ledger \in [sold: Nat, bought: Nat, adjusted: Int]
      /\ k.qty \in Int /\ AsksRightly(k) /\ SavedRow(k)
  BY <1>1 DEF StockIInv, RowIsLocked, ServerTypes, StockCall
<1>3. /\ drink.stock = FirstStock + ledger.bought - ledger.sold + ledger.adjusted
      /\ drink.stock >= 0 /\ FirstStock \in Nat /\ drink.stock \in Int
      /\ ledger.sold \in Nat /\ ledger.bought \in Nat /\ ledger.adjusted \in Int
  BY <1>2, BeverageAssumption DEF StockIInv, StockIsTheLedger, Drink
<1>4. CASE Sell(k)
  <2>1. k.qty \in Nat /\ drink.active /\ drink.stock >= k.qty
    BY <1>2, <1>4 DEF Sell, AsksRightly
  <2>2. /\ drink' = [drink EXCEPT !.stock = drink.stock - k.qty]
        /\ ledger' = [ledger EXCEPT !.sold = ledger.sold + k.qty]
    BY <1>2, <1>4 DEF Sell
  <2>3. drink' \in Drink /\ drink'.stock = drink.stock - k.qty /\ drink'.label = drink.label
    BY <1>2, <1>3, <2>1, <2>2, StockSet
  <2>4. /\ ledger' \in [sold: Nat, bought: Nat, adjusted: Int] /\ ledger'.sold = ledger.sold + k.qty
        /\ ledger'.bought = ledger.bought /\ ledger'.adjusted = ledger.adjusted
    BY <1>2, <1>3, <2>1, <2>2, SoldSet
  <2> QED BY <1>3, <2>1, <2>3, <2>4 DEF StockIsTheLedger
<1>5. CASE Restock(k)
  <2>1. k.qty \in Nat
    BY <1>2, <1>5 DEF Restock, AsksRightly
  <2>2. /\ drink' = [drink EXCEPT !.stock = drink.stock + k.qty]
        /\ ledger' = [ledger EXCEPT !.bought = ledger.bought + k.qty]
    BY <1>2, <1>5 DEF Restock
  <2>3. /\ drink' \in Drink /\ drink'.stock = drink.stock + k.qty /\ drink'.label = drink.label
        /\ drink'.active = drink.active
    <3>1. drink.stock + k.qty \in Int
      BY <1>3, <2>1
    <3> QED BY <1>2, <2>2, <3>1, StockSet
  <2>4. /\ ledger' \in [sold: Nat, bought: Nat, adjusted: Int] /\ ledger'.bought = ledger.bought + k.qty
        /\ ledger'.sold = ledger.sold /\ ledger'.adjusted = ledger.adjusted
    BY <1>2, <1>3, <2>1, <2>2, BoughtSet
  <2> QED BY <1>3, <2>1, <2>3, <2>4 DEF StockIsTheLedger
<1>6. CASE UpdateByAdmin(k)
  <2>1. k.qty \in Nat /\ k.label \in Labels /\ k.kind = "update"
    BY <1>2, <1>6 DEF UpdateByAdmin, AsksRightly
  <2>2. /\ drink' = [drink EXCEPT !.stock = k.qty, !.label = k.label]
        /\ ledger' = [ledger EXCEPT !.adjusted = ledger.adjusted + k.qty - drink.stock]
    BY <1>2, <1>6 DEF UpdateByAdmin
  <2>3. drink' \in Drink /\ drink'.stock = k.qty /\ drink'.active = drink.active
    BY <1>2, <2>1, <2>2 DEF Drink
  <2>4. /\ ledger' \in [sold: Nat, bought: Nat, adjusted: Int]
        /\ ledger'.adjusted = ledger.adjusted + k.qty - drink.stock
        /\ ledger'.sold = ledger.sold /\ ledger'.bought = ledger.bought
    BY <1>2, <1>3, <2>1, <2>2, AdjustedSet
  <2> QED BY <1>1, <1>2, <1>3, <2>1, <2>3, <2>4 DEF StockIsTheLedger
<1>7. CASE DeleteByAdmin(k)
  <2>1. drink.active /\ drink' = [drink EXCEPT !.active = FALSE] /\ ledger' = ledger
    BY <1>2, <1>7 DEF DeleteByAdmin
  <2>2. drink' \in Drink /\ drink'.stock = drink.stock /\ drink'.label = drink.label
    BY <1>2, <2>1 DEF Drink
  <2> QED BY <1>2, <1>3, <2>1, <2>2 DEF StockIsTheLedger
<1>8. CASE AdjustStockByAdmin(k)
  <2>1. /\ drink.stock + k.qty >= 0
        /\ drink' = [drink EXCEPT !.stock = drink.stock + k.qty]
        /\ ledger' = [ledger EXCEPT !.adjusted = ledger.adjusted + k.qty]
    BY <1>2, <1>8 DEF AdjustStockByAdmin
  <2>2. /\ drink' \in Drink /\ drink'.stock = drink.stock + k.qty /\ drink'.label = drink.label
        /\ drink'.active = drink.active
    BY <1>2, <1>3, <2>1, StockSet
  <2>3. /\ ledger' \in [sold: Nat, bought: Nat, adjusted: Int]
        /\ ledger'.adjusted = ledger.adjusted + k.qty
        /\ ledger'.sold = ledger.sold /\ ledger'.bought = ledger.bought
    BY <1>2, <1>3, <2>1, AdjustedSet
  <2> QED BY <1>2, <1>3, <2>1, <2>2, <2>3 DEF StockIsTheLedger
<1> QED BY <1>2, <1>4, <1>5, <1>6, <1>7, <1>8 DEF SavedRow

-----------------------------------------------------------------------------
(* The pages.                                                              *)

\* The row as a page is told it.
LEMMA ListingIsShown ==
  ASSUME NEW d \in Drink, d.stock \in Nat
  PROVE  Listing(d) \in {e \in Drink : e.stock \in Nat} \cup {None}
BY DEF Listing

\* A list that is asked for is one of a row with a stock that is not negative.
LEMMA AskedForList ==
  ASSUME PageTypes, ServerTypes', StockIsTheLedger', NEW forSave \in BOOLEAN, AskForList(forSave)
  PROVE  drinkLoads' \in Seq(StockLoad)
<1>1. drink' \in Drink /\ drink'.stock \in Nat
  BY DEF ServerTypes, StockIsTheLedger, Drink
<1>2. [of |-> Listing(drink'), forSave |-> forSave] \in StockLoad
  BY <1>1, ListingIsShown DEF StockLoad
<1> QED BY <1>2 DEF AskForList, PageTypes

\* A load that arrived, or failed, is forgotten.
LEMMA StockLoadRemoved ==
  ASSUME PageTypes, NEW i \in DOMAIN drinkLoads
  PROVE  RemoveAt(drinkLoads, i) \in Seq(StockLoad) /\ Shown(drinkLoads[i].of)
         /\ drinkLoads[i].forSave \in BOOLEAN
<1>1. drinkLoads \in Seq(StockLoad) /\ i \in 1..Len(drinkLoads) /\ drinkLoads[i] \in StockLoad
  BY DEF PageTypes
<1>2. /\ SubSeq(drinkLoads, 1, i-1) \in Seq(StockLoad)
      /\ SubSeq(drinkLoads, i+1, Len(drinkLoads)) \in Seq(StockLoad)
  BY <1>1, SubSeqProperties
<1>3. RemoveAt(drinkLoads, i) \in Seq(StockLoad)
  BY <1>2, ConcatProperties DEF RemoveAt
<1> QED BY <1>1, <1>3 DEF StockLoad, Shown

LEMMA EmptyForm == EMPTY_FORM \in [editing: BOOLEAN, stock: Nat, label: Labels] /\ Label0 \in Labels
BY BeverageAssumption DEF EMPTY_FORM, Label0

\* A call whose answer is taken was not locked, and is over.
LEMMA AnswerTaken ==
  ASSUME StockIInv, NEW c \in Calls, TakesAnswer(c)
  PROVE  ServerTypes' /\ RowIsLocked' /\ StockIsTheLedger'
<1>1. call[c].stage # "locked" /\ call' = [call EXCEPT ![c] = NoCall] /\ UNCHANGED row
  BY DEF TakesAnswer
<1>2. /\ NoCall \in StockCall /\ NoCall.stage # "locked" /\ NoCall.qty \in Nat
      /\ NoCall.kind # "update"
  BY BeverageAssumption DEF NoCall, StockCall
<1>3. ServerTypes'
  BY <1>1, <1>2 DEF StockIInv, ServerTypes, AsksRightly, row
<1>4. RowIsLocked'
  BY <1>1, <1>2, LockStays DEF StockIInv, row
<1>5. StockIsTheLedger'
  BY <1>1 DEF StockIInv, StockIsTheLedger, row
<1> QED BY <1>3, <1>4, <1>5

-----------------------------------------------------------------------------
(* Every step keeps the invariant.                                         *)

LEMMA ServerStepKeeps ==
  ASSUME StockIInv, NEW c \in Calls, ServerStep(c)
  PROVE  StockIInv'
<1>1. CASE Lock(c)
  BY <1>1, LockKeeps DEF StockIInv, Lock, view, PageTypes, Shown, StockIsTheLedger
<1>2. CASE Commit(c)
  <2>1. PICK answer \in {"ok", "failed"} : Ended(c, answer)
    BY <1>2 DEF Commit
  <2>2. call[c].stage = "locked" /\ SavedRow(call[c]) /\ lockedBy' = None
    BY <1>2 DEF Commit
  <2>3. ServerTypes'
    BY <2>1, <2>2, EndedIsCall, SavedRowIsAccounted DEF StockIInv, ServerTypes
  <2>4. PageTypes'
    BY <1>2 DEF StockIInv, Commit, view, PageTypes, Shown
  <2> QED BY <2>1, <2>2, <2>3, <2>4, EndingUnlocks, SavedRowIsAccounted DEF StockIInv
<1>3. CASE Rollback(c)
  <2>1. call[c].stage = "locked" /\ lockedBy' = None /\ Ended(c, "failed")
        /\ UNCHANGED <<drink, ledger>>
    BY <1>3 DEF Rollback
  <2>2. ServerTypes' /\ StockIsTheLedger'
    BY <2>1, EndedIsCall DEF StockIInv, ServerTypes, StockIsTheLedger
  <2>3. PageTypes'
    BY <1>3 DEF StockIInv, Rollback, view, PageTypes, Shown
  <2> QED BY <2>1, <2>2, <2>3, EndingUnlocks DEF StockIInv
<1>4. CASE Create(c)
  <2>1. PICK answer \in {"ok", "failed"} : Ended(c, answer)
    BY <1>4 DEF Create
  <2>2. call[c].stage # "locked" /\ UNCHANGED row
    BY <1>4 DEF Create
  <2>3. ServerTypes' /\ RowIsLocked' /\ StockIsTheLedger'
    BY <2>1, <2>2, EndedIsCall DEF StockIInv, ServerTypes, RowIsLocked, StockIsTheLedger, row
  <2>4. PageTypes'
    BY <1>4 DEF StockIInv, Create, view, PageTypes, Shown
  <2> QED BY <2>3, <2>4 DEF StockIInv
<1> QED BY <1>1, <1>2, <1>3, <1>4 DEF ServerStep

\* A call that is sent leaves row and ledger alone.
LEMMA OtherCallKeeps ==
  ASSUME StockIInv, NEW c \in Calls, NEW kind, NEW qty \in Quantities, NEW label \in Labels,
         OtherCall(c, kind, qty, label)
  PROVE  StockIInv'
<1>1. PICK n, l : /\ n = IF kind = "adjust" THEN -qty ELSE qty
                  /\ l = IF kind = "update" THEN label ELSE None
  OBVIOUS
<1>2. Requested(c, kind, "other", n, l) /\ UNCHANGED <<row, view, smooth>>
  BY <1>1 DEF OtherCall
<1>3. /\ kind \in {"sell", "restock", "adjust", "update", "delete"} /\ n \in Int
      /\ l \in Labels \cup {None} /\ (kind # "adjust" => n \in Nat)
      /\ (kind = "update" => l \in Labels)
  BY <1>1, BeverageAssumption DEF OtherCall
<1>4. ServerTypes' /\ RowIsLocked' /\ sent' \in 0..MaxCalls /\ StockIsTheLedger'
  BY <1>2, <1>3, RequestedIsCall
<1>5. PageTypes'
  BY <1>2, <1>4 DEF StockIInv, PageTypes, Shown, view
<1> QED BY <1>4, <1>5 DEF StockIInv

LEMMA CounterSendKeeps ==
  ASSUME StockIInv, NEW c \in Calls, NEW qty \in Quantities, handleSell(c, qty) \/ handleRestock(c, qty)
  PROVE  StockIInv'
<1>1. PICK kind \in {"sell", "restock"} : Requested(c, kind, page, qty, None)
  BY DEF handleSell, handleRestock
<1>2. UNCHANGED <<row, view, smooth>> /\ qty \in Nat /\ page \in {"counter", "management"}
  BY BeverageAssumption DEF StockIInv, PageTypes, handleSell, handleRestock
<1>3. ServerTypes' /\ RowIsLocked' /\ sent' \in 0..MaxCalls /\ StockIsTheLedger'
  BY <1>1, <1>2, RequestedIsCall
<1>4. PageTypes'
  BY <1>2, <1>3 DEF StockIInv, PageTypes, Shown, view
<1> QED BY <1>3, <1>4 DEF StockIInv

LEMMA SubmitKeeps ==
  ASSUME StockIInv, NEW c \in Calls, handleSubmit(c)
  PROVE  StockIInv'
<1>1. PICK kind \in {"update", "create"} : Requested(c, kind, page, edit.stock, edit.label)
  BY DEF handleSubmit
<1>2. /\ UNCHANGED <<page, row, items, drinkLoads, edit, smooth>> /\ saving' = TRUE
      /\ edit.stock \in Nat /\ edit.label \in Labels /\ page \in {"counter", "management"}
  BY DEF StockIInv, PageTypes, handleSubmit
<1>3. ServerTypes' /\ RowIsLocked' /\ sent' \in 0..MaxCalls /\ StockIsTheLedger'
  BY <1>1, <1>2, RequestedIsCall
<1>4. PageTypes'
  BY <1>2, <1>3 DEF StockIInv, PageTypes, Shown
<1> QED BY <1>3, <1>4 DEF StockIInv

LEMMA DeleteKeeps ==
  ASSUME StockIInv, NEW c \in Calls, handleDelete(c)
  PROVE  StockIInv'
<1>1. PICK l \in Labels \cup {None} : Requested(c, "delete", page, 0, l)
  BY EmptyForm DEF handleDelete
<1>2. UNCHANGED <<row, view, smooth>> /\ page \in {"counter", "management"}
  BY DEF StockIInv, PageTypes, handleDelete
<1>3. ServerTypes' /\ RowIsLocked' /\ sent' \in 0..MaxCalls /\ StockIsTheLedger'
  BY <1>1, <1>2, RequestedIsCall
<1>4. PageTypes'
  BY <1>2, <1>3 DEF StockIInv, PageTypes, Shown, view
<1> QED BY <1>3, <1>4 DEF StockIInv

\* A page takes the answer to a call of its own.
LEMMA AnsweredKeeps ==
  ASSUME StockIInv, NEW c \in Calls, CounterAnswered(c) \/ SubmitAnswered(c) \/ DeleteAnswered(c)
  PROVE  StockIInv'
<1>1. TakesAnswer(c)
  BY DEF CounterAnswered, SubmitAnswered, DeleteAnswered
<1>2. ServerTypes' /\ RowIsLocked' /\ StockIsTheLedger'
  BY <1>1, AnswerTaken
<1>3. drinkLoads' \in Seq(StockLoad)
  <2>1. AskForList(TRUE) \/ AskForList(FALSE) \/ UNCHANGED drinkLoads
    BY DEF CounterAnswered, SubmitAnswered, DeleteAnswered
  <2> QED BY <1>2, <2>1, AskedForList DEF StockIInv, PageTypes
<1>4. edit' \in [editing: BOOLEAN, stock: Nat, label: Labels] /\ saving' \in BOOLEAN
  BY EmptyForm DEF StockIInv, PageTypes, CounterAnswered, SubmitAnswered, DeleteAnswered, resetForm
<1>5. PageTypes'
  BY <1>1, <1>3, <1>4 DEF StockIInv, PageTypes, Shown, TakesAnswer
<1> QED BY <1>2, <1>5 DEF StockIInv

\* A load is asked for, arrives or fails.
LEMMA StockLoadKeeps ==
  ASSUME StockIInv, Refresh \/ \E i \in DOMAIN drinkLoads : loadStock(i) \/ loadBeverages(i) \/ StockLoadFails(i)
  PROVE  StockIInv'
<1>1. UNCHANGED <<row, call, page, edit, sent>>
  BY DEF Refresh, loadStock, loadBeverages, StockLoadFails, row
<1>2. ServerTypes' /\ RowIsLocked' /\ StockIsTheLedger'
  BY <1>1 DEF StockIInv, ServerTypes, RowIsLocked, StockIsTheLedger, row
<1>3. CASE Refresh
  <2>1. drinkLoads' \in Seq(StockLoad)
    BY <1>2, <1>3, AskedForList DEF Refresh, StockIInv
  <2> QED BY <1>2, <1>3, <2>1 DEF StockIInv, PageTypes, Shown, Refresh
<1>4. ASSUME NEW i \in DOMAIN drinkLoads, loadStock(i) \/ loadBeverages(i) \/ StockLoadFails(i)
      PROVE  StockIInv'
  <2>1. drinkLoads' = RemoveAt(drinkLoads, i) /\ items' \in {items, drinkLoads[i].of}
    BY <1>4 DEF loadStock, loadBeverages, StockLoadFails
  <2>2. saving' \in BOOLEAN /\ smooth' \in BOOLEAN
    BY <1>4, StockLoadRemoved DEF StockIInv, PageTypes, loadStock, loadBeverages, StockLoadFails
  <2>3. PageTypes'
    BY <1>1, <2>1, <2>2, StockLoadRemoved DEF StockIInv, PageTypes, Shown
  <2> QED BY <1>2, <2>3 DEF StockIInv
<1> QED BY <1>3, <1>4

\* The form of the management page is filled, changed or emptied.
LEMMA FormKeeps ==
  ASSUME StockIInv, startEdit \/ updateField \/ cancelEdit
  PROVE  StockIInv'
<1>1. UNCHANGED <<page, row, call, items, drinkLoads, saving, sent, smooth>>
  BY DEF startEdit, updateField, cancelEdit, Editing
<1>2. edit' \in [editing: BOOLEAN, stock: Nat, label: Labels]
  <2>1. CASE startEdit
    BY <2>1 DEF startEdit, StockIInv, PageTypes, Shown, Drink
  <2>2. CASE updateField
    BY <2>2, BeverageAssumption DEF updateField, StockIInv, PageTypes
  <2>3. CASE cancelEdit
    BY <2>3, EmptyForm DEF cancelEdit, resetForm
  <2> QED BY <2>1, <2>2, <2>3
<1> QED BY <1>1, <1>2 DEF StockIInv, ServerTypes, RowIsLocked, PageTypes, Shown, StockIsTheLedger, row

LEMMA StockInitInv == StockInit => StockIInv
<1> SUFFICES ASSUME StockInit PROVE StockIInv
  OBVIOUS
<1>1. drink \in Drink /\ drink.stock = FirstStock /\ FirstStock \in Nat
  BY BeverageAssumption, EmptyForm DEF StockInit, Drink
<1>2. ServerTypes
  <2>1. /\ NoCall \in StockCall /\ NoCall.qty \in Nat /\ NoCall.kind # "update"
    BY BeverageAssumption DEF NoCall, StockCall
  <2> QED BY <1>1, <2>1 DEF StockInit, ServerTypes, AsksRightly
<1>3. RowIsLocked
  BY DEF StockInit, RowIsLocked, NoCall
<1>4. PageTypes
  <2>1. <<>> \in Seq(StockLoad)
    OBVIOUS
  <2>2. Shown(items)
    BY <1>1 DEF StockInit, Shown
  <2>3. drinkLoads \in Seq(StockLoad)
    BY <2>1 DEF StockInit
  <2>4. edit \in [editing: BOOLEAN, stock: Nat, label: Labels]
    BY EmptyForm DEF StockInit
  <2>5. page \in {"counter", "management"} /\ saving \in BOOLEAN /\ smooth \in BOOLEAN
    BY Zenon DEF StockInit
  <2>6. sent \in 0..MaxCalls
    <3>1. sent = 0
      BY Zenon DEF StockInit
    <3> QED BY <3>1, BeverageAssumption
  <2> QED BY <2>2, <2>3, <2>4, <2>5, <2>6 DEF PageTypes
<1>5. StockIsTheLedger
  BY <1>1 DEF StockInit, StockIsTheLedger
<1> QED BY <1>2, <1>3, <1>4, <1>5 DEF StockIInv

LEMMA StockNextInv == StockIInv /\ [StockNext]_stockVars => StockIInv'
<1> SUFFICES ASSUME StockIInv, [StockNext]_stockVars PROVE StockIInv'
  OBVIOUS
<1>1. CASE UNCHANGED stockVars
  BY <1>1 DEF StockIInv, ServerTypes, RowIsLocked, PageTypes, Shown, StockIsTheLedger, stockVars
<1>2. ASSUME NEW c \in Calls, PageStep(c) PROVE StockIInv'
  BY <1>2, CounterSendKeeps, SubmitKeeps, DeleteKeeps, AnsweredKeeps DEF PageStep
<1>3. CASE StockNext
  BY <1>2, <1>3, ServerStepKeeps, OtherCallKeeps, StockLoadKeeps, FormKeeps DEF StockNext
<1> QED BY <1>1, <1>3

-----------------------------------------------------------------------------
(* A page follows its own calls.                                           *)

\* What the page will show once the loads under way have arrived in order.
LastShown == IF drinkLoads = <<>> THEN items ELSE drinkLoads[Len(drinkLoads)].of

\* It is the row, or a call that has succeeded will ask for it.
Follows == smooth => (\E c \in Calls : call[c].stage = "ok") \/ LastShown = Listing(drink)

\* Only pages are answered, and it is the management page that saves the form.
AnswersAreOwn ==
  \A c \in Calls : /\ call[c].stage \in {"ok", "failed"} => call[c].by # "other"
                   /\ call[c].kind \in {"update", "create"} /\ call[c].by # "other" => Saving(c)

\* A save that is under way, or the load it asked for, keeps the button disabled; there is no
\* second one.
OneSave ==
  /\ \A c \in Calls : Saving(c) => saving /\ page = "management"
  /\ \A i \in DOMAIN drinkLoads : drinkLoads[i].forSave => saving /\ page = "management"
  /\ \A c, d \in Calls : Saving(c) /\ Saving(d) => c = d
  /\ \A i, j \in DOMAIN drinkLoads : drinkLoads[i].forSave /\ drinkLoads[j].forSave => i = j
  /\ \A i \in DOMAIN drinkLoads : drinkLoads[i].forSave => \A c \in Calls : ~Saving(c)

PageInv == Follows /\ AnswersAreOwn /\ OneSave

\* No call becomes a save, and no load is added or lost.
LEMMA NoNewSave ==
  ASSUME OneSave, UNCHANGED <<page, saving, drinkLoads>>, \A d \in Calls : Saving(d)' => Saving(d)
  PROVE  OneSave'
BY DEF OneSave

\* A call that is under way keeps who sent it and what for, or is over.
LEMMA StageChanges ==
  ASSUME ServerTypes, AnswersAreOwn, NEW c \in Calls, NEW new, call' = [call EXCEPT ![c] = new],
         \/ new = NoCall
         \/ /\ new.kind = call[c].kind /\ new.by = call[c].by
            /\ new.stage \in {"ok", "failed"} => new.by # "other"
  PROVE  AnswersAreOwn' /\ \A d \in Calls : Saving(d)' => Saving(d)
<1>1. /\ call'[c] = new
      /\ \A d \in Calls : d # c => call'[d] = call[d]
  BY DEF ServerTypes
<1>2. NoCall.kind \notin {"update", "create"} /\ NoCall.stage \notin {"ok", "failed"}
  BY BeverageAssumption DEF NoCall
<1>3. ASSUME NEW d \in Calls
      PROVE  /\ Saving(d)' => Saving(d)
             /\ call'[d].stage \in {"ok", "failed"} => call'[d].by # "other"
             /\ call'[d].kind \in {"update", "create"} /\ call'[d].by # "other" => Saving(d)'
  <2>1. CASE d # c
    BY <1>1, <2>1 DEF AnswersAreOwn, Saving
  <2>2. CASE d = c
    BY <1>1, <1>2, <2>2 DEF AnswersAreOwn, Saving
  <2> QED BY <2>1, <2>2
<1> QED BY <1>3 DEF AnswersAreOwn

\* A call that is sent, unless it saves the form.
LEMMA SentKeepsPage ==
  ASSUME ServerTypes, PageInv, NEW c \in Calls, NEW kind, NEW by, NEW qty, NEW label,
         Requested(c, kind, by, qty, label), by = "other" \/ kind \notin {"update", "create"},
         UNCHANGED <<drink, view, smooth>>
  PROVE  PageInv'
<1>1. PICK new : new = [stage |-> "sent", kind |-> kind, by |-> by, qty |-> qty, label |-> label,
                        read |-> None]
  OBVIOUS
<1>2. call' = [call EXCEPT ![c] = new] /\ call[c] = NoCall
  BY <1>1 DEF Requested, FirstOf
<1>3. new.stage = "sent" /\ new.kind = kind /\ new.by = by
  BY <1>1
<1>4. \A d \in Calls : call'[d] = IF d = c THEN new ELSE call[d]
  BY <1>2 DEF ServerTypes
<1>5. OneSave'
  <2>1. \A d \in Calls : Saving(d)' => Saving(d)
    BY <1>3, <1>4 DEF Saving
  <2> QED BY <2>1, NoNewSave DEF PageInv, view
<1>6. AnswersAreOwn'
  BY <1>3, <1>4 DEF PageInv, AnswersAreOwn, Saving
<1>7. Follows'
  <2>1. ASSUME NEW d \in Calls, call[d].stage = "ok" PROVE call'[d].stage = "ok"
    BY <1>2, <1>4, <2>1 DEF NoCall
  <2> QED BY <2>1 DEF PageInv, Follows, LastShown, view
<1> QED BY <1>5, <1>6, <1>7 DEF PageInv

\* The management page saves its form: nothing else of that kind is under way.
LEMMA SubmitKeepsPage ==
  ASSUME StockIInv, PageInv, NEW c \in Calls, handleSubmit(c)
  PROVE  PageInv'
<1>0. PICK kind \in {"update", "create"} :
        call[c] = NoCall /\ call' = [call EXCEPT ![c] =
          [stage |-> "sent", kind |-> kind, by |-> page, qty |-> edit.stock,
           label |-> edit.label, read |-> None]]
  BY DEF handleSubmit, Requested, FirstOf
<1>1. PICK new :
        /\ call' = [call EXCEPT ![c] = new] /\ call[c] = NoCall
        /\ new = [stage |-> "sent", kind |-> kind, by |-> page, qty |-> edit.stock,
                  label |-> edit.label, read |-> None]
  BY <1>0
<1>2. /\ new.stage = "sent" /\ new.kind = kind /\ new.by = "management" /\ page = "management"
      /\ ~saving /\ saving' = TRUE /\ UNCHANGED <<page, drink, items, drinkLoads, smooth>>
  BY <1>1 DEF handleSubmit, row
<1>3. \A d \in Calls : call'[d] = IF d = c THEN new ELSE call[d]
  BY <1>1 DEF StockIInv, ServerTypes
<1>4. /\ \A d \in Calls : ~Saving(d)
      /\ \A i \in DOMAIN drinkLoads : ~drinkLoads[i].forSave
  BY <1>2 DEF PageInv, OneSave
<1>5. \A d \in Calls : Saving(d)' => d = c
  BY <1>3, <1>4 DEF Saving
<1>6. OneSave'
  BY <1>2, <1>4, <1>5 DEF OneSave
<1>7. AnswersAreOwn'
  BY <1>2, <1>3 DEF PageInv, AnswersAreOwn, Saving
<1>8. Follows'
  <2>1. ASSUME NEW d \in Calls, call[d].stage = "ok" PROVE call'[d].stage = "ok"
    BY <1>1, <1>3, <2>1 DEF NoCall
  <2> QED BY <1>2, <2>1 DEF PageInv, Follows, LastShown
<1> QED BY <1>6, <1>7, <1>8 DEF PageInv

\* What the server does to a call.
LEMMA ServerKeepsPage ==
  ASSUME StockIInv, PageInv, NEW c \in Calls, ServerStep(c)
  PROVE  PageInv'
<1>1. PICK new : /\ call' = [call EXCEPT ![c] = new]
                 /\ \/ new = NoCall /\ call[c].by = "other"
                    \/ /\ new.kind = call[c].kind /\ new.by = call[c].by
                       /\ new.stage \in {"ok", "failed"} => new.by # "other"
  <2>1. CASE Lock(c)
    <3>1. PICK new : new = [call[c] EXCEPT !.stage = "locked", !.read = drink]
      OBVIOUS
    <3>2. call' = [call EXCEPT ![c] = new]
      BY <2>1, <3>1 DEF Lock, StockIInv, ServerTypes
    <3>3. call[c] \in StockCall
      BY DEF StockIInv, ServerTypes
    <3>4. new.stage = "locked" /\ new.kind = call[c].kind /\ new.by = call[c].by
      BY <3>1, <3>3 DEF StockCall
    <3> QED BY <3>2, <3>4
  <2>2. ASSUME NEW answer, Ended(c, answer)
        PROVE  \E new : /\ call' = [call EXCEPT ![c] = new]
                        /\ \/ new = NoCall /\ call[c].by = "other"
                           \/ /\ new.kind = call[c].kind /\ new.by = call[c].by
                              /\ new.stage \in {"ok", "failed"} => new.by # "other"
    <3>1. call[c] \in StockCall
      BY DEF StockIInv, ServerTypes
    <3>2. CASE call[c].by = "other"
      <4>1. call' = [call EXCEPT ![c] = NoCall]
        BY <2>2, <3>2 DEF Ended, StockIInv, ServerTypes
      <4> QED BY <3>2, <4>1
    <3>3. CASE call[c].by # "other"
      <4>1. PICK new : new = [call[c] EXCEPT !.stage = answer, !.qty = 0, !.read = None]
        OBVIOUS
      <4>2. call' = [call EXCEPT ![c] = new]
        BY <2>2, <3>3, <4>1 DEF Ended, StockIInv, ServerTypes
      <4>3. new.kind = call[c].kind /\ new.by = call[c].by
        BY <3>1, <4>1 DEF StockCall
      <4> QED BY <3>3, <4>2, <4>3
    <3> QED BY <3>2, <3>3
  <2> QED BY <2>1, <2>2 DEF ServerStep, Commit, Rollback, Create
<1>2. UNCHANGED view
  BY DEF ServerStep, Lock, Commit, Rollback, Create
<1>3. AnswersAreOwn' /\ \A d \in Calls : Saving(d)' => Saving(d)
  BY <1>1, StageChanges DEF StockIInv, PageInv
<1>4. OneSave'
  BY <1>2, <1>3, NoNewSave DEF PageInv, view
<1>5. \A d \in Calls : call'[d] = IF d = c THEN new ELSE call[d]
  BY <1>1 DEF StockIInv, ServerTypes
<1>6. ASSUME NEW d \in Calls, call[d].stage = "ok" PROVE call'[d].stage = "ok"
  <2>1. call[c].stage \in {"sent", "locked"}
    BY DEF ServerStep, Lock, Commit, Rollback, Create
  <2> QED BY <1>5, <1>6, <2>1
<1>7. Follows'
  <2>1. CASE UNCHANGED <<drink, smooth>>
    BY <1>2, <1>6, <2>1 DEF PageInv, Follows, LastShown, view
  <2>2. CASE Commit(c) /\ smooth'
    <3>1. Ended(c, "ok") /\ call[c].by = page
      BY <2>2 DEF Commit
    <3>2. call[c].by # "other" /\ call[c] \in StockCall
      BY <3>1 DEF StockIInv, PageTypes, ServerTypes
    <3>3. call'[c].stage = "ok"
      BY <3>1, <3>2 DEF Ended, StockCall, StockIInv, ServerTypes
    <3> QED BY <3>3 DEF Follows
  <2>3. CASE ~smooth'
    BY <2>3 DEF Follows
  <2> QED BY <2>1, <2>2, <2>3 DEF ServerStep, Lock, Commit, Rollback, Create, row
<1> QED BY <1>3, <1>4, <1>7 DEF PageInv

\* A list that is asked for is the last to arrive.
LEMMA AskedIsLast ==
  ASSUME PageTypes, NEW forSave, AskForList(forSave)
  PROVE  /\ LastShown' = Listing(drink')
         /\ \E last \in DOMAIN drinkLoads' :
              /\ drinkLoads'[last].forSave = forSave
              /\ \A k \in DOMAIN drinkLoads' : k # last =>
                   k \in DOMAIN drinkLoads /\ drinkLoads'[k] = drinkLoads[k]
<1>1. PICK x : x = [of |-> Listing(drink'), forSave |-> forSave]
  OBVIOUS
<1>2. drinkLoads' = Append(drinkLoads, x) /\ x.of = Listing(drink') /\ x.forSave = forSave
  BY <1>1 DEF AskForList
<1>3. drinkLoads \in Seq(StockLoad \cup {x}) /\ x \in StockLoad \cup {x}
  BY DEF PageTypes
<1>4. /\ drinkLoads' \in Seq(StockLoad \cup {x}) /\ Len(drinkLoads') = Len(drinkLoads) + 1
      /\ \A k \in 1..Len(drinkLoads) : drinkLoads'[k] = drinkLoads[k]
      /\ drinkLoads'[Len(drinkLoads) + 1] = x
  BY <1>2, <1>3, AppendProperties
<1>5. /\ DOMAIN drinkLoads = 1..Len(drinkLoads) /\ DOMAIN drinkLoads' = 1..(Len(drinkLoads) + 1)
      /\ Len(drinkLoads) \in Nat
  BY <1>3, <1>4
<1>6. drinkLoads' # <<>>
  BY <1>4, <1>5
<1>7. LastShown' = Listing(drink')
  BY <1>2, <1>4, <1>6 DEF LastShown
<1>8. PICK last : last = Len(drinkLoads) + 1
  OBVIOUS
<1>9. last \in DOMAIN drinkLoads' /\ drinkLoads'[last] = x
  BY <1>4, <1>5, <1>8
<1>10. \A k \in DOMAIN drinkLoads' : k # last => k \in DOMAIN drinkLoads /\ drinkLoads'[k] = drinkLoads[k]
  BY <1>4, <1>5, <1>8
<1> QED BY <1>2, <1>7, <1>9, <1>10

\* A page takes the answer to a call: one that succeeded asks for the list.
LEMMA AnswerKeepsPage ==
  ASSUME StockIInv, PageInv, NEW c \in Calls, CounterAnswered(c) \/ SubmitAnswered(c) \/ DeleteAnswered(c)
  PROVE  PageInv'
<1>1. /\ call[c].stage \in {"ok", "failed"} /\ call' = [call EXCEPT ![c] = NoCall]
      /\ UNCHANGED <<page, drink, items, smooth>>
  BY DEF CounterAnswered, SubmitAnswered, DeleteAnswered, TakesAnswer, row
<1>2. AnswersAreOwn' /\ \A d \in Calls : Saving(d)' => Saving(d)
  <2>1. PICK new : new = NoCall
    OBVIOUS
  <2> QED BY <1>1, <2>1, StageChanges DEF StockIInv, PageInv
<1>3. /\ \A d \in Calls : d # c => call'[d] = call[d]
      /\ call'[c] = NoCall
  BY <1>1 DEF StockIInv, ServerTypes
<1>4. ~Saving(c)'
  <2>1. NoCall.kind \notin {"update", "create"}
    BY BeverageAssumption DEF NoCall
  <2> QED BY <1>3, <2>1 DEF Saving
<1>5. Follows'
  <2>1. CASE call[c].stage = "ok"
    <3>1. AskForList(TRUE) \/ AskForList(FALSE)
      BY <2>1 DEF CounterAnswered, SubmitAnswered, DeleteAnswered
    <3> QED BY <3>1, AskedIsLast DEF StockIInv, Follows
  <2>2. CASE call[c].stage = "failed"
    <3>1. UNCHANGED drinkLoads
      BY <2>2 DEF CounterAnswered, SubmitAnswered, DeleteAnswered
    <3>2. ASSUME NEW d \in Calls, call[d].stage = "ok" PROVE call'[d].stage = "ok"
      BY <1>3, <2>2, <3>2
    <3> QED BY <1>1, <3>1, <3>2 DEF PageInv, Follows, LastShown
  <2> QED BY <1>1, <2>1, <2>2
<1>6. OneSave'
  <2>1. CASE UNCHANGED <<drinkLoads, saving>>
    BY <1>1, <1>2, <2>1, NoNewSave DEF PageInv
  <2>2. CASE AskForList(FALSE) /\ UNCHANGED saving
    <3>1. PICK last \in DOMAIN drinkLoads' :
            /\ ~drinkLoads'[last].forSave
            /\ \A k \in DOMAIN drinkLoads' : k # last =>
                 k \in DOMAIN drinkLoads /\ drinkLoads'[k] = drinkLoads[k]
      BY <2>2, AskedIsLast DEF StockIInv
    <3>2. \A k \in DOMAIN drinkLoads' : drinkLoads'[k].forSave =>
            k \in DOMAIN drinkLoads /\ drinkLoads[k].forSave
      BY <3>1
    <3> QED BY <1>1, <1>2, <2>2, <3>2 DEF PageInv, OneSave
  <2>3. CASE SubmitAnswered(c)
    <3>1. Saving(c)
      BY <1>1, <2>3 DEF SubmitAnswered, PageInv, AnswersAreOwn
    <3>2. /\ saving /\ page = "management" /\ \A d \in Calls : ~Saving(d)'
          /\ \A i \in DOMAIN drinkLoads : ~drinkLoads[i].forSave
      BY <1>2, <1>4, <3>1 DEF PageInv, OneSave
    <3>3. CASE AskForList(TRUE) /\ UNCHANGED saving
      <4>1. PICK last \in DOMAIN drinkLoads' :
              \A k \in DOMAIN drinkLoads' : k # last =>
                k \in DOMAIN drinkLoads /\ drinkLoads'[k] = drinkLoads[k]
        BY <3>3, AskedIsLast DEF StockIInv
      <4>2. \A k \in DOMAIN drinkLoads' : drinkLoads'[k].forSave => k = last
        BY <3>2, <4>1
      <4> QED BY <1>1, <3>2, <3>3, <4>2 DEF OneSave
    <3>4. CASE saving' = FALSE /\ UNCHANGED drinkLoads
      BY <3>2, <3>4 DEF OneSave
    <3> QED BY <2>3, <3>3, <3>4 DEF SubmitAnswered
  <2> QED BY <2>1, <2>2, <2>3 DEF CounterAnswered, DeleteAnswered
<1> QED BY <1>2, <1>5, <1>6 DEF PageInv

LEMMA RefreshKeepsPage ==
  ASSUME StockIInv, PageInv, Refresh
  PROVE  PageInv'
<1>1. AskForList(FALSE) /\ UNCHANGED <<drink, page, call, items, saving, smooth>>
  BY DEF Refresh
<1>2. PICK last \in DOMAIN drinkLoads' :
        /\ ~drinkLoads'[last].forSave
        /\ \A k \in DOMAIN drinkLoads' : k # last =>
             k \in DOMAIN drinkLoads /\ drinkLoads'[k] = drinkLoads[k]
  BY <1>1, AskedIsLast DEF StockIInv
<1>3. \A k \in DOMAIN drinkLoads' : drinkLoads'[k].forSave =>
        k \in DOMAIN drinkLoads /\ drinkLoads[k].forSave
  BY <1>2
<1>4. OneSave'
  BY <1>1, <1>3 DEF PageInv, OneSave, Saving
<1>5. AnswersAreOwn' /\ Follows'
  BY <1>1, AskedIsLast DEF StockIInv, PageInv, AnswersAreOwn, Saving, Follows
<1> QED BY <1>4, <1>5 DEF PageInv

\* A load that ends leaves the others as they are, in their order.
LEMMA LoadEndedAt ==
  ASSUME PageTypes, NEW i \in DOMAIN drinkLoads, drinkLoads' = RemoveAt(drinkLoads, i)
  PROVE  /\ \A k \in DOMAIN drinkLoads' : \E m \in DOMAIN drinkLoads :
              m # i /\ drinkLoads'[k] = drinkLoads[m]
         /\ \A k, l \in DOMAIN drinkLoads' : k # l => \E m, n \in DOMAIN drinkLoads :
              /\ m # i /\ n # i /\ m # n
              /\ drinkLoads'[k] = drinkLoads[m] /\ drinkLoads'[l] = drinkLoads[n]
         /\ i = 1 /\ items' = drinkLoads[1].of => LastShown' = LastShown
<1>1. /\ drinkLoads' \in Seq(StockLoad) /\ Len(drinkLoads') = Len(drinkLoads) - 1
      /\ \A k \in 1..(Len(drinkLoads) - 1) :
           drinkLoads'[k] = IF k < i THEN drinkLoads[k] ELSE drinkLoads[k + 1]
  BY Removed DEF PageTypes
<1>2. /\ DOMAIN drinkLoads = 1..Len(drinkLoads) /\ DOMAIN drinkLoads' = 1..(Len(drinkLoads) - 1)
      /\ Len(drinkLoads) \in Nat /\ i \in 1..Len(drinkLoads)
  BY <1>1 DEF PageTypes
<1> DEFINE from(k) == IF k < i THEN k ELSE k + 1
<1>3. \A k \in DOMAIN drinkLoads' :
        from(k) \in DOMAIN drinkLoads /\ from(k) # i /\ drinkLoads'[k] = drinkLoads[from(k)]
  BY <1>1, <1>2
<1>4. \A k, l \in DOMAIN drinkLoads' : k # l => from(k) # from(l)
  BY <1>2
<1>5. ASSUME i = 1, items' = drinkLoads[1].of PROVE LastShown' = LastShown
  <2>1. CASE Len(drinkLoads) = 1
    <3>1. drinkLoads' = <<>> /\ drinkLoads # <<>>
      BY <1>1, <1>2, <2>1
    <3> QED BY <1>5, <2>1, <3>1 DEF LastShown
  <2>2. CASE Len(drinkLoads) > 1
    <3>1. drinkLoads' # <<>> /\ drinkLoads # <<>>
      BY <1>1, <1>2, <2>2
    <3>2. PICK n \in 1..(Len(drinkLoads) - 1) : n = Len(drinkLoads')
      BY <1>1, <1>2, <2>2
    <3>3. drinkLoads'[n] = drinkLoads[Len(drinkLoads)]
      BY <1>1, <1>2, <1>5, <3>2
    <3> QED BY <3>1, <3>2, <3>3 DEF LastShown
  <2> QED BY <1>2, <2>1, <2>2
<1> HIDE DEF from
<1> QED BY <1>3, <1>4, <1>5

\* A load arrives or fails: the one a save waits for brings the button back.
LEMMA LoadKeepsPage ==
  ASSUME StockIInv, PageInv, NEW i \in DOMAIN drinkLoads,
         loadStock(i) \/ loadBeverages(i) \/ StockLoadFails(i)
  PROVE  PageInv'
<1>1. drinkLoads' = RemoveAt(drinkLoads, i) /\ UNCHANGED <<page, drink, call>>
  BY DEF loadStock, loadBeverages, StockLoadFails, row
<1>2. AnswersAreOwn' /\ \A c \in Calls : Saving(c)' = Saving(c)
  BY <1>1 DEF PageInv, AnswersAreOwn, Saving
<1>3. saving' = (saving /\ ~drinkLoads[i].forSave)
  <2>1. CASE loadStock(i)
    <3>1. page = "counter" /\ saving' = saving
      BY <2>1 DEF loadStock
    <3>2. ~drinkLoads[i].forSave
      BY <3>1 DEF PageInv, OneSave
    <3> QED BY <3>1, <3>2 DEF StockIInv, PageTypes
  <2>2. CASE loadBeverages(i) \/ StockLoadFails(i)
    BY <2>2 DEF loadBeverages, StockLoadFails
  <2> QED BY <2>1, <2>2
<1>4. /\ \A k \in DOMAIN drinkLoads' : \E m \in DOMAIN drinkLoads :
              m # i /\ drinkLoads'[k] = drinkLoads[m]
      /\ \A k, l \in DOMAIN drinkLoads' : k # l => \E m, n \in DOMAIN drinkLoads :
              /\ m # i /\ n # i /\ m # n
              /\ drinkLoads'[k] = drinkLoads[m] /\ drinkLoads'[l] = drinkLoads[n]
  BY <1>1, LoadEndedAt DEF StockIInv
<1>5. OneSave'
  <2>1. CASE drinkLoads[i].forSave
    <3>1. /\ \A k \in DOMAIN drinkLoads' : ~drinkLoads'[k].forSave
          /\ \A c \in Calls : ~Saving(c)
      BY <1>4, <2>1 DEF PageInv, OneSave
    <3> QED BY <1>2, <3>1 DEF OneSave
  <2>2. CASE ~drinkLoads[i].forSave
    <3>1. saving' = saving
      BY <1>3, <2>2 DEF StockIInv, PageTypes
    <3>2. \A k, l \in DOMAIN drinkLoads' : drinkLoads'[k].forSave /\ drinkLoads'[l].forSave => k = l
      BY <1>4 DEF PageInv, OneSave
    <3>3. \A k \in DOMAIN drinkLoads' : drinkLoads'[k].forSave =>
            saving /\ page = "management" /\ \A c \in Calls : ~Saving(c)
      BY <1>4 DEF PageInv, OneSave
    <3> QED BY <1>1, <1>2, <3>1, <3>2, <3>3 DEF PageInv, OneSave
  <2> QED BY <2>1, <2>2
<1>6. Follows'
  <2>1. CASE smooth'
    <3>1. smooth /\ i = 1 /\ items' = drinkLoads[1].of
      BY <2>1 DEF loadStock, loadBeverages, StockLoadFails
    <3>2. LastShown' = LastShown
      BY <1>1, <3>1, LoadEndedAt DEF StockIInv
    <3> QED BY <1>1, <3>1, <3>2 DEF PageInv, Follows
  <2>2. CASE ~smooth'
    BY <2>2 DEF Follows
  <2> QED BY <2>1, <2>2
<1> QED BY <1>2, <1>5, <1>6 DEF PageInv

LEMMA NextPageInv == StockIInv /\ PageInv /\ [StockNext]_stockVars => PageInv'
<1> SUFFICES ASSUME StockIInv, PageInv, [StockNext]_stockVars PROVE PageInv'
  OBVIOUS
<1>1. ASSUME UNCHANGED <<page, drink, call, items, drinkLoads, saving, smooth>> PROVE PageInv'
  BY <1>1 DEF PageInv, Follows, LastShown, AnswersAreOwn, OneSave, Saving
<1>2. CASE UNCHANGED stockVars
  BY <1>1, <1>2 DEF stockVars
<1>3. ASSUME NEW c \in Calls, PageStep(c) PROVE PageInv'
  <2>1. ASSUME NEW qty \in Quantities, handleSell(c, qty) \/ handleRestock(c, qty) PROVE PageInv'
    <3>1. PICK kind \in {"sell", "restock"} : Requested(c, kind, page, qty, None)
      BY <2>1 DEF handleSell, handleRestock
    <3>2. UNCHANGED <<drink, view, smooth>>
      BY <2>1 DEF handleSell, handleRestock, row
    <3> QED BY <3>1, <3>2, SentKeepsPage DEF StockIInv
  <2>2. CASE handleDelete(c)
    <3>1. PICK l : Requested(c, "delete", page, 0, l)
      BY <2>2 DEF handleDelete
    <3>2. UNCHANGED <<drink, view, smooth>>
      BY <2>2 DEF handleDelete, row
    <3> QED BY <3>1, <3>2, SentKeepsPage DEF StockIInv
  <2> QED BY <1>3, <2>1, <2>2, SubmitKeepsPage, AnswerKeepsPage DEF PageStep
<1>4. ASSUME NEW c \in Calls, NEW kind, NEW qty, NEW label, OtherCall(c, kind, qty, label)
      PROVE  PageInv'
  <2>1. PICK n, l : Requested(c, kind, "other", n, l)
    BY <1>4 DEF OtherCall
  <2>2. UNCHANGED <<drink, view, smooth>>
    BY <1>4 DEF OtherCall, row
  <2> QED BY <2>1, <2>2, SentKeepsPage DEF StockIInv
<1>5. ASSUME startEdit \/ updateField \/ cancelEdit PROVE PageInv'
  BY <1>1, <1>5 DEF startEdit, updateField, cancelEdit, Editing, row
<1>6. CASE StockNext
  BY <1>3, <1>4, <1>5, <1>6, ServerKeepsPage, RefreshKeepsPage, LoadKeepsPage DEF StockNext
<1> QED BY <1>2, <1>6

LEMMA InitPageInv == StockInit => PageInv
<1> SUFFICES ASSUME StockInit PROVE PageInv
  OBVIOUS
<1>1. /\ items = drink /\ drink.active = TRUE /\ drinkLoads = <<>>
      /\ \A c \in Calls : call[c] = NoCall
  BY DEF StockInit
<1>2. NoCall.kind \notin {"update", "create"} /\ NoCall.stage \notin {"ok", "failed"}
  BY BeverageAssumption DEF NoCall
<1>3. Follows
  BY <1>1 DEF Follows, LastShown, Listing
<1>4. AnswersAreOwn /\ \A c \in Calls : ~Saving(c)
  BY <1>1, <1>2 DEF AnswersAreOwn, Saving
<1>5. OneSave
  <2>1. \A i \in DOMAIN drinkLoads : FALSE
    BY <1>1
  <2> QED BY <1>4, <2>1 DEF OneSave
<1> QED BY <1>3, <1>4, <1>5 DEF PageInv

-----------------------------------------------------------------------------
(* Theorems.                                                               *)

\* The inductive invariant: types, no negative stock shown, and a transaction that is under way
\* holds the lock of the row it read.
THEOREM StockInvariantHolds == StockSpec => []StockIInv
BY StockInitInv, StockNextInv, PTL DEF StockSpec

\* Every variable keeps its type.
THEOREM StockTypeCorrect == StockSpec => []StockTypeOK
<1>1. StockIInv => StockTypeOK
  <2> SUFFICES ASSUME StockIInv PROVE StockTypeOK
    OBVIOUS
  <2>1. \A i \in DOMAIN drinkLoads : drinkLoads[i].of \in Drink \cup {None}
    BY StockLoadRemoved DEF StockIInv, Shown
  <2> QED BY <2>1 DEF StockIInv, ServerTypes, PageTypes, Shown, StockTypeOK
<1> QED BY <1>1, StockInvariantHolds, PTL

\* The stock is what the transactions and the audit log say, whoever sells, restocks, corrects,
\* edits and deletes at once, and never negative.
THEOREM StockAgreesWithLedger == StockSpec => []StockIsTheLedger
<1>1. StockIInv => StockIsTheLedger
  BY DEF StockIInv
<1> QED BY <1>1, StockInvariantHolds, PTL

\* A transaction that saves the whole row changes labels only if it is an edit, and a deleted
\* beverage stays deleted and unsold.
THEOREM OnlyEditsChangeTheRest == StockSpec => SavesKeepTheRest
<1> DEFINE Kept == /\ drink'.label # drink.label => \E c \in Calls : lockedBy = c /\ call[c].kind = "update"
                   /\ ~drink.active => ~drink'.active /\ ledger'.sold = ledger.sold
<1>1. StockIInv /\ [StockNext]_stockVars => [Kept]_stockVars
  <2> SUFFICES ASSUME StockIInv, StockNext PROVE Kept
    OBVIOUS
  <2>1. CASE UNCHANGED <<drink, ledger>>
    BY <2>1
  <2>2. ASSUME NEW c \in Calls, Commit(c) PROVE Kept
    BY <2>2, SavedRowIsAccounted DEF Commit
  <2>3. ASSUME NEW c \in Calls, PageStep(c) PROVE UNCHANGED <<drink, ledger>>
    BY <2>3 DEF PageStep, handleSell, handleRestock, CounterAnswered, handleSubmit, SubmitAnswered,
                handleDelete, DeleteAnswered, TakesAnswer, row
  <2>4. ASSUME NEW c \in Calls, Lock(c) \/ Rollback(c) \/ Create(c) PROVE UNCHANGED <<drink, ledger>>
    BY <2>4 DEF Lock, Rollback, Create, row
  <2>5. ASSUME NEW i, loadStock(i) \/ loadBeverages(i) \/ StockLoadFails(i)
        PROVE  UNCHANGED <<drink, ledger>>
    BY <2>5 DEF loadStock, loadBeverages, StockLoadFails, row
  <2>6. ASSUME NEW c, NEW kind, NEW qty, NEW label, OtherCall(c, kind, qty, label)
        PROVE  UNCHANGED <<drink, ledger>>
    BY <2>6 DEF OtherCall, row
  <2>7. ASSUME Refresh \/ startEdit \/ updateField \/ cancelEdit PROVE UNCHANGED <<drink, ledger>>
    BY <2>7 DEF Refresh, startEdit, updateField, cancelEdit, Editing, row
  <2> QED BY <2>1, <2>2, <2>3, <2>4, <2>5, <2>6, <2>7 DEF StockNext, ServerStep
<1> QED BY <1>1, StockInvariantHolds, PTL DEF StockSpec, SavesKeepTheRest

\* While nothing failed or was overtaken and nobody else wrote, the page shows the row once its
\* loads have arrived; and the form is saved once at a time.
THEOREM PageShowsItsCalls == StockSpec => []PageFollowsItsCalls
<1>1. PageInv => PageFollowsItsCalls
  BY DEF PageInv, Follows, LastShown, OneSave, PageFollowsItsCalls
<1>2. StockSpec => []PageInv
  BY StockInvariantHolds, InitPageInv, NextPageInv, PTL DEF StockSpec
<1> QED BY <1>1, <1>2, PTL

-----------------------------------------------------------------------------
(* The court and price panel: what it shows is of the court that is chosen. *)

\* The prices of some of the rules.
PriceLists == UNION {[S -> Nat] : S \in SUBSET Rules}

PanelListing == [kind: {"courts", "rules"}, of: Courts \cup {None}, base: {<<>>} \cup [Courts -> Nat],
                 rules: PriceLists]

\* What a call is about: a court or a new one, a rule or a new one, a rule that is removed.
PanelSave == {s \in [n: Nat, kind: {"court", "rule", "remove"}, on: Courts \cup Rules \cup {None},
                     price: Nat, court: Courts \cup {None}, open: Rules \cup {None}] :
                /\ s.kind = "court" => s.on \in Courts \cup {None}
                /\ s.kind = "rule" => s.on \in Rules \cup {None}
                /\ s.kind = "remove" => s.on \in Rules}

PanelTypes == /\ base \in [Courts -> Nat]
              /\ ruleOf \in [Rules -> [court: Courts \cup {None}, price: Nat]]
              /\ courtsShown \in {<<>>} \cup [Courts -> Nat]
              /\ courtForm \in [editing: Courts \cup {None}, price: Nat]
              /\ courtId \in Courts \cup {None}
              /\ rulesShown \in [of: Courts \cup {None}, rules: PriceLists]
              /\ ruleForm \in [editing: Rules \cup {None}, court: Courts \cup {None}, price: Nat]
              /\ saves \subseteq PanelSave /\ made \in 0..MaxSaves
              /\ listings \in Seq(PanelListing) /\ tidy \in BOOLEAN

RulesOf(c)  == [r \in {q \in Rules : c # None /\ ruleOf[q].court = c} |-> ruleOf[r].price]
OfRules(l)  == l.kind = "rules"
OfPanel(s)  == s.kind \in {"rule", "remove"}
OfChosen(r) == ruleOf[r] = Unmade \/ ruleOf[r].court = courtId

\* Before a court is chosen nothing is known of rules.
NotChosenYet == courtId = None => /\ \A i \in DOMAIN listings : ~OfRules(listings[i])
                                  /\ \A s \in saves : ~OfPanel(s)
                                  /\ rulesShown.rules = NoRules

\* What is under way, the form and the list are about the court that is chosen; the last list to
\* arrive is complete.
LoadsOfChosen == tidy => \A i \in DOMAIN listings : OfRules(listings[i]) =>
  /\ listings[i].of = courtId /\ \A r \in DOMAIN listings[i].rules : OfChosen(r)
  /\ (\A j \in DOMAIN listings : j > i => ~OfRules(listings[j])) => listings[i].rules = RulesOf(courtId)
SavesOfChosen == tidy => \A s \in saves : OfPanel(s) =>
  s.court = courtId /\ (s.on # None => OfChosen(s.on))
FormOfChosen == tidy => /\ ruleForm.court \in {None, courtId}
                        /\ ruleForm.editing # None => courtId # None /\ OfChosen(ruleForm.editing)
ListOfChosen == tidy /\ (\A i \in DOMAIN listings : ~OfRules(listings[i])) =>
  rulesShown.of = courtId /\ rulesShown.rules = RulesOf(courtId)

\* A rule on the list is one of the court the list is of, or it is gone.
RulesOnList == tidy => \A r \in DOMAIN rulesShown.rules :
  /\ rulesShown.of # None
  /\ ruleOf[r].court = rulesShown.of \/ (rulesShown.of = courtId /\ OfChosen(r))

AllOfChosen == LoadsOfChosen /\ SavesOfChosen /\ FormOfChosen /\ ListOfChosen /\ RulesOnList
PanelInv    == PanelTypes /\ NotChosenYet /\ AllOfChosen

-----------------------------------------------------------------------------
LEMMA PanelListings ==
  ASSUME PanelTypes, NEW i \in DOMAIN listings
  PROVE  /\ listings[i] \in PanelListing
         /\ RemoveAt(listings, i) \in Seq(PanelListing)
         /\ \E from : LeftFrom(from, listings, i, RemoveAt(listings, i))
<1>1. listings \in Seq(PanelListing)
  BY DEF PanelTypes
<1> QED BY <1>1, RemovedFrom

LEMMA FirstCourtIsOne == FirstCourt \in Courts /\ FirstCourt # None
BY PanelAssumption DEF FirstCourt

LEMMA UnmadeIsRule == Unmade \in [court: Courts \cup {None}, price: Nat] /\ Unmade.court = None
BY DEF Unmade

LEMMA NoRulesListed == NoRules \in PriceLists /\ DOMAIN NoRules = {}
<1>1. NoRules \in [{} -> Nat] /\ {} \in SUBSET Rules
  BY DEF NoRules
<1> QED BY <1>1 DEF PriceLists, NoRules

LEMMA ListedPrices ==
  ASSUME NEW f \in PriceLists
  PROVE  DOMAIN f \subseteq Rules /\ \A r \in DOMAIN f : f[r] \in Nat
<1>1. PICK S \in SUBSET Rules : f \in [S -> Nat]
  BY DEF PriceLists
<1> QED BY <1>1

LEMMA ListingsAsked ==
  ASSUME ruleOf' \in [Rules -> [court: Courts \cup {None}, price: Nat]], base' \in [Courts -> Nat],
         NEW c \in Courts \cup {None}
  PROVE  /\ RulesListing(c) \in PanelListing /\ RulesListing(c).kind = "rules"
         /\ RulesListing(c).of = c /\ RulesListing(c).rules = [r \in {q \in Rules : ruleOf'[q].court = c} |-> ruleOf'[r].price]
         /\ CourtsListing \in PanelListing /\ CourtsListing.kind = "courts"
<1>1. RulesAt(c) \in PriceLists
  <2>1. \A r \in Rules : ruleOf'[r].price \in Nat
    OBVIOUS
  <2>2. PICK S \in SUBSET Rules : S = {q \in Rules : ruleOf'[q].court = c}
    OBVIOUS
  <2>3. [r \in S |-> ruleOf'[r].price] \in [S -> Nat]
    BY <2>1
  <2> QED BY <2>2, <2>3 DEF RulesAt, PriceLists
<1>2. NoRules \in PriceLists
  BY NoRulesListed
<1>3. RulesAt(c) = [r \in {q \in Rules : ruleOf'[q].court = c} |-> ruleOf'[r].price]
  BY DEF RulesAt
<1> QED BY <1>1, <1>2, <1>3 DEF RulesListing, CourtsListing, PanelListing

\* A list of rules of the chosen court.
LEMMA RulesAtChosen ==
  ASSUME courtId' # None
  PROVE  [r \in {q \in Rules : ruleOf'[q].court = courtId'} |-> ruleOf'[r].price] = RulesOf(courtId)'
<1>1. {q \in Rules : ruleOf'[q].court = courtId'} = {q \in Rules : courtId' # None /\ ruleOf'[q].court = courtId'}
  OBVIOUS
<1> QED BY <1>1 DEF RulesOf

LEMMA PanelAppended ==
  ASSUME PanelTypes, NEW x \in PanelListing
  PROVE  Append(listings, x) \in Seq(PanelListing) /\ AddedTo(listings, x, Append(listings, x))
<1>1. listings \in Seq(PanelListing)
  BY DEF PanelTypes
<1> QED BY <1>1, Appended

LEMMA FormsReset ==
  ASSUME PanelTypes, NEW c \in Courts \cup {None}
  PROVE  /\ BaseOf(c) \in Nat
         /\ [DEFAULT_FORM EXCEPT !.court = c, !.price = BaseOf(c)] =
              [editing |-> None, court |-> c, price |-> BaseOf(c)]
         /\ [DEFAULT_FORM EXCEPT !.court = c, !.price = BaseOf(c)]
              \in [editing: Rules \cup {None}, court: Courts \cup {None}, price: Nat]
         /\ EMPTY_COURT \in [editing: Courts \cup {None}, price: Nat]
<1>1. BaseOf(c) \in Nat
  BY DEF PanelTypes, BaseOf
<1>2. ASSUME NEW b PROVE [DEFAULT_FORM EXCEPT !.court = c, !.price = b] =
                           [editing |-> None, court |-> c, price |-> b]
  <2>1. PICK f : f = [DEFAULT_FORM EXCEPT !.court = c, !.price = b]
    OBVIOUS
  <2>2. f \in [editing: {None}, court: {c}, price: {b}]
    BY <2>1 DEF DEFAULT_FORM
  <2> QED BY <2>1, <2>2
<1>3. EMPTY_COURT \in [editing: Courts \cup {None}, price: Nat]
  BY DEF EMPTY_COURT
<1> QED BY <1>1, <1>2, <1>3

LEMMA FormResetTo ==
  ASSUME PanelTypes, NEW c \in Courts \cup {None}, resetRuleForm(c)
  PROVE  ruleForm'.editing = None /\ ruleForm'.court = c
<1>1. PICK b : b = BaseOf(c)
  OBVIOUS
<1>2. ruleForm' = [DEFAULT_FORM EXCEPT !.court = c, !.price = b]
  BY <1>1 DEF resetRuleForm
<1>3. ruleForm' = [editing |-> None, court |-> c, price |-> b]
  BY <1>1, <1>2, FormsReset
<1> QED BY <1>3

\* A rule that is written or removed is, and was, none or one of the chosen court.
ChosenRulesChange == \A q \in Rules :
  \/ ruleOf'[q] = ruleOf[q]
  \/ OfChosen(q) /\ (ruleOf'[q] = Unmade \/ ruleOf'[q].court = courtId)

LEMMA SavedTypes ==
  ASSUME PanelTypes, NEW s \in saves, CourtWritten(s) \/ RuleWritten(s) \/ RuleGone(s)
  PROVE  base' \in [Courts -> Nat] /\ ruleOf' \in [Rules -> [court: Courts \cup {None}, price: Nat]]
<1>1. s \in PanelSave
  BY DEF PanelTypes
<1>2. CASE CourtWritten(s)
  BY <1>1, <1>2 DEF CourtWritten, PanelTypes, PanelSave
<1>3. CASE RuleWritten(s)
  <2>1. PICK r \in Rules : ruleOf' = [ruleOf EXCEPT ![r] =
                    [court |-> IF s.on = None THEN s.court ELSE ruleOf[r].court, price |-> s.price]]
    BY <1>3 DEF RuleWritten, PanelTypes
  <2>2. s.court \in Courts \cup {None} /\ s.price \in Nat /\ ruleOf[r].court \in Courts \cup {None}
    BY <1>1 DEF PanelSave, PanelTypes
  <2> QED BY <1>3, <2>1, <2>2 DEF RuleWritten, PanelTypes
<1>4. CASE RuleGone(s)
  BY <1>4, UnmadeIsRule DEF RuleGone, PanelTypes
<1> QED BY <1>2, <1>3, <1>4

LEMMA RulesChange ==
  ASSUME PanelTypes, SavesOfChosen, tidy, NEW s \in saves, RuleWritten(s) \/ RuleGone(s)
  PROVE  ChosenRulesChange /\ s.court = courtId
<1>1. /\ s \in PanelSave /\ OfPanel(s) /\ s.court = courtId /\ (s.on # None => OfChosen(s.on))
  BY DEF PanelTypes, SavesOfChosen, OfPanel, RuleWritten, RuleGone
<1>2. CASE RuleWritten(s)
  <2>1. PICK r \in Rules :
          /\ IF s.on = None THEN FirstOf(r, {q \in Rules : ruleOf[q] = Unmade})
                            ELSE r = s.on /\ ruleOf[r] # Unmade
          /\ ruleOf' = [ruleOf EXCEPT ![r] =
                    [court |-> IF s.on = None THEN s.court ELSE ruleOf[r].court, price |-> s.price]]
    BY <1>2 DEF RuleWritten, PanelTypes
  <2>2. \A q \in Rules : q # r => ruleOf'[q] = ruleOf[q]
    BY <2>1 DEF PanelTypes
  <2>3. OfChosen(r) /\ ruleOf'[r].court = courtId
    BY <1>1, <2>1 DEF PanelTypes, OfChosen, FirstOf
  <2> QED BY <1>1, <2>2, <2>3 DEF ChosenRulesChange
<1>3. CASE RuleGone(s)
  <2>1. s.on \in Rules /\ ruleOf' = [ruleOf EXCEPT ![s.on] = Unmade]
    BY <1>1, <1>3 DEF RuleGone, PanelSave
  <2>2. s.on # None
    BY <2>1, PanelAssumption
  <2> QED BY <1>1, <2>1, <2>2 DEF ChosenRulesChange, PanelTypes
<1> QED BY <1>2, <1>3

-----------------------------------------------------------------------------
(* Types.                                                                  *)

LEMMA LoadKeepsPanelTypes ==
  ASSUME PanelTypes, NEW i \in DOMAIN listings, loadCourts(i) \/ loadRules(i) \/ ListingFails(i)
  PROVE  PanelTypes'
<1>1. listings[i] \in PanelListing /\ RemoveAt(listings, i) \in Seq(PanelListing)
  BY PanelListings
<1>2. CASE loadCourts(i)
  <2>1. RulesListing(FirstCourt) \in PanelListing
    BY <1>2, ListingsAsked, FirstCourtIsOne DEF loadCourts, PanelTypes
  <2>2. listings' \in Seq(PanelListing)
    BY <1>1, <1>2, <2>1, ConcatProperties DEF loadCourts
  <2>3. courtsShown' \in {<<>>} \cup [Courts -> Nat] /\ courtId' \in Courts \cup {None} /\ tidy' \in BOOLEAN
    BY <1>1, <1>2, FirstCourtIsOne DEF loadCourts, PanelListing, PanelTypes
  <2> QED BY <1>2, <2>2, <2>3 DEF loadCourts, PanelTypes
<1>3. CASE loadRules(i)
  <2>1. rulesShown' \in [of: Courts \cup {None}, rules: PriceLists]
    BY <1>1, <1>3 DEF loadRules, PanelListing
  <2>2. listings' \in Seq(PanelListing) /\ tidy' \in BOOLEAN
    BY <1>1, <1>3 DEF loadRules, PanelTypes
  <2> QED BY <1>3, <2>1, <2>2 DEF loadRules, PanelTypes
<1>4. CASE ListingFails(i)
  BY <1>1, <1>4 DEF ListingFails, PanelTypes
<1> QED BY <1>2, <1>3, <1>4

LEMMA EditKeepsPanelTypes ==
  ASSUME PanelTypes,
         \/ \E c \in Courts : startEditCourt(c) \/ chooseCourt(c)
         \/ \E p \in Prices : typeBase(p) \/ typePrice(p)
         \/ \E r \in Rules : startEditRule(r)
         \/ cancelCourt \/ newRule
  PROVE  PanelTypes'
<1>1. ASSUME NEW c \in Courts, startEditCourt(c) PROVE PanelTypes'
  BY <1>1 DEF startEditCourt, OnPage, PanelTypes
<1>2. ASSUME NEW c \in Courts, chooseCourt(c) PROVE PanelTypes'
  <2>1. /\ RulesListing(c) \in PanelListing
        /\ listings' = Append(listings, RulesListing(c)) /\ tidy' \in BOOLEAN
    BY <1>2, ListingsAsked DEF chooseCourt, PanelTypes
  <2>2. ruleForm' \in [editing: Rules \cup {None}, court: Courts \cup {None}, price: Nat]
    BY <1>2, FormsReset DEF chooseCourt
  <2> QED BY <1>2, <2>1, <2>2, PanelAppended DEF chooseCourt, PanelTypes
<1>3. ASSUME NEW p \in Prices, typeBase(p) \/ typePrice(p) PROVE PanelTypes'
  BY <1>3, PanelAssumption DEF typeBase, typePrice, OnPage, InPanel, PanelTypes
<1>4. ASSUME NEW r \in Rules, startEditRule(r) PROVE PanelTypes'
  <2>1. ruleForm' \in [editing: Rules \cup {None}, court: Courts \cup {None}, price: Nat]
    <3>1. rulesShown.rules \in PriceLists /\ rulesShown.of \in Courts \cup {None}
      BY DEF PanelTypes
    <3>2. r \in DOMAIN rulesShown.rules
      BY <1>4 DEF startEditRule
    <3>3. rulesShown.rules[r] \in Nat
      BY <3>1, <3>2, ListedPrices
    <3> QED BY <1>4, <3>1, <3>3 DEF startEditRule
  <2> QED BY <1>4, <2>1 DEF startEditRule, InPanel, PanelTypes
<1>5. CASE cancelCourt
  BY <1>5 DEF cancelCourt, EMPTY_COURT, OnPage, PanelTypes
<1>6. CASE newRule
  <2>1. ruleForm' \in [editing: Rules \cup {None}, court: Courts \cup {None}, price: Nat]
    BY <1>6, FormsReset DEF newRule, resetRuleForm, PanelTypes
  <2> QED BY <1>6, <2>1 DEF newRule, InPanel, PanelTypes
<1> QED BY <1>1, <1>2, <1>3, <1>4, <1>5, <1>6

\* What is sent, field by field.
LEMMA SentSave ==
  ASSUME PanelTypes,
         submitCourt \/ saveRule \/ \E r \in Rules : removeRule(r)
  PROVE  \E s \in PanelSave : /\ saves' = saves \cup {s} /\ made' \in 0..MaxSaves
                              /\ \/ submitCourt /\ s.kind = "court"
                                 \/ saveRule /\ s.kind = "rule" /\ s.on = ruleForm.editing /\ s.court = courtId
                                 \/ removeRule(s.on) /\ s.kind = "remove" /\ s.court = courtId
<1>1. made \in 0..MaxSaves /\ MaxSaves \in Nat
  BY PanelAssumption DEF PanelTypes
<1>2. CASE submitCourt
  <2>1. PICK s : s = [n |-> made + 1, kind |-> "court", on |-> courtForm.editing, price |-> courtForm.price,
                      court |-> None, open |-> None]
    OBVIOUS
  <2>2. saves' = saves \cup {s} /\ made' = made + 1 /\ made < MaxSaves
    <3>1. PICK new : new = [NoSave EXCEPT !.kind = "court", !.on = courtForm.editing, !.price = courtForm.price]
      OBVIOUS
    <3>2. [new EXCEPT !.n = made + 1] = s
      <4>1. PICK submitted : submitted = [new EXCEPT !.n = made + 1]
        OBVIOUS
      <4>2. new \in [n: {0}, kind: {"court"}, on: {courtForm.editing}, price: {courtForm.price},
                         court: {None}, open: {None}]
        BY <3>1 DEF NoSave
      <4>3. submitted \in [n: {made + 1}, kind: {"court"}, on: {courtForm.editing}, price: {courtForm.price},
                         court: {None}, open: {None}]
        BY <4>1, <4>2
      <4> QED BY <2>1, <4>1, <4>3
    <3>3. Sends(new)
      BY <1>2, <3>1 DEF submitCourt
    <3> QED BY <3>2, <3>3 DEF Sends
  <2>3. s \in PanelSave /\ s.kind = "court"
    BY <1>1, <2>1 DEF PanelSave, PanelTypes
  <2> QED BY <1>1, <1>2, <2>2, <2>3
<1>3. CASE saveRule
  <2>1. PICK s : s = [n |-> made + 1, kind |-> "rule", on |-> ruleForm.editing, price |-> ruleForm.price,
                      court |-> courtId, open |-> None]
    OBVIOUS
  <2>2. saves' = saves \cup {s} /\ made' = made + 1 /\ made < MaxSaves
    <3>1. PICK new : new = [NoSave EXCEPT !.kind = "rule", !.on = ruleForm.editing, !.price = ruleForm.price,
                           !.court = courtId]
      OBVIOUS
    <3>2. [new EXCEPT !.n = made + 1] = s
      <4>1. PICK submitted : submitted = [new EXCEPT !.n = made + 1]
        OBVIOUS
      <4>2. new \in [n: {0}, kind: {"rule"}, on: {ruleForm.editing}, price: {ruleForm.price},
                         court: {courtId}, open: {None}]
        BY <3>1 DEF NoSave
      <4>3. submitted \in [n: {made + 1}, kind: {"rule"}, on: {ruleForm.editing}, price: {ruleForm.price},
                         court: {courtId}, open: {None}]
        BY <4>1, <4>2
      <4> QED BY <2>1, <4>1, <4>3
    <3>3. Sends(new)
      BY <1>3, <3>1 DEF saveRule
    <3> QED BY <3>2, <3>3 DEF Sends
  <2>3. s \in PanelSave /\ s.kind = "rule" /\ s.on = ruleForm.editing /\ s.court = courtId
    BY <1>1, <2>1 DEF PanelSave, PanelTypes
  <2> QED BY <1>1, <1>3, <2>2, <2>3
<1>4. ASSUME NEW r \in Rules, removeRule(r)
      PROVE  \E s \in PanelSave : /\ saves' = saves \cup {s} /\ made' \in 0..MaxSaves
                                  /\ removeRule(s.on) /\ s.kind = "remove" /\ s.court = courtId
  <2>1. PICK s : s = [n |-> made + 1, kind |-> "remove", on |-> r, price |-> 0,
                      court |-> courtId, open |-> ruleForm.editing]
    OBVIOUS
  <2>2. saves' = saves \cup {s} /\ made' = made + 1 /\ made < MaxSaves
    <3>1. PICK new : new = [NoSave EXCEPT !.kind = "remove", !.on = r, !.court = courtId, !.open = ruleForm.editing]
      OBVIOUS
    <3>2. [new EXCEPT !.n = made + 1] = s
      <4>1. PICK submitted : submitted = [new EXCEPT !.n = made + 1]
        OBVIOUS
      <4>2. new \in [n: {0}, kind: {"remove"}, on: {r}, price: {0},
                         court: {courtId}, open: {ruleForm.editing}]
        BY <3>1 DEF NoSave
      <4>3. submitted \in [n: {made + 1}, kind: {"remove"}, on: {r}, price: {0},
                         court: {courtId}, open: {ruleForm.editing}]
        BY <4>1, <4>2
      <4> QED BY <2>1, <4>1, <4>3
    <3>3. Sends(new)
      BY <1>4, <3>1 DEF removeRule
    <3> QED BY <3>2, <3>3 DEF Sends
  <2>3. s \in PanelSave /\ s.kind = "remove" /\ s.on = r /\ s.court = courtId
    BY <1>1, <2>1 DEF PanelSave, PanelTypes
  <2> QED BY <1>1, <1>4, <2>2, <2>3
<1> QED BY <1>2, <1>3, <1>4

LEMMA SaveKeepsPanelTypes ==
  ASSUME PanelTypes, NEW s \in saves, courtSaved(s) \/ ruleSaved(s) \/ ruleRemoved(s) \/ SaveFails(s)
  PROVE  PanelTypes'
<1>1. base' \in [Courts -> Nat] /\ ruleOf' \in [Rules -> [court: Courts \cup {None}, price: Nat]]
  BY SavedTypes DEF courtSaved, ruleSaved, ruleRemoved, SaveFails, PanelTypes
<1>2. s.court \in Courts \cup {None}
  BY DEF PanelTypes, PanelSave
<1>3. RulesListing(s.court) \in PanelListing /\ CourtsListing \in PanelListing
  BY <1>1, <1>2, ListingsAsked
<1>4. listings' \in Seq(PanelListing)
  <2>1. listings' \in {listings, Append(listings, RulesListing(s.court)), Append(listings, CourtsListing)}
    BY DEF courtSaved, ruleSaved, ruleRemoved, SaveFails
  <2> QED BY <1>3, <2>1, PanelAppended DEF PanelTypes
<1>5. /\ ruleForm' \in [editing: Rules \cup {None}, court: Courts \cup {None}, price: Nat]
      /\ courtForm' \in [editing: Courts \cup {None}, price: Nat]
  <2>1. ruleForm' \in {ruleForm, [DEFAULT_FORM EXCEPT !.court = s.court, !.price = BaseOf(s.court)]}
    BY DEF courtSaved, ruleSaved, ruleRemoved, SaveFails, resetRuleForm
  <2>2. courtForm' \in {courtForm, EMPTY_COURT}
    BY DEF courtSaved, ruleSaved, ruleRemoved, SaveFails
  <2> QED BY <1>2, <2>1, <2>2, FormsReset DEF PanelTypes
<1>6. saves' \subseteq PanelSave /\ tidy' \in BOOLEAN
  BY DEF PanelTypes, courtSaved, ruleSaved, ruleRemoved, SaveFails
<1> QED BY <1>1, <1>4, <1>5, <1>6 DEF PanelTypes, courtSaved, ruleSaved, ruleRemoved, SaveFails

-----------------------------------------------------------------------------
(* About the court that is chosen.                                         *)

\* Nothing but the forms changes.
LEMMA EditKeepsChosen ==
  ASSUME PanelInv, UNCHANGED <<ruleOf, courtId, rulesShown, saves, listings>>, tidy' => tidy, FormOfChosen'
  PROVE  NotChosenYet' /\ AllOfChosen'
BY DEF PanelInv, AllOfChosen, NotChosenYet, LoadsOfChosen, SavesOfChosen, ListOfChosen, RulesOnList,
       OfChosen, RulesOf

LEMMA FormKeepsChosen ==
  ASSUME PanelInv,
         \/ \E c \in Courts : startEditCourt(c)
         \/ \E p \in Prices : typeBase(p) \/ typePrice(p)
         \/ \E r \in Rules : startEditRule(r)
         \/ cancelCourt \/ newRule
  PROVE  NotChosenYet' /\ AllOfChosen'
<1>0. tidy' => tidy
  BY Zenon DEF startEditCourt, typeBase, typePrice, startEditRule, cancelCourt, newRule, OnPage, InPanel
<1>1. UNCHANGED <<ruleOf, courtId, rulesShown, saves, listings>> /\ (tidy' => tidy)
  BY <1>0 DEF startEditCourt, typeBase, typePrice, startEditRule, cancelCourt, newRule, OnPage, InPanel
<1>2. FormOfChosen'
  <2>1. CASE UNCHANGED <<ruleForm>>
    BY <1>1, <2>1 DEF PanelInv, AllOfChosen, FormOfChosen, OfChosen
  <2>2. ASSUME NEW p \in Prices, typePrice(p) PROVE FormOfChosen'
    <3>1. ruleForm'.editing = ruleForm.editing /\ ruleForm'.court = ruleForm.court
      BY <2>2 DEF typePrice, PanelInv, PanelTypes
    <3> QED BY <1>1, <3>1 DEF PanelInv, AllOfChosen, FormOfChosen, OfChosen
  <2>3. ASSUME NEW r \in Rules, startEditRule(r) PROVE FormOfChosen'
    <3>1. /\ ruleForm'.editing = r /\ ruleForm'.court = rulesShown.of /\ r \in DOMAIN rulesShown.rules
          /\ tidy' => rulesShown.of = courtId
      BY <2>3 DEF startEditRule
    <3> QED BY <1>1, <3>1 DEF PanelInv, AllOfChosen, RulesOnList, FormOfChosen, OfChosen
  <2>4. CASE newRule
    <3>1. courtId \in Courts \cup {None}
      BY DEF PanelInv, PanelTypes
    <3>2. ruleForm'.editing = None /\ ruleForm'.court = courtId
      BY <2>4, <3>1, FormResetTo DEF newRule, PanelInv
    <3> QED BY <1>1, <3>2 DEF FormOfChosen
  <2> QED BY <2>1, <2>2, <2>3, <2>4 DEF startEditCourt, typeBase, cancelCourt, OnPage
<1> QED BY <1>1, <1>2, EditKeepsChosen

LEMMA SendKeepsChosen ==
  ASSUME PanelInv, submitCourt \/ saveRule \/ \E r \in Rules : removeRule(r)
  PROVE  NotChosenYet' /\ AllOfChosen'
<1>0. tidy' => tidy
  BY Zenon DEF submitCourt, saveRule, removeRule
<1>1. UNCHANGED <<ruleOf, courtId, rulesShown, ruleForm, listings>> /\ (tidy' => tidy)
  BY <1>0 DEF submitCourt, saveRule, removeRule
<1>2. PICK s \in PanelSave :
        /\ saves' = saves \cup {s}
        /\ \/ submitCourt /\ s.kind = "court"
           \/ saveRule /\ s.kind = "rule" /\ s.on = ruleForm.editing /\ s.court = courtId
           \/ removeRule(s.on) /\ s.kind = "remove" /\ s.court = courtId
  BY SentSave DEF PanelInv
<1>3. ASSUME tidy', OfPanel(s) PROVE s.court = courtId /\ (s.on # None => OfChosen(s.on))
  <2>1. CASE saveRule /\ s.on = ruleForm.editing /\ s.court = courtId
    BY <1>1, <1>3, <2>1 DEF PanelInv, AllOfChosen, FormOfChosen
  <2>2. CASE removeRule(s.on) /\ s.court = courtId
    <3>1. s.on \in DOMAIN rulesShown.rules /\ rulesShown.of = courtId
      BY <1>3, <2>2 DEF removeRule
    <3> QED BY <1>1, <1>3, <2>2, <3>1 DEF PanelInv, AllOfChosen, RulesOnList, OfChosen
  <2> QED BY <1>2, <1>3, <2>1, <2>2 DEF OfPanel
<1>4. NotChosenYet'
  <2>1. ASSUME OfPanel(s) PROVE courtId # None
    <3>1. CASE saveRule
      BY <3>1 DEF saveRule
    <3>2. CASE removeRule(s.on)
      BY <3>2, NoRulesListed DEF removeRule, PanelInv, NotChosenYet
    <3> QED BY <1>2, <2>1, <3>1, <3>2 DEF OfPanel
  <2> QED BY <1>1, <1>2, <2>1 DEF PanelInv, NotChosenYet
<1>5. SavesOfChosen'
  BY <1>1, <1>2, <1>3 DEF PanelInv, AllOfChosen, SavesOfChosen, OfChosen
<1>6. LoadsOfChosen' /\ FormOfChosen' /\ ListOfChosen' /\ RulesOnList'
  BY <1>1 DEF PanelInv, AllOfChosen, LoadsOfChosen, FormOfChosen, ListOfChosen, RulesOnList, OfChosen, RulesOf
<1> QED BY <1>4, <1>5, <1>6 DEF AllOfChosen

\* A list that is asked for is the last to arrive.
LEMMA AskedOfChosen ==
  ASSUME PanelTypes, PanelTypes', NEW x \in PanelListing, listings' = Append(listings, x), OfRules(x),
         x.of = courtId', courtId' # None, x.rules = RulesOf(courtId)',
         tidy' => \A i \in DOMAIN listings : OfRules(listings[i]) =>
                    listings[i].of = courtId' /\ \A r \in DOMAIN listings[i].rules : OfChosen(r)'
  PROVE  LoadsOfChosen' /\ ListOfChosen' /\ \E i \in DOMAIN listings' : OfRules(listings'[i])
<1>1. AddedTo(listings, x, listings')
  BY PanelAppended
<1>2. PICK n \in Nat : /\ n = Len(listings) /\ DOMAIN listings = 1..n /\ DOMAIN listings' = 1..(n + 1)
                       /\ \A k \in 1..n : listings'[k] = listings[k]
                       /\ listings'[n + 1] = x
  BY <1>1 DEF AddedTo
<1>3. n + 1 \in DOMAIN listings' /\ OfRules(listings'[n + 1])
  BY <1>2
<1>4. \A r \in DOMAIN x.rules : OfChosen(r)'
  BY DEF RulesOf, OfChosen
<1>5. ASSUME tidy', NEW i \in DOMAIN listings', OfRules(listings'[i])
      PROVE  /\ listings'[i].of = courtId' /\ \A r \in DOMAIN listings'[i].rules : OfChosen(r)'
             /\ (\A j \in DOMAIN listings' : j > i => ~OfRules(listings'[j])) =>
                  listings'[i].rules = RulesOf(courtId)'
  <2>1. CASE i = n + 1
    BY <1>2, <1>4, <2>1
  <2>2. CASE i # n + 1
    <3>1. i \in 1..n /\ n + 1 > i /\ listings'[i] = listings[i]
      BY <1>2, <2>2
    <3> QED BY <1>2, <1>3, <1>5, <3>1
  <2> QED BY <2>1, <2>2
<1>6. LoadsOfChosen'
  BY <1>5 DEF LoadsOfChosen
<1> QED BY <1>3, <1>6 DEF ListOfChosen

LEMMA ChooseKeepsChosen ==
  ASSUME PanelInv, PanelTypes', NEW c \in Courts, chooseCourt(c)
  PROVE  NotChosenYet' /\ AllOfChosen'
<1>1. /\ UNCHANGED <<base, ruleOf, rulesShown, saves>> /\ courtId' = c /\ c # None
      /\ listings' = Append(listings, RulesListing(c))
  BY PanelAssumption DEF chooseCourt
<1>2. tidy' => /\ tidy /\ (\A s \in saves : ~OfPanel(s)) /\ \A i \in DOMAIN listings : ~OfRules(listings[i])
  <2>1. tidy' => tidy /\ (\A s \in saves : s.kind = "court")
                 /\ \A i \in DOMAIN listings : listings[i].kind # "rules"
    BY Zenon DEF chooseCourt
  <2> QED BY <2>1 DEF OfPanel, OfRules
<1>3. /\ RulesListing(c) \in PanelListing /\ OfRules(RulesListing(c))
      /\ RulesListing(c).of = c /\ RulesListing(c).rules = RulesOf(courtId)'
  BY <1>1, ListingsAsked, RulesAtChosen DEF PanelInv, PanelTypes, OfRules
<1>4. PICK x \in PanelListing : x = RulesListing(c)
  BY <1>3
<1>5. LoadsOfChosen' /\ ListOfChosen'
  BY <1>1, <1>2, <1>3, <1>4, AskedOfChosen DEF PanelInv
<1>6. NotChosenYet' /\ SavesOfChosen'
  BY <1>1, <1>2 DEF NotChosenYet, SavesOfChosen
<1>7. FormOfChosen'
  <2>1. ruleForm'.editing = None /\ ruleForm'.court = c
    BY FormResetTo DEF chooseCourt, resetRuleForm, PanelInv
  <2> QED BY <1>1, <2>1 DEF FormOfChosen
<1>8. RulesOnList'
  <2>1. ASSUME tidy', NEW r \in DOMAIN rulesShown.rules
        PROVE  rulesShown.of # None /\ ruleOf[r].court = rulesShown.of
    BY <1>2, <2>1 DEF PanelInv, AllOfChosen, ListOfChosen, RulesOnList, RulesOf
  <2> QED BY <1>1, <2>1 DEF RulesOnList
<1> QED BY <1>5, <1>6, <1>7, <1>8 DEF AllOfChosen

LEMMA ChosenStay ==
  ASSUME PanelTypes, ChosenRulesChange, UNCHANGED courtId
  PROVE  \A r \in Rules : OfChosen(r) => OfChosen(r)'
BY DEF ChosenRulesChange, OfChosen

\* A rule is written or removed, and the rules of its court are asked for.
LEMMA RuleKeepsChosen ==
  ASSUME PanelInv, PanelTypes', NEW s \in saves, ruleSaved(s) \/ ruleRemoved(s)
  PROVE  NotChosenYet' /\ AllOfChosen'
<1>1. /\ UNCHANGED <<base, courtId, rulesShown, tidy>> /\ saves' = saves \ {s}
      /\ listings' = Append(listings, RulesListing(s.court))
      /\ RuleWritten(s) \/ RuleGone(s)
  BY DEF ruleSaved, ruleRemoved, RuleWritten, RuleGone
<1>2. OfPanel(s) /\ courtId # None
  BY <1>1 DEF PanelInv, NotChosenYet, RuleWritten, RuleGone, OfPanel
<1>3. NotChosenYet'
  BY <1>1, <1>2 DEF NotChosenYet
<1>4. CASE ~tidy'
  BY <1>3, <1>4 DEF AllOfChosen, LoadsOfChosen, SavesOfChosen, FormOfChosen, ListOfChosen, RulesOnList
<1>5. CASE tidy'
  <2>1. tidy /\ ChosenRulesChange /\ s.court = courtId
    BY <1>1, <1>5, RulesChange DEF PanelInv, AllOfChosen
  <2>2. \A r \in Rules : OfChosen(r) => OfChosen(r)'
    BY <1>1, <2>1, ChosenStay DEF PanelInv
  <2>3. /\ RulesListing(s.court) \in PanelListing /\ OfRules(RulesListing(s.court))
        /\ RulesListing(s.court).of = courtId /\ RulesListing(s.court).rules = RulesOf(courtId)'
    <3>1. PICK c \in Courts \cup {None} : c = s.court
      BY <2>1 DEF PanelInv, PanelTypes
    <3> QED BY <1>1, <1>2, <2>1, <3>1, ListingsAsked, RulesAtChosen DEF PanelTypes, OfRules
  <2>4. PICK x \in PanelListing : x = RulesListing(s.court)
    BY <2>3
  <2>5. \A i \in DOMAIN listings : OfRules(listings[i]) =>
          listings[i].of = courtId' /\ \A r \in DOMAIN listings[i].rules : OfChosen(r)'
    <3>1. \A i \in DOMAIN listings : DOMAIN listings[i].rules \subseteq Rules
      BY PanelListings, ListedPrices DEF PanelInv, PanelListing
    <3> QED BY <1>1, <2>1, <2>2, <3>1 DEF PanelInv, AllOfChosen, LoadsOfChosen
  <2>6. LoadsOfChosen' /\ ListOfChosen'
    BY <1>1, <1>2, <2>3, <2>4, <2>5, AskedOfChosen DEF PanelInv
  <2>7. SavesOfChosen'
    <3>1. \A q \in saves : OfPanel(q) => q.on \in Rules \cup {None}
      BY DEF PanelInv, PanelTypes, PanelSave, OfPanel
    <3> QED BY <1>1, <2>1, <2>2, <3>1 DEF PanelInv, AllOfChosen, SavesOfChosen
  <2>8. FormOfChosen'
    <3>1. CASE UNCHANGED ruleForm
      BY <1>1, <2>1, <2>2, <3>1 DEF PanelInv, PanelTypes, AllOfChosen, FormOfChosen
    <3>2. CASE resetRuleForm(s.court)
      <4>1. PICK c \in Courts \cup {None} : c = s.court
        BY <2>1 DEF PanelInv, PanelTypes
      <4>2. ruleForm'.editing = None /\ ruleForm'.court = courtId
        BY <2>1, <3>2, <4>1, FormResetTo DEF PanelInv
      <4> QED BY <1>1, <4>2 DEF FormOfChosen
    <3> QED BY <3>1, <3>2 DEF ruleSaved, ruleRemoved
  <2>9. RulesOnList'
    <3>1. ASSUME NEW r \in DOMAIN rulesShown.rules
          PROVE  /\ rulesShown.of # None
                 /\ ruleOf'[r].court = rulesShown.of \/ (rulesShown.of = courtId /\ OfChosen(r)')
      <4>1. /\ r \in Rules /\ rulesShown.of # None
            /\ ruleOf[r].court = rulesShown.of \/ (rulesShown.of = courtId /\ OfChosen(r))
        BY <2>1, ListedPrices DEF PanelInv, PanelTypes, AllOfChosen, RulesOnList
      <4>2. CASE ruleOf'[r] = ruleOf[r]
        BY <2>2, <4>1, <4>2
      <4>3. CASE OfChosen(r) /\ ruleOf'[r] # ruleOf[r]
        <5>1. rulesShown.of = courtId
          BY <4>1, <4>3, UnmadeIsRule DEF OfChosen
        <5> QED BY <2>2, <4>1, <4>3, <5>1
      <4> QED BY <2>1, <4>1, <4>2, <4>3 DEF ChosenRulesChange
    <3> QED BY <1>1, <3>1 DEF RulesOnList
  <2> QED BY <1>3, <2>6, <2>7, <2>8, <2>9 DEF AllOfChosen
<1> QED BY <1>4, <1>5

\* A call of the page's other form, or one that fails.
LEMMA CourtKeepsChosen ==
  ASSUME PanelInv, PanelTypes', NEW s \in saves, courtSaved(s) \/ SaveFails(s)
  PROVE  NotChosenYet' /\ AllOfChosen'
<1>1. UNCHANGED <<courtId, rulesShown, ruleForm>> /\ saves' = saves \ {s}
  BY DEF courtSaved, SaveFails
<1>2. CASE SaveFails(s)
  <2>1. UNCHANGED listings /\ (UNCHANGED <<ruleOf, tidy>> \/ ~tidy')
    BY <1>2 DEF SaveFails
  <2>2. NotChosenYet'
    BY <1>1, <2>1 DEF PanelInv, NotChosenYet
  <2> QED BY <1>1, <2>1, <2>2 DEF PanelInv, AllOfChosen, LoadsOfChosen, SavesOfChosen, FormOfChosen,
            ListOfChosen, RulesOnList, OfChosen, RulesOf
<1>3. CASE courtSaved(s)
  <2>1. UNCHANGED <<ruleOf, tidy>> /\ listings' = Append(listings, CourtsListing)
    BY <1>3 DEF courtSaved, CourtWritten
  <2>2. PICK x \in PanelListing : x = CourtsListing /\ ~OfRules(x)
    BY ListingsAsked DEF PanelTypes, OfRules
  <2>3. AddedTo(listings, x, listings')
    BY <2>1, <2>2, PanelAppended DEF PanelInv
  <2>4. /\ \A i \in DOMAIN listings : i \in DOMAIN listings' /\ listings'[i] = listings[i]
        /\ \A i \in DOMAIN listings' : OfRules(listings'[i]) => i \in DOMAIN listings
    BY <2>2, <2>3 DEF AddedTo
  <2>5. NotChosenYet'
    BY <1>1, <2>4 DEF PanelInv, NotChosenYet
  <2>6. LoadsOfChosen' /\ ListOfChosen'
    BY <1>1, <2>1, <2>4 DEF PanelInv, AllOfChosen, LoadsOfChosen, ListOfChosen, OfChosen, RulesOf
  <2>7. SavesOfChosen' /\ FormOfChosen' /\ RulesOnList'
    BY <1>1, <2>1 DEF PanelInv, AllOfChosen, SavesOfChosen, FormOfChosen, RulesOnList, OfChosen
  <2> QED BY <2>5, <2>6, <2>7 DEF AllOfChosen
<1> QED BY <1>2, <1>3

\* Loads that are left are about the chosen court, and the last one is still the last.
LEMMA LeftOfChosen ==
  ASSUME PanelTypes, LoadsOfChosen, tidy, UNCHANGED <<ruleOf, courtId>>,
         NEW i \in DOMAIN listings, listings' = RemoveAt(listings, i),
         OfRules(listings[i]) => \A j \in 1..(i - 1) : ~OfRules(listings[j])
  PROVE  /\ LoadsOfChosen'
         /\ (\A k \in DOMAIN listings' : ~OfRules(listings'[k])) =>
              \A m \in DOMAIN listings : m # i => ~OfRules(listings[m])
<1>1. PICK from : LeftFrom(from, listings, i, listings')
  BY PanelListings
<1>2. /\ \A k \in DOMAIN listings' : from[k] \in DOMAIN listings /\ from[k] # i /\ listings'[k] = listings[from[k]]
      /\ \A k, l \in DOMAIN listings' : k < l <=> from[k] < from[l]
      /\ \A m \in DOMAIN listings : m # i => \E k \in DOMAIN listings' : from[k] = m
  BY <1>1 DEF LeftFrom
<1>3. DOMAIN listings \subseteq Nat \ {0} /\ DOMAIN listings' \subseteq Nat
  <2>1. listings \in Seq(PanelListing) /\ listings' \in Seq(PanelListing)
    BY PanelListings DEF PanelTypes
  <2> QED BY <2>1
<1>4. ASSUME NEW k \in DOMAIN listings', OfRules(listings'[k])
      PROVE  /\ listings'[k].of = courtId /\ \A r \in DOMAIN listings'[k].rules : OfChosen(r)
             /\ (\A j \in DOMAIN listings' : j > k => ~OfRules(listings'[j])) =>
                  listings'[k].rules = RulesOf(courtId)
  <2>1. PICK m \in DOMAIN listings : m = from[k] /\ m # i /\ listings'[k] = listings[m]
    BY <1>2
  <2>2. listings[m].of = courtId /\ \A r \in DOMAIN listings[m].rules : OfChosen(r)
    BY <1>4, <2>1 DEF LoadsOfChosen
  <2>3. ASSUME \A j \in DOMAIN listings' : j > k => ~OfRules(listings'[j]) PROVE listings[m].rules = RulesOf(courtId)
    <3>1. ASSUME NEW j \in DOMAIN listings, j > m PROVE ~OfRules(listings[j])
      <4>1. CASE j = i
        <5>1. m \in 1..(i - 1)
          BY <1>3, <3>1, <4>1
        <5> QED BY <1>4, <2>1, <4>1, <5>1
      <4>2. CASE j # i
        <5>1. PICK l \in DOMAIN listings' : from[l] = j /\ listings'[l] = listings[j]
          BY <1>2, <4>2
        <5>2. k < l
          BY <1>2, <1>3, <2>1, <3>1, <5>1
        <5> QED BY <1>3, <2>3, <5>1, <5>2
      <4> QED BY <4>1, <4>2
    <3> QED BY <1>4, <2>1, <3>1 DEF LoadsOfChosen
  <2> QED BY <2>1, <2>2, <2>3
<1>5. LoadsOfChosen'
  BY <1>4 DEF LoadsOfChosen, OfChosen, RulesOf
<1>6. ASSUME NEW m \in DOMAIN listings, m # i, \A k \in DOMAIN listings' : ~OfRules(listings'[k])
      PROVE  ~OfRules(listings[m])
  BY <1>2, <1>6
<1> QED BY <1>5, <1>6

LEMMA LoadKeepsChosen ==
  ASSUME PanelInv, PanelTypes', NEW i \in DOMAIN listings, loadCourts(i) \/ loadRules(i) \/ ListingFails(i)
  PROVE  NotChosenYet' /\ AllOfChosen'
<1>1. UNCHANGED <<base, ruleOf, ruleForm, saves>>
  BY DEF loadCourts, loadRules, ListingFails
<1>2. PICK from : LeftFrom(from, listings, i, RemoveAt(listings, i))
  BY PanelListings DEF PanelInv
<1>3. CASE ListingFails(i)
  <2>1. UNCHANGED <<courtId, rulesShown>> /\ listings' = RemoveAt(listings, i) /\ tidy' = FALSE
    BY <1>3 DEF ListingFails
  <2>2. NotChosenYet'
    BY <1>1, <1>2, <2>1 DEF PanelInv, NotChosenYet, LeftFrom
  <2> QED BY <2>1, <2>2 DEF AllOfChosen, LoadsOfChosen, SavesOfChosen, FormOfChosen, ListOfChosen, RulesOnList
<1>4. CASE loadRules(i)
  <2>1. /\ UNCHANGED courtId /\ listings' = RemoveAt(listings, i) /\ OfRules(listings[i])
        /\ rulesShown'.of = listings[i].of /\ rulesShown'.rules = listings[i].rules
    BY <1>4 DEF loadRules, OfRules
  <2>2. tidy' => tidy /\ InTurn(i)
    BY <1>4, Zenon DEF loadRules
  <2>3. courtId # None
    BY <2>1 DEF PanelInv, NotChosenYet
  <2>4. NotChosenYet'
    BY <2>1, <2>3 DEF NotChosenYet
  <2>5. ASSUME tidy' PROVE AllOfChosen'
    <3>1. tidy /\ \A j \in 1..(i - 1) : ~OfRules(listings[j])
      BY <2>1, <2>2, <2>5 DEF InTurn, OfRules
    <3>2. /\ LoadsOfChosen'
          /\ (\A k \in DOMAIN listings' : ~OfRules(listings'[k])) =>
               \A m \in DOMAIN listings : m # i => ~OfRules(listings[m])
      BY <1>1, <2>1, <3>1, LeftOfChosen DEF PanelInv, AllOfChosen
    <3>3. /\ listings[i].of = courtId /\ (\A r \in DOMAIN listings[i].rules : OfChosen(r))
          /\ (\A m \in DOMAIN listings : m > i => ~OfRules(listings[m])) => listings[i].rules = RulesOf(courtId)
      BY <2>1, <3>1 DEF PanelInv, AllOfChosen, LoadsOfChosen
    <3>4. i \in Nat
      <4>1. listings \in Seq(PanelListing)
        BY DEF PanelInv, PanelTypes
      <4> QED BY <4>1
    <3>5. ListOfChosen'
      <4>1. ASSUME \A k \in DOMAIN listings' : ~OfRules(listings'[k])
            PROVE  listings[i].rules = RulesOf(courtId)
        BY <3>2, <3>3, <3>4, <4>1
      <4> QED BY <1>1, <2>1, <3>3, <4>1 DEF ListOfChosen, RulesOf
    <3>6. RulesOnList'
      BY <1>1, <2>1, <2>3, <3>3 DEF RulesOnList, OfChosen
    <3>7. SavesOfChosen' /\ FormOfChosen'
      BY <1>1, <2>1, <3>1 DEF PanelInv, AllOfChosen, SavesOfChosen, FormOfChosen, OfChosen
    <3> QED BY <3>2, <3>5, <3>6, <3>7 DEF AllOfChosen
  <2>6. ASSUME ~tidy' PROVE AllOfChosen'
    BY <2>6 DEF AllOfChosen, LoadsOfChosen, SavesOfChosen, FormOfChosen, ListOfChosen, RulesOnList
  <2> QED BY <2>4, <2>5, <2>6
<1>5. CASE loadCourts(i) /\ courtId # None
  <2>1. /\ UNCHANGED <<courtId, rulesShown>> /\ ~OfRules(listings[i])
        /\ listings' = RemoveAt(listings, i) \o <<>>
    BY <1>5 DEF loadCourts, OfRules
  <2>2. listings' = RemoveAt(listings, i)
    BY <2>1, PanelListings, ConcatEmptySeq DEF PanelInv
  <2>3. tidy' => tidy
    BY <1>5, Zenon DEF loadCourts
  <2>4. NotChosenYet'
    BY <1>5, <2>1 DEF NotChosenYet
  <2>5. ASSUME tidy' PROVE AllOfChosen'
    <3>1. /\ LoadsOfChosen'
          /\ (\A k \in DOMAIN listings' : ~OfRules(listings'[k])) =>
               \A m \in DOMAIN listings : m # i => ~OfRules(listings[m])
      BY <1>1, <2>1, <2>2, <2>3, <2>5, LeftOfChosen DEF PanelInv, AllOfChosen
    <3>2. ListOfChosen'
      BY <1>1, <2>1, <2>3, <2>5, <3>1 DEF PanelInv, AllOfChosen, ListOfChosen, RulesOf
    <3>3. SavesOfChosen' /\ FormOfChosen' /\ RulesOnList'
      BY <1>1, <2>1, <2>3, <2>5 DEF PanelInv, AllOfChosen, SavesOfChosen, FormOfChosen, RulesOnList, OfChosen
    <3> QED BY <3>1, <3>2, <3>3 DEF AllOfChosen
  <2>6. ASSUME ~tidy' PROVE AllOfChosen'
    BY <2>6 DEF AllOfChosen, LoadsOfChosen, SavesOfChosen, FormOfChosen, ListOfChosen, RulesOnList
  <2> QED BY <2>4, <2>5, <2>6
\* The first court is chosen, and its rules are asked for.
<1>6. CASE loadCourts(i) /\ courtId = None
  <2>1. PICK x \in PanelListing : /\ x = RulesListing(FirstCourt) /\ OfRules(x) /\ x.of = FirstCourt
                                  /\ x.rules = [r \in {q \in Rules : ruleOf'[q].court = FirstCourt} |-> ruleOf'[r].price]
    BY ListingsAsked, FirstCourtIsOne DEF PanelTypes, OfRules
  <2>2. PICK left : left = RemoveAt(listings, i)
    OBVIOUS
  <2>3. /\ courtId' = FirstCourt /\ UNCHANGED rulesShown /\ listings' = left \o <<x>>
        /\ left \in Seq(PanelListing)
    BY <1>6, <2>1, <2>2, PanelListings DEF loadCourts, PanelInv
  <2>4. listings' = Append(left, x)
    BY <2>3, AppendIsConcat
  <2>5. AddedTo(left, x, listings')
    BY <2>3, <2>4, Appended
  <2>6. \A k \in DOMAIN left : ~OfRules(left[k])
    BY <1>2, <1>6, <2>2 DEF LeftFrom, PanelInv, NotChosenYet
  <2>7. PICK n \in Nat : /\ DOMAIN listings' = 1..(n + 1) /\ listings'[n + 1] = x
                         /\ \A k \in 1..n : ~OfRules(listings'[k])
    BY <2>5, <2>6 DEF AddedTo
  <2>8. tidy' => tidy
    BY <1>6, Zenon DEF loadCourts
  <2>9. x.rules = RulesOf(courtId)' /\ x.of = courtId' /\ courtId' # None
    BY <2>1, <2>3, FirstCourtIsOne, RulesAtChosen
  <2>10. LoadsOfChosen'
    <3>1. \A k \in DOMAIN listings' : OfRules(listings'[k]) => listings'[k] = x
      BY <2>7
    <3>2. \A r \in DOMAIN x.rules : OfChosen(r)'
      BY <2>9 DEF RulesOf, OfChosen
    <3> QED BY <2>9, <3>1, <3>2 DEF LoadsOfChosen
  <2>11. ListOfChosen'
    <3>1. n + 1 \in DOMAIN listings' /\ OfRules(listings'[n + 1])
      BY <2>1, <2>7
    <3> QED BY <3>1 DEF ListOfChosen
  <2>12. NotChosenYet' /\ SavesOfChosen' /\ RulesOnList'
    BY <1>1, <1>6, <2>3, <2>9, NoRulesListed DEF PanelInv, NotChosenYet, SavesOfChosen, RulesOnList
  <2>13. FormOfChosen'
    <3>1. ASSUME tidy' PROVE ruleForm.court = None /\ ruleForm.editing = None
      BY <1>6, <2>8, <3>1 DEF PanelInv, AllOfChosen, FormOfChosen
    <3> QED BY <1>1, <3>1 DEF FormOfChosen
  <2> QED BY <2>10, <2>11, <2>12, <2>13 DEF AllOfChosen
<1> QED BY <1>3, <1>4, <1>5, <1>6

-----------------------------------------------------------------------------
LEMMA InitPanelInv == PanelInit => PanelInv
<1> SUFFICES ASSUME PanelInit PROVE PanelInv
  OBVIOUS
<1>1. PICK l : l = [kind |-> "courts", of |-> None, base |-> base, rules |-> NoRules]
  OBVIOUS
<1>2. listings = <<l>> /\ l \in PanelListing /\ l.kind = "courts" /\ base \in [Courts -> Nat]
  BY <1>1, PanelAssumption, NoRulesListed DEF PanelInit, PanelListing
<1>3. PanelTypes
  <2>1. listings \in Seq(PanelListing)
    BY <1>2
  <2>2. ruleOf \in [Rules -> [court: Courts \cup {None}, price: Nat]] /\ made \in 0..MaxSaves
    BY UnmadeIsRule, PanelAssumption DEF PanelInit
  <2>3. /\ courtForm \in [editing: Courts \cup {None}, price: Nat]
        /\ ruleForm \in [editing: Rules \cup {None}, court: Courts \cup {None}, price: Nat]
        /\ rulesShown \in [of: Courts \cup {None}, rules: PriceLists]
    BY NoRulesListed DEF PanelInit, EMPTY_COURT, DEFAULT_FORM
  <2>4. courtsShown \in {<<>>} \cup [Courts -> Nat] /\ courtId \in Courts \cup {None} /\ saves \subseteq PanelSave
        /\ tidy \in BOOLEAN
    BY Zenon DEF PanelInit
  <2> QED BY <1>2, <2>1, <2>2, <2>3, <2>4 DEF PanelTypes
<1>4. /\ \A i \in DOMAIN listings : ~OfRules(listings[i])
      /\ saves = {} /\ rulesShown.of = None /\ rulesShown.rules = NoRules /\ courtId = None
      /\ ruleForm.editing = None /\ ruleForm.court = None
  BY <1>2 DEF PanelInit, OfRules, DEFAULT_FORM
<1>5. NoRules = RulesOf(None)
  <2>1. {q \in Rules : None # None /\ ruleOf[q].court = None} = {}
    OBVIOUS
  <2> QED BY <2>1 DEF NoRules, RulesOf
<1> QED BY <1>3, <1>4, <1>5, NoRulesListed DEF PanelInv, NotChosenYet, AllOfChosen, LoadsOfChosen,
          SavesOfChosen, FormOfChosen, ListOfChosen, RulesOnList

LEMMA NextPanelInv == PanelInv /\ [PanelNext]_panelVars => PanelInv'
<1> SUFFICES ASSUME PanelInv, [PanelNext]_panelVars PROVE PanelInv'
  OBVIOUS
<1>1. CASE UNCHANGED panelVars
  BY <1>1 DEF panelVars, PanelInv, PanelTypes, NotChosenYet, AllOfChosen, LoadsOfChosen, SavesOfChosen,
              FormOfChosen, ListOfChosen, RulesOnList, OfChosen, RulesOf
<1>2. ASSUME NEW i \in DOMAIN listings, loadCourts(i) \/ loadRules(i) \/ ListingFails(i) PROVE PanelInv'
  BY <1>2, LoadKeepsPanelTypes, LoadKeepsChosen DEF PanelInv
<1>3. ASSUME NEW c \in Courts, chooseCourt(c) PROVE PanelInv'
  <2>1. PanelTypes'
    BY <1>3, EditKeepsPanelTypes DEF PanelInv
  <2> QED BY <1>3, <2>1, ChooseKeepsChosen DEF PanelInv
<1>4. ASSUME \/ \E c \in Courts : startEditCourt(c)
             \/ \E p \in Prices : typeBase(p) \/ typePrice(p)
             \/ \E r \in Rules : startEditRule(r)
             \/ cancelCourt \/ newRule
      PROVE  PanelInv'
  BY <1>4, EditKeepsPanelTypes, FormKeepsChosen DEF PanelInv
<1>5. ASSUME submitCourt \/ saveRule \/ \E r \in Rules : removeRule(r) PROVE PanelInv'
  <2>1. PanelTypes'
    <3>1. UNCHANGED <<base, ruleOf, courtsShown, courtForm, courtId, rulesShown, ruleForm, listings>>
      BY <1>5 DEF submitCourt, saveRule, removeRule
    <3>2. tidy' \in BOOLEAN
      BY <1>5 DEF submitCourt, saveRule, removeRule, PanelInv, PanelTypes
    <3>3. PICK s \in PanelSave : saves' = saves \cup {s} /\ made' \in 0..MaxSaves
      BY <1>5, SentSave DEF PanelInv
    <3> QED BY <3>1, <3>2, <3>3 DEF PanelInv, PanelTypes
  <2> QED BY <1>5, <2>1, SendKeepsChosen DEF PanelInv
<1>6. ASSUME NEW s \in saves, courtSaved(s) \/ ruleSaved(s) \/ ruleRemoved(s) \/ SaveFails(s) PROVE PanelInv'
  BY <1>6, SaveKeepsPanelTypes, RuleKeepsChosen, CourtKeepsChosen DEF PanelInv
<1>7. CASE PanelNext
  BY <1>2, <1>3, <1>4, <1>5, <1>6, <1>7 DEF PanelNext
<1> QED BY <1>1, <1>7

\* The inductive invariant of the panel: its types, what its saves and forms are about, and of
\* which court the rules under way are.
THEOREM PanelInvariant == PanelSpec => []PanelInv
BY InitPanelInv, NextPanelInv, PTL DEF PanelSpec

\* The rules on the panel, its form and its calls are of the court that is chosen, whatever was
\* written, chosen and loaded in whichever order.
THEOREM PanelShowsItsCourt == PanelSpec => []PanelIsOfItsCourt
<1>1. PanelInv => PanelIsOfItsCourt
  <2> SUFFICES ASSUME PanelInv, tidy PROVE PanelIsOfItsCourt
    BY DEF PanelIsOfItsCourt
  <2>1. (\A i \in DOMAIN listings : listings[i].kind # "rules") =>
          rulesShown.of = courtId /\ rulesShown.rules = RulesOf(courtId)
    BY DEF PanelInv, AllOfChosen, ListOfChosen, OfRules
  <2>2. ruleForm.court \in {None, courtId}
    BY DEF PanelInv, AllOfChosen, FormOfChosen
  <2>3. \A r \in Rules : ruleForm.editing = r => ruleOf[r] = Unmade \/ ruleOf[r].court = courtId
    BY PanelAssumption DEF PanelInv, AllOfChosen, FormOfChosen, OfChosen
  <2> QED BY <2>1, <2>2, <2>3 DEF PanelIsOfItsCourt, RulesOf
<1> QED BY <1>1, PanelInvariant, PTL

-----------------------------------------------------------------------------
(* The views: each lists what its last query asked for.                    *)

Answer == [of: AnyQuery, at: 0..MaxWrites]

\* What the view will list once the loads under way have arrived in order.
LastListed == IF asked = <<>> THEN listed ELSE asked[Len(asked)]
ListsItsQuery == unhurried /\ query # NoQuery => LastListed = [of |-> query, at |-> askedAt]

ViewsInv == ViewsTypeOK /\ ListsItsQuery

-----------------------------------------------------------------------------
LEMMA QueriesAre == Query0 \in AnyQuery /\ NoQuery \in AnyQuery /\ Nothing \in Answer
BY ViewsAssumption DEF Query0, NoQuery, Nothing, AnyQuery, Answer

\* Something is asked for: it is the last to arrive.
LEMMA QueryAsked ==
  ASSUME ViewsTypeOK, NEW q \in AnyQuery, NEW n \in 0..MaxWrites,
         asked' = Append(asked, [of |-> q, at |-> n])
  PROVE  asked' \in Seq(Answer) /\ LastListed' = [of |-> q, at |-> n]
<1>1. PICK x \in Answer : x = [of |-> q, at |-> n]
  BY DEF Answer
<1>2. asked \in Seq(Answer)
  BY DEF ViewsTypeOK, Answer
<1>3. /\ asked' \in Seq(Answer) /\ asked' # <<>> /\ Len(asked') = Len(asked) + 1
      /\ asked'[Len(asked) + 1] = x
  BY <1>1, <1>2, AppendProperties
<1> QED BY <1>1, <1>3 DEF LastListed

\* The effect asks when the query changes, and only then.
LEMMA EffectAsks ==
  ASSUME ViewsInv, query' \in AnyQuery, Effect, UNCHANGED <<looked, listed, writing, world, customer, unhurried>>,
         search' \in Words \cup {None}
  PROVE  ViewsInv'
<1>1. CASE query' = query
  BY <1>1 DEF Effect, ViewsInv, ViewsTypeOK, ListsItsQuery, LastListed, customer
<1>2. CASE query' # query
  <2>1. asked' = Append(asked, [of |-> query', at |-> world]) /\ waiting' = TRUE /\ askedAt' = world
    BY <1>2 DEF Effect
  <2>2. world \in 0..MaxWrites /\ MaxWrites \in Nat
    BY ViewsAssumption DEF ViewsInv, ViewsTypeOK
  <2>3. asked' \in Seq(Answer) /\ LastListed' = [of |-> query', at |-> askedAt']
    BY <2>1, <2>2, QueryAsked DEF ViewsInv
  <2>4. ViewsTypeOK'
    BY <2>1, <2>2, <2>3 DEF ViewsInv, ViewsTypeOK, customer, Answer
  <2> QED BY <2>3, <2>4 DEF ViewsInv, ListsItsQuery
<1> QED BY <1>1, <1>2

LEMMA QuerySet ==
  ASSUME NEW q \in AnyQuery, NEW a \in Asks \cup {None}, NEW w \in Words \cup {None}
  PROVE  [q EXCEPT !.ask = a] \in AnyQuery /\ [q EXCEPT !.words = w] \in AnyQuery
BY DEF AnyQuery

LEMMA ControlKeeps ==
  ASSUME ViewsInv,
         \/ \E q \in Asks : setFilter(q)
         \/ \E p \in DOMAIN RangeOf : applyPreset(p)
         \/ \E w \in Words : typeSearch(w)
         \/ submitSearch \/ resetFilters
  PROVE  ViewsInv'
<1>1. query \in AnyQuery /\ search \in Words \cup {None}
  BY DEF ViewsInv, ViewsTypeOK
<1>2. ASSUME NEW q \in Asks, setFilter(q) PROVE ViewsInv'
  <2>1. query' \in AnyQuery
    BY <1>1, <1>2, QuerySet DEF setFilter
  <2> QED BY <1>1, <1>2, <2>1, EffectAsks DEF setFilter
<1>3. ASSUME NEW p \in DOMAIN RangeOf, applyPreset(p) PROVE ViewsInv'
  <2>1. RangeOf[p] \in Asks
    BY ViewsAssumption
  <2>2. query' \in AnyQuery
    BY <1>1, <1>3, <2>1, QuerySet DEF applyPreset
  <2> QED BY <1>1, <1>3, <2>2, EffectAsks DEF applyPreset
<1>4. ASSUME NEW w \in Words, typeSearch(w) PROVE ViewsInv'
  BY <1>4 DEF typeSearch, customer, ViewsInv, ViewsTypeOK, ListsItsQuery, LastListed
<1>5. CASE submitSearch
  <2>1. query' \in AnyQuery
    BY <1>1, <1>5, QuerySet DEF submitSearch
  <2> QED BY <1>1, <1>5, <2>1, EffectAsks DEF submitSearch
<1>6. CASE resetFilters
  BY <1>6, QueriesAre, EffectAsks DEF resetFilters
<1> QED BY <1>2, <1>3, <1>4, <1>5, <1>6

LEMMA AskKeeps ==
  ASSUME ViewsInv, closeHistory \/ RefreshView \/ \E q \in Asks : openHistory(q)
  PROVE  ViewsInv'
<1>1. world \in 0..MaxWrites /\ MaxWrites \in Nat /\ query \in AnyQuery
  BY ViewsAssumption DEF ViewsInv, ViewsTypeOK
<1>2. CASE closeHistory
  BY <1>2, QueriesAre DEF closeHistory, customer, ViewsInv, ViewsTypeOK, ListsItsQuery
<1>3. CASE RefreshView
  <2>1. asked' \in Seq(Answer) /\ LastListed' = [of |-> query', at |-> askedAt']
    BY <1>1, <1>3, QueryAsked DEF RefreshView, ViewsInv
  <2>2. ViewsTypeOK'
    BY <1>1, <1>3, <2>1 DEF RefreshView, customer, ViewsInv, ViewsTypeOK, Answer
  <2> QED BY <2>1, <2>2 DEF ViewsInv, ListsItsQuery
<1>4. ASSUME NEW q \in Asks, openHistory(q) PROVE ViewsInv'
  <2>1. query' \in AnyQuery
    BY <1>4, QueriesAre, QuerySet DEF openHistory
  <2>2. PICK new \in AnyQuery : new = query'
    BY <2>1
  <2>3. asked' \in Seq(Answer) /\ LastListed' = [of |-> query', at |-> askedAt']
    BY <1>1, <1>4, <2>2, QueryAsked DEF openHistory, ViewsInv
  <2>4. ViewsTypeOK'
    <3>1. listed' \in Answer /\ waiting' = TRUE /\ askedAt' \in 0..world'
      BY <1>1, <1>4, QueriesAre DEF openHistory
    <3> QED BY <1>4, <2>1, <2>3, <3>1 DEF openHistory, customer, ViewsInv, ViewsTypeOK, Answer
  <2> QED BY <2>3, <2>4 DEF ViewsInv, ListsItsQuery
<1> QED BY <1>2, <1>3, <1>4

\* Writes: the page's own are followed by a load of what was asked for when they were sent.
LEMMA WriteKeeps ==
  ASSUME ViewsInv, OwnWrite \/ SomeWrite \/ \E i \in DOMAIN writing : WriteAnswered(i) \/ WriteFails(i)
  PROVE  ViewsInv'
<1>1. /\ world \in 0..MaxWrites /\ MaxWrites \in Nat /\ askedAt \in 0..world /\ query \in AnyQuery
      /\ writing \in Seq(AnyQuery)
  BY ViewsAssumption DEF ViewsInv, ViewsTypeOK
<1>2. CASE OwnWrite
  <2>1. writing' \in Seq(AnyQuery)
    BY <1>1, <1>2, AppendProperties DEF OwnWrite
  <2> QED BY <1>2, <2>1 DEF OwnWrite, customer, ViewsInv, ViewsTypeOK, ListsItsQuery, LastListed
<1>3. CASE SomeWrite
  <2>1. world' \in 0..MaxWrites /\ askedAt' \in 0..world'
    BY <1>1, <1>3 DEF SomeWrite
  <2> QED BY <1>3, <2>1 DEF SomeWrite, customer, ViewsInv, ViewsTypeOK, ListsItsQuery, LastListed
<1>4. ASSUME NEW i \in DOMAIN writing, WriteAnswered(i) PROVE ViewsInv'
  <2>1. writing' \in Seq(AnyQuery) /\ writing[i] \in AnyQuery
    BY <1>1, <1>4, RemovedFrom DEF WriteAnswered
  <2>2. world' \in 0..MaxWrites /\ askedAt' = world' /\ askedAt' \in 0..world'
    BY <1>1, <1>4 DEF WriteAnswered
  <2>3. PICK q \in AnyQuery, n \in 0..MaxWrites : q = writing[i] /\ n = world'
    BY <2>1, <2>2
  <2>4. asked' \in Seq(Answer) /\ LastListed' = [of |-> q, at |-> n]
    BY <1>4, <2>3, QueryAsked DEF WriteAnswered, ViewsInv
  <2>5. ViewsTypeOK'
    <3>1. unhurried' \in BOOLEAN
      BY <1>4 DEF WriteAnswered, ViewsInv, ViewsTypeOK
    <3> QED BY <1>4, <2>1, <2>2, <2>4, <3>1 DEF WriteAnswered, customer, ViewsInv, ViewsTypeOK, Answer
  <2>6. unhurried' => q = query'
    BY <1>4, <2>3, Zenon DEF WriteAnswered
  <2> QED BY <2>2, <2>3, <2>4, <2>5, <2>6 DEF ViewsInv, ListsItsQuery
<1>5. ASSUME NEW i \in DOMAIN writing, WriteFails(i) PROVE ViewsInv'
  <2>1. writing' \in Seq(AnyQuery)
    BY <1>1, <1>5, RemovedFrom DEF WriteFails
  <2>2. world' \in 0..MaxWrites /\ askedAt' \in 0..world'
    BY <1>1, <1>5 DEF WriteFails
  <2> QED BY <1>5, <2>1, <2>2 DEF WriteFails, customer, ViewsInv, ViewsTypeOK, ListsItsQuery, LastListed
<1> QED BY <1>2, <1>3, <1>4, <1>5

\* An answer arrives, or fails to.
LEMMA AnswerKeeps ==
  ASSUME ViewsInv, NEW i \in DOMAIN asked, Arrives(i) \/ ViewFails(i)
  PROVE  ViewsInv'
<1>1. asked \in Seq(Answer)
  BY DEF ViewsInv, ViewsTypeOK, Answer
<1>2. asked[i] \in Answer /\ asked[i] = [of |-> asked[i].of, at |-> asked[i].at]
  <2>1. PICK x \in Answer : x = asked[i]
    BY <1>1
  <2>2. x = [of |-> x.of, at |-> x.at]
    BY DEF Answer
  <2> QED BY <2>1, <2>2
<1>3. PICK t \in Seq(Answer) : /\ t = RemoveAt(asked, i) /\ Len(t) = Len(asked) - 1
                               /\ \A k \in 1..(Len(asked) - 1) : t[k] = IF k < i THEN asked[k] ELSE asked[k + 1]
  BY <1>1, Removed
<1>4. asked' = t
  BY <1>3 DEF Arrives, ViewFails, ViewAnswered
<1>5. listed' \in Answer
  BY <1>2, QueriesAre DEF Arrives, ViewFails, ViewsInv, ViewsTypeOK, Answer
<1>6. ViewsTypeOK'
  <2>1. waiting' \in BOOLEAN /\ unhurried' \in BOOLEAN
    BY DEF Arrives, ViewFails, ViewAnswered, ViewsInv, ViewsTypeOK
  <2> QED BY <1>4, <1>5, <2>1 DEF Arrives, ViewFails, customer, ViewsInv, ViewsTypeOK, Answer
<1>7. CASE unhurried'
  <2>1. unhurried /\ i = 1 /\ Arrives(i)
    BY <1>7, Zenon DEF Arrives, ViewFails
  <2>2. listed' = asked[1] /\ UNCHANGED <<query, askedAt>>
    BY <1>2, <2>1 DEF Arrives
  <2>3. LastListed' = LastListed
    <3>1. CASE Len(asked) = 1
      <4>1. Len(t) = 0
        BY <1>3, <3>1
      <4>3. asked # <<>>
        <5>1. Len(<<>>) # Len(asked)
          BY <3>1
        <5> QED BY <5>1, Zenon
      <4>2. t = <<>>
        BY <4>1, EmptySeq
      <4>4. LastListed' = asked[1]
        BY <1>4, <2>2, <4>2 DEF LastListed
      <4>5. LastListed = asked[1]
        BY <3>1, <4>3 DEF LastListed
      <4> QED BY <4>4, <4>5
    <3>2. CASE Len(asked) > 1
      <4>1. PICK n \in 1..(Len(asked) - 1) : n = Len(t) /\ n + 1 = Len(asked)
        BY <1>1, <1>3, <3>2
      <4>2. t[n] = asked[n + 1] /\ t # <<>> /\ asked # <<>>
        BY <1>1, <1>3, <2>1, <4>1
      <4>3. t[Len(t)] = asked[Len(asked)]
        BY <4>1, <4>2
      <4>4. LastListed' = t[Len(t)]
        BY <1>4, <4>2 DEF LastListed
      <4>5. LastListed = asked[Len(asked)]
        BY <4>2 DEF LastListed
      <4> QED BY <4>3, <4>4, <4>5
    <3>3. PICK n \in Nat : n = Len(asked) /\ n >= 1
      BY <1>1
    <3>4. n = 1 \/ n > 1
      BY <3>3
    <3> QED BY <3>1, <3>2, <3>3, <3>4
  <2> QED BY <1>6, <2>1, <2>2, <2>3 DEF ViewsInv, ListsItsQuery
<1>8. CASE ~unhurried'
  BY <1>6, <1>8 DEF ViewsInv, ListsItsQuery
<1> QED BY <1>7, <1>8

\* The customer's grid.
LEMMA GridKeeps ==
  ASSUME ViewsInv, loadCatalog \/ \E S \in SUBSET Catalog : selectCourts(S)
  PROVE  ViewsInv'
<1>1. UNCHANGED <<looked, query, search, listed, asked, waiting, writing, world, askedAt, unhurried>>
  BY DEF loadCatalog, selectCourts, OnSchedule
<1>2. courtCatalog' \in {{}, Catalog} /\ selectedCourtIds' \subseteq courtCatalog'
  BY DEF loadCatalog, selectCourts, Pruned, ViewsInv, ViewsTypeOK
<1> QED BY <1>1, <1>2 DEF ViewsInv, ViewsTypeOK, ListsItsQuery, LastListed

LEMMA InitViewsInv == ViewsInit => ViewsInv
<1> SUFFICES ASSUME ViewsInit PROVE ViewsInv
  OBVIOUS
<1>1. PICK x \in Answer : x = [of |-> Query0, at |-> 0]
  <2>1. 0 \in 0..MaxWrites
    BY ViewsAssumption
  <2>2. [of |-> Query0, at |-> 0] \in Answer
    BY <2>1, QueriesAre DEF Answer
  <2> QED BY <2>2
<1>2. asked = (IF looked = "history" THEN <<>> ELSE <<x>>) /\ askedAt = 0 /\ world = 0
  BY <1>1 DEF ViewsInit
<1>3. asked \in Seq(Answer)
  BY <1>2
<1>4. ViewsTypeOK
  <2>1. query \in AnyQuery /\ listed \in Answer /\ writing \in Seq(AnyQuery) /\ looked \in Views
    BY QueriesAre DEF ViewsInit
  <2>2. waiting \in BOOLEAN /\ unhurried \in BOOLEAN /\ search \in Words \cup {None}
    BY DEF ViewsInit
  <2>3. courtCatalog \in {{}, Catalog} /\ selectedCourtIds \subseteq courtCatalog
    BY DEF ViewsInit
  <2> QED BY <1>2, <1>3, <2>1, <2>2, <2>3, ViewsAssumption DEF ViewsTypeOK, Answer
<1>5. ListsItsQuery
  <2>1. CASE looked = "history"
    BY <2>1 DEF ViewsInit, ListsItsQuery
  <2>2. CASE looked # "history"
    BY <1>1, <1>2, <2>2 DEF ViewsInit, ListsItsQuery, LastListed
  <2> QED BY <2>1, <2>2
<1> QED BY <1>4, <1>5 DEF ViewsInv

LEMMA NextViewsInv == ViewsInv /\ [ViewsNext]_viewVars => ViewsInv'
<1> SUFFICES ASSUME ViewsInv, [ViewsNext]_viewVars PROVE ViewsInv'
  OBVIOUS
<1>1. CASE UNCHANGED viewVars
  BY <1>1 DEF viewVars, ViewsInv, ViewsTypeOK, ListsItsQuery, LastListed
<1>2. CASE ViewsNext
  BY <1>2, ControlKeeps, AskKeeps, WriteKeeps, AnswerKeeps, GridKeeps DEF ViewsNext
<1> QED BY <1>1, <1>2

\* A slot has one cell of the grid: its column is its court, its row its start.
LEMMA OneCell ==
  ASSUME ViewsTypeOK, NEW s \in daySlots, s.court \in filteredCourts
  PROVE  Cardinality({tc \in timeBands \X filteredCourts : heatmapGrid[tc[1]][tc[2]] = s}) = 1
<1>1. \A r \in daySlots : r # None /\ r = [court |-> r.court, start |-> r.start]
  <2>1. listed.of.ask \in Asks \cup {None}
    BY DEF ViewsTypeOK, AnyQuery
  <2> QED BY <2>1, ViewsAssumption DEF daySlots
<1>2. ASSUME NEW t \in timeBands, NEW c \in filteredCourts
      PROVE  heatmapGrid[t][c] = s <=> t = s.start /\ c = s.court
  <2>1. PICK here : here = {r \in daySlots : r.court = c /\ r.start = t}
    OBVIOUS
  <2>2. heatmapGrid[t][c] = IF here = {} THEN None ELSE CHOOSE r \in here : TRUE
    BY <2>1 DEF heatmapGrid
  <2>3. ASSUME t = s.start, c = s.court PROVE heatmapGrid[t][c] = s
    <3>1. here = {s}
      BY <1>1, <2>1, <2>3
    <3> QED BY <2>2, <3>1
  <2>4. ASSUME heatmapGrid[t][c] = s PROVE t = s.start /\ c = s.court
    <3>1. here # {}
      BY <1>1, <2>2, <2>4
    <3>2. s \in here
      BY <2>2, <2>4, <3>1
    <3> QED BY <2>1, <3>2
  <2> QED BY <2>3, <2>4
<1>3. s.start \in timeBands
  BY DEF timeBands
<1>4. {tc \in timeBands \X filteredCourts : heatmapGrid[tc[1]][tc[2]] = s} = {<<s.start, s.court>>}
  <2>1. ASSUME NEW tc \in timeBands \X filteredCourts
        PROVE  heatmapGrid[tc[1]][tc[2]] = s <=> tc = <<s.start, s.court>>
    <3>1. tc = <<tc[1], tc[2]>> /\ tc[1] \in timeBands /\ tc[2] \in filteredCourts
      OBVIOUS
    <3>2. heatmapGrid[tc[1]][tc[2]] = s <=> tc[1] = s.start /\ tc[2] = s.court
      BY <1>2, <3>1
    <3> QED BY <3>1, <3>2
  <2>2. <<s.start, s.court>> \in timeBands \X filteredCourts
    BY <1>3
  <2> QED BY <2>1, <2>2
<1> QED BY <1>4, FS_Singleton

\* The inductive invariant of a view: while nothing is overtaken, the last load under way, or
\* what is listed when there is none, is of what the view asks for.
THEOREM ViewsInvariant == ViewsSpec => []ViewsInv
BY InitViewsInv, NextViewsInv, PTL DEF ViewsSpec

\* Once nothing is under way a view lists the answer to what its controls ask for, unless a load
\* failed or was overtaken, and the customer's grid has every slot in one cell.
THEOREM ViewsListTheirQuery == ViewsSpec => []ViewShowsItsQuery
<1>1. ViewsInv => ViewShowsItsQuery
  <2> SUFFICES ASSUME ViewsInv PROVE ViewShowsItsQuery
    OBVIOUS
  <2>1. unhurried /\ asked = <<>> /\ query # NoQuery => listed = [of |-> query, at |-> askedAt]
    BY DEF ViewsInv, ListsItsQuery, LastListed
  <2> QED BY <2>1, OneCell DEF ViewsInv, ViewShowsItsQuery
<1> QED BY <1>1, ViewsInvariant, PTL

-----------------------------------------------------------------------------
(* The shift page: an entry that was made on it stays in its sight.        *)

Shifts == {"morning", "afternoon", "evening"}
Entry == [stage: {"none", "sent", "booked"}, form: Forms \cup {None}, at: Nat, made: Nat, day: Nat,
          table: {None, "transactions", "payments"}, shift: {None} \cup Shifts]
ShiftLoad == [of: Nat, why: {"effect", "poll", "entry"}, entries: SUBSET Entries, paid: BOOLEAN]

ClockKept == now \in FirstTime..LastTime /\ rendered \in Nat /\ rendered \in {now - 1, now}
LoadsKept == /\ shiftLoads \in Seq(ShiftLoad)
             /\ summaries.entries \subseteq Entries /\ error \in BOOLEAN /\ typed \subseteq Forms

\* An entry on its way is of this quarter or of the one before, an entry that is booked came at
\* most one quarter late; its shift is that of the sender's clock, its day that of the server's.
EntryKept(x, t) ==
  /\ x.stage = "sent" => x.at \in {t - 1, t} /\ x.shift = getShiftName(x.at)
  /\ x.stage = "booked" => /\ x.made <= t /\ x.at \in {x.made - 1, x.made}
                           /\ x.shift = getShiftName(x.at) /\ x.day = DayAt(x.made)
EntriesKept == entry \in [Entries -> Entry] /\ \A e \in Entries : EntryKept(entry[e], now)

ShiftInv == ClockKept /\ LoadsKept /\ EntriesKept

-----------------------------------------------------------------------------
LEMMA ShiftNames == ASSUME NEW t \in Nat PROVE getShiftName(t) \in Shifts /\ DayAt(t) \in Nat
<1>1. t % 4 \in {0, 1, 2, 3} /\ DayAt(t) \in Nat
  BY DEF DayAt
<1>2. QuarterOf(t) \in {"night", "morning", "afternoon", "evening"}
  BY <1>1 DEF QuarterOf
<1> QED BY <1>1, <1>2 DEF getShiftName, Shifts

\* One quarter later, at day: the same day, and the shift that was current is the previous one.
LEMMA NextQuarter ==
  ASSUME NEW t \in Nat, NEW u \in Nat, u = t + 1, QuarterOf(t) # "night", QuarterOf(u) # "night"
  PROVE  Previous(u) = <<getShiftName(t), DayAt(u)>> /\ DayAt(u) = DayAt(t)
<1>1. t % 4 \in 0..3 /\ t = 4 * (t \div 4) + (t % 4) /\ u % 4 \in 0..3 /\ u = 4 * (u \div 4) + (u % 4)
  OBVIOUS
<1>2. t % 4 # 0 /\ u % 4 # 0
  BY <1>1 DEF QuarterOf
<1>3. t \div 4 = u \div 4 /\ u % 4 = (t % 4) + 1
  BY <1>1, <1>2
<1>4. t % 4 \in {1, 2}
  BY <1>1, <1>2, <1>3
<1>5. CASE t % 4 = 1
  <2>1. QuarterOf(t) = "morning" /\ QuarterOf(u) = "afternoon"
    BY <1>3, <1>5 DEF QuarterOf
  <2> QED BY <1>3, <2>1 DEF Previous, getShiftName, getPreviousShift, previousShiftBusinessDay, DayAt
<1>6. CASE t % 4 = 2
  <2>1. QuarterOf(t) = "afternoon" /\ QuarterOf(u) = "evening"
    BY <1>3, <1>6 DEF QuarterOf
  <2> QED BY <1>3, <2>1 DEF Previous, getShiftName, getPreviousShift, previousShiftBusinessDay, DayAt
<1> QED BY <1>4, <1>5, <1>6

\* In the morning, the shift before is the evening of the day before.
LEMMA NextMorning ==
  ASSUME NEW t \in Nat, NEW u \in Nat, u = t + 2, QuarterOf(t) # "night", QuarterOf(u) = "morning"
  PROVE  Previous(u) = <<getShiftName(t), DayAt(t)>>
<1>1. t % 4 \in 0..3 /\ t = 4 * (t \div 4) + (t % 4) /\ u % 4 \in 0..3 /\ u = 4 * (u \div 4) + (u % 4)
  OBVIOUS
<1>2. u % 4 = 1
  <2>1. u % 4 \in {0, 1, 2, 3}
    BY <1>1
  <2> QED BY <2>1 DEF QuarterOf
<1>3. t % 4 = 3 /\ u \div 4 = t \div 4 + 1
  BY <1>1, <1>2
<1>4. QuarterOf(t) = "evening"
  BY <1>3 DEF QuarterOf
<1>5. t \div 4 = u \div 4 - 1
  BY <1>1, <1>3
<1> QED BY <1>4, <1>5 DEF Previous, getShiftName, getPreviousShift, previousShiftBusinessDay, DayAt

LEMMA KeptInSight == ShiftInv => EntriesStayInSight
<1> SUFFICES ASSUME ShiftInv PROVE EntriesStayInSight
  OBVIOUS
<1> SUFFICES ASSUME NEW e \in Entries, entry[e].stage = "booked",
                    "night" \notin {QuarterOf(now), QuarterOf(entry[e].at), QuarterOf(entry[e].made)},
                    \/ now = entry[e].made
                    \/ entry[e].at = entry[e].made /\ now = entry[e].made + 1
                    \/ entry[e].at = entry[e].made /\ now = entry[e].made + 2 /\ QuarterOf(now) = "morning"
             PROVE  InSight(now, e)
  BY Zenon DEF EntriesStayInSight
<1>1. PICK a \in Nat, b \in Nat, u \in Nat : a = entry[e].at /\ b = entry[e].made /\ u = now
  BY ShiftAssumption DEF ShiftInv, ClockKept, EntriesKept, Entry
<1>2. a \in {b - 1, b} /\ entry[e].shift = getShiftName(a) /\ entry[e].day = DayAt(b)
  BY <1>1 DEF ShiftInv, EntriesKept, EntryKept
<1>3. QuarterOf(u) # "night" /\ QuarterOf(a) # "night" /\ QuarterOf(b) # "night"
  BY <1>1
<1> HIDE DEF ShiftInv
<1> SUFFICES <<getShiftName(a), DayAt(b)>> \in {Current(u), Previous(u)}
  BY <1>1, <1>2, Zenon DEF InSight
<1>4. CASE u = b /\ a = b
  BY <1>4 DEF Current
<1>5. CASE u = b /\ a = b - 1
  <2>1. u = a + 1
    BY <1>5
  <2>2. Previous(u) = <<getShiftName(a), DayAt(u)>>
    BY <1>3, <2>1, NextQuarter
  <2> QED BY <1>5, <2>2
<1>6. CASE u = b + 1 /\ a = b
  BY <1>3, <1>6, NextQuarter
<1>7. CASE u = b + 2 /\ a = b /\ QuarterOf(u) = "morning"
  BY <1>3, <1>7, NextMorning
<1> QED BY <1>1, <1>2, <1>4, <1>5, <1>6, <1>7

-----------------------------------------------------------------------------
\* A render asks anew when shift or day have changed.
LEMMA RendersKeeps ==
  ASSUME ClockKept, NEW loads \in Seq(ShiftLoad), Renders(loads), UNCHANGED now
  PROVE  shiftLoads' \in Seq(ShiftLoad) /\ ClockKept'
<1>1. now \in Nat /\ rendered' = now /\ now' = now
  BY ShiftAssumption DEF ClockKept, Renders
<1>2. PICK new : new = Asking(now, "effect")
  OBVIOUS
<1>3. new \in ShiftLoad
  BY <1>1, <1>2 DEF Asking, BookedUnder, ShiftLoad
<1>4. Append(loads, new) \in Seq(ShiftLoad)
  BY <1>3, AppendProperties
<1>5. shiftLoads' \in {loads, Append(loads, new)}
  BY <1>2 DEF Renders
<1> QED BY <1>1, <1>4, <1>5 DEF ClockKept

LEMMA ClockKeeps ==
  ASSUME ShiftInv, Tick
  PROVE  ShiftInv'
<1>1. now \in Nat /\ now' = now + 1 /\ now < LastTime /\ rendered' = now /\ now' \in FirstTime..LastTime
  BY ShiftAssumption DEF ShiftInv, ClockKept, Tick
<1>2. ClockKept'
  BY <1>1 DEF ClockKept
<1>3. LoadsKept'
  BY DEF Tick, ShiftInv, LoadsKept
<1>4. ASSUME NEW e \in Entries PROVE EntryKept(entry[e], now')
  <2>1. PICK x \in Entry : x = entry[e]
    BY DEF ShiftInv, EntriesKept
  <2>2. x.stage = "sent" => x.at = now
    BY <2>1 DEF Tick
  <2>3. EntryKept(x, now)
    BY <2>1 DEF ShiftInv, EntriesKept
  <2>4. x.made \in Nat /\ x.at \in Nat
    BY DEF Entry
  <2> QED BY <1>1, <2>1, <2>2, <2>3, <2>4 DEF EntryKept
<1>5. EntriesKept'
  BY <1>4 DEF Tick, ShiftInv, EntriesKept
<1> QED BY <1>2, <1>3, <1>5 DEF ShiftInv

LEMMA ShiftLoadKeeps ==
  ASSUME ShiftInv,
         \/ Poll
         \/ \E i \in DOMAIN shiftLoads : ThenPayments(i) \/ loadShiftData(i) \/ ShiftLoadFails(i)
         \/ \E f \in Forms : Type(f)
  PROVE  ShiftInv'
<1>1. /\ shiftLoads \in Seq(ShiftLoad) /\ now \in Nat /\ rendered \in Nat /\ ClockKept
      /\ summaries.entries \subseteq Entries /\ error \in BOOLEAN /\ typed \subseteq Forms
  BY ShiftAssumption DEF ShiftInv, ClockKept, LoadsKept
<1>2. UNCHANGED <<entry, now>>
  BY DEF Poll, ThenPayments, loadShiftData, ShiftLoadFails, Type
<1>3. EntriesKept'
  BY <1>2 DEF ShiftInv, EntriesKept
<1>4. CASE Poll
  <2>1. PICK new : new = Asking(rendered, "poll")
    OBVIOUS
  <2>2. new \in ShiftLoad
    BY <1>1, <2>1 DEF Asking, BookedUnder, ShiftLoad
  <2>3. PICK loads \in Seq(ShiftLoad) : loads = Append(shiftLoads, new)
    BY <1>1, <2>2, AppendProperties
  <2>4. Renders(loads)
    BY <1>4, <2>1, <2>3 DEF Poll
  <2> QED BY <1>1, <1>2, <1>3, <1>4, <2>4, RendersKeeps DEF Poll, ShiftInv, LoadsKept
<1>5. ASSUME NEW i \in DOMAIN shiftLoads, ThenPayments(i) PROVE ShiftInv'
  <2>1. PICK x \in ShiftLoad : x = shiftLoads[i]
    BY <1>1
  <2>2. PICK more : more = BookedUnder("payments", x.of)
    OBVIOUS
  <2>3. more \subseteq Entries
    BY <2>2 DEF BookedUnder
  <2>4. PICK y : y = [x EXCEPT !.paid = TRUE, !.entries = @ \cup more]
    OBVIOUS
  <2>5. y \in ShiftLoad
    BY <2>3, <2>4 DEF ShiftLoad
  <2>6. shiftLoads' = [shiftLoads EXCEPT ![i] = y]
    BY <1>5, <2>1, <2>2, <2>4 DEF ThenPayments
  <2>7. shiftLoads' \in Seq(ShiftLoad)
    BY <1>1, <2>5, <2>6, ExceptSeq
  <2> QED BY <1>1, <1>2, <1>3, <1>5, <2>7 DEF ThenPayments, ShiftInv, ClockKept, LoadsKept
<1>6. ASSUME NEW i \in DOMAIN shiftLoads, loadShiftData(i) \/ ShiftLoadFails(i) PROVE ShiftInv'
  <2>1. PICK loads \in Seq(ShiftLoad) : loads = RemoveAt(shiftLoads, i)
    BY <1>1, Removed
  <2>2. Renders(loads)
    BY <1>6, <2>1 DEF loadShiftData, ShiftLoadFails
  <2>3. summaries'.entries \subseteq Entries /\ error' \in BOOLEAN /\ typed' = typed
    <3>1. PICK x \in ShiftLoad : x = shiftLoads[i]
      BY <1>1
    <3>2. x.entries \subseteq Entries
      BY DEF ShiftLoad
    <3>3. CASE loadShiftData(i)
      <4>1. summaries' = [of |-> x.of, entries |-> x.entries] /\ error' = FALSE /\ typed' = typed
        BY <3>1, <3>3 DEF loadShiftData
      <4> QED BY <3>2, <4>1
    <3>4. CASE ShiftLoadFails(i)
      BY <1>1, <3>4 DEF ShiftLoadFails
    <3> QED BY <1>6, <3>3, <3>4
  <2> QED BY <1>1, <1>2, <1>3, <2>2, <2>3, RendersKeeps DEF ShiftInv, LoadsKept
<1>7. ASSUME NEW f \in Forms, Type(f) PROVE ShiftInv'
  <2>1. Renders(shiftLoads)
    BY <1>7 DEF Type
  <2> QED BY <1>1, <1>2, <1>3, <1>7, <2>1, RendersKeeps DEF Type, ShiftInv, LoadsKept
<1> QED BY <1>4, <1>5, <1>6, <1>7

\* One entry changes, the others stay.
LEMMA OneEntry ==
  ASSUME EntriesKept, UNCHANGED now, NEW e \in Entries, NEW x \in Entry, EntryKept(x, now),
         entry' = [entry EXCEPT ![e] = x]
  PROVE  EntriesKept'
<1>1. entry' \in [Entries -> Entry] /\ \A d \in Entries : entry'[d] = IF d = e THEN x ELSE entry[d]
  BY DEF EntriesKept
<1>2. \A d \in Entries : EntryKept(entry'[d], now)
  BY <1>1 DEF EntriesKept
<1> QED BY <1>1, <1>2 DEF EntriesKept

LEMMA EntryBooked ==
  ASSUME ShiftInv, NEW e \in Entries, entry[e].stage = "sent", CreateTransaction(e), UNCHANGED now
  PROVE  EntriesKept'
<1>1. PICK x \in Entry : x = entry[e]
  BY DEF ShiftInv, EntriesKept
<1>2. now \in Nat /\ DayAt(now) \in Nat
  BY ShiftAssumption, ShiftNames DEF ShiftInv, ClockKept
<1>3. PICK y : y = [x EXCEPT !.stage = "booked", !.made = now, !.day = DayAt(now)]
  OBVIOUS
<1>4. y \in Entry /\ y.stage = "booked" /\ y.made = now /\ y.day = DayAt(now) /\ y.at = x.at /\ y.shift = x.shift
  BY <1>2, <1>3 DEF Entry
<1>5. x.at \in {now - 1, now} /\ x.shift = getShiftName(x.at)
  BY <1>1 DEF ShiftInv, EntriesKept, EntryKept
<1>6. EntryKept(y, now)
  BY <1>2, <1>4, <1>5 DEF EntryKept
<1>7. entry' = [entry EXCEPT ![e] = y]
  BY <1>1, <1>3 DEF CreateTransaction
<1> QED BY <1>4, <1>6, <1>7, OneEntry DEF ShiftInv

LEMMA EntryKeeps ==
  ASSUME ShiftInv, NEW e \in Entries,
         DeskPayment(e) \/ EntryAnswered(e) \/ EntryFails(e) \/ \E f \in Forms : SubmitEntry(f, e)
  PROVE  ShiftInv'
<1>1. /\ shiftLoads \in Seq(ShiftLoad) /\ now \in Nat /\ rendered \in Nat /\ rendered \in {now - 1, now} /\ ClockKept
      /\ summaries.entries \subseteq Entries /\ error \in BOOLEAN /\ typed \subseteq Forms /\ EntriesKept
  BY ShiftAssumption DEF ShiftInv, ClockKept, LoadsKept
<1>2. UNCHANGED now
  BY DEF DeskPayment, EntryAnswered, EntryFails, SubmitEntry
<1>3. CASE DeskPayment(e)
  <2>1. PICK y : y = [NoEntry EXCEPT !.stage = "booked", !.table = "payments", !.at = now,
                                      !.made = now, !.shift = getShiftName(now), !.day = DayAt(now)]
    OBVIOUS
  <2>2. y = [stage |-> "booked", form |-> None, table |-> "payments", at |-> now, made |-> now,
             shift |-> getShiftName(now), day |-> DayAt(now)]
    BY <2>1 DEF NoEntry
  <2>3. y \in Entry
    BY <1>1, <2>2, ShiftNames DEF Entry
  <2>4. EntryKept(y, now)
    BY <1>1, <2>2 DEF EntryKept
  <2>5. EntriesKept'
    BY <1>1, <1>2, <1>3, <2>1, <2>3, <2>4, OneEntry DEF DeskPayment
  <2> QED BY <1>3, <2>5 DEF DeskPayment, ShiftInv, ClockKept, LoadsKept
<1>4. CASE EntryAnswered(e)
  <2>1. EntriesKept'
    BY <1>2, <1>4, EntryBooked DEF EntryAnswered
  <2>2. PICK new : new = Asking(entry[e].at, "entry")
    OBVIOUS
  <2>3. new \in ShiftLoad
    <3>1. entry[e].at \in Nat
      BY <1>1 DEF EntriesKept, Entry
    <3> QED BY <2>2, <3>1 DEF Asking, BookedUnder, ShiftLoad
  <2>4. PICK loads \in Seq(ShiftLoad) : loads = Append(shiftLoads, new)
    BY <1>1, <2>3, AppendProperties
  <2>5. Renders(loads)
    BY <1>4, <2>2, <2>4 DEF EntryAnswered
  <2> QED BY <1>1, <1>2, <1>4, <2>1, <2>5, RendersKeeps DEF EntryAnswered, ShiftInv, LoadsKept
<1>5. CASE EntryFails(e)
  <2>1. NoEntry \in Entry /\ EntryKept(NoEntry, now)
    BY DEF NoEntry, Entry, EntryKept
  <2>2. EntriesKept'
    BY <1>1, <1>2, <1>5, <2>1, EntryBooked, OneEntry DEF EntryFails
  <2>3. Renders(shiftLoads)
    BY <1>5 DEF EntryFails
  <2> QED BY <1>1, <1>2, <1>5, <2>2, <2>3, RendersKeeps DEF EntryFails, ShiftInv, LoadsKept
<1>6. ASSUME NEW f \in Forms, SubmitEntry(f, e) PROVE ShiftInv'
  <2>1. PICK y : y = [NoEntry EXCEPT !.stage = "sent", !.form = f, !.table = "transactions",
                               !.at = rendered, !.shift = getShiftName(rendered)]
    OBVIOUS
  <2>2. y = [stage |-> "sent", form |-> f, table |-> "transactions", at |-> rendered, made |-> 0,
             shift |-> getShiftName(rendered), day |-> 0]
    BY <2>1 DEF NoEntry
  <2>3. y \in Entry
    BY <1>1, <2>2, ShiftNames DEF Entry
  <2>4. EntryKept(y, now)
    BY <1>1, <2>2 DEF EntryKept
  <2>5. EntriesKept'
    BY <1>1, <1>2, <1>6, <2>1, <2>3, <2>4, OneEntry DEF SubmitEntry
  <2> QED BY <1>6, <2>5 DEF SubmitEntry, ShiftInv, ClockKept, LoadsKept
<1> QED BY <1>3, <1>4, <1>5, <1>6

-----------------------------------------------------------------------------
LEMMA InitShiftInv == ShiftInit => ShiftInv
<1> SUFFICES ASSUME ShiftInit PROVE ShiftInv
  OBVIOUS
<1>1. NoEntry \in Entry /\ EntryKept(NoEntry, now)
  BY DEF NoEntry, Entry, EntryKept
<1>2. EntriesKept
  BY <1>1 DEF ShiftInit, EntriesKept
<1>3. ClockKept
  BY ShiftAssumption DEF ShiftInit, ClockKept
<1>4. LoadsKept
  <2>1. PICK load : load = [of |-> now, why |-> "effect", entries |-> {}, paid |-> FALSE]
    OBVIOUS
  <2>2. /\ shiftLoads = <<load>> /\ summaries = [of |-> 0, entries |-> {}]
        /\ error = FALSE /\ typed = {}
    BY <2>1 DEF ShiftInit
  <2>3. load \in ShiftLoad
    BY <1>3, <2>1, ShiftAssumption DEF ClockKept, ShiftLoad
  <2>4. shiftLoads \in Seq(ShiftLoad)
    BY <2>2, <2>3
  <2>5. summaries.entries \subseteq Entries
    BY <2>2
  <2> QED BY <2>2, <2>4, <2>5 DEF LoadsKept
<1> QED BY <1>2, <1>3, <1>4 DEF ShiftInv

LEMMA NextShiftInv == ShiftInv /\ [ShiftNext]_shiftVars => ShiftInv'
<1> SUFFICES ASSUME ShiftInv, [ShiftNext]_shiftVars PROVE ShiftInv'
  OBVIOUS
<1>1. CASE UNCHANGED shiftVars
  BY <1>1 DEF shiftVars, ShiftInv, ClockKept, LoadsKept, EntriesKept
<1>2. CASE ShiftNext
  BY <1>2, ClockKeeps, ShiftLoadKeeps, EntryKeeps DEF ShiftNext, ShiftLoadStep
<1> QED BY <1>1, <1>2

\* The book of the shifts keeps its invariant.
THEOREM ShiftInvariant == ShiftSpec => []ShiftInv
<1> QED BY InitShiftInv, NextShiftInv, PTL DEF ShiftSpec

\* An entry that is booked is in the current or the previous shift of the page for the two
\* quarters the page promises, whichever clock it was dated by (EntriesStayInSight).
THEOREM ShiftKeepsItsEntries == ShiftSpec => []EntriesStayInSight
<1> QED BY ShiftInvariant, KeptInSight, PTL

-----------------------------------------------------------------------------
(* The choice of a day.                                                    *)

LEMMA YearLength ==
  ASSUME NEW y \in Int
  PROVE  BeforeYear(y) \in Int /\ BeforeYear(y + 1) = BeforeYear(y) + IF IsLeap(y) THEN 366 ELSE 365
BY DEF IsLeap, BeforeYear

LEMMA YearsFollow ==
  ASSUME NEW y \in Int, NEW z \in Int, y < z
  PROVE  BeforeYear(y + 1) <= BeforeYear(z)
<1>1. \A a, b \in Int : a <= b => a \div 4 <= b \div 4 /\ a \div 400 <= b \div 400 /\ b \div 100 <= (a \div 100) + (b - a)
  OBVIOUS
<1>2. y + 1 - 1 = y /\ y \in Int /\ z - 1 \in Int /\ y <= z - 1
  OBVIOUS
<1>3. /\ y \div 4 <= (z - 1) \div 4 /\ y \div 400 <= (z - 1) \div 400
      /\ (z - 1) \div 100 <= (y \div 100) + ((z - 1) - y)
  BY <1>1, <1>2
<1> QED BY <1>2, <1>3 DEF BeforeYear

\* The months fill the year.
LEMMA MonthStarts ==
  ASSUME NEW y \in Int
  PROVE  /\ BeforeMonth(y, 1) = BeforeYear(y)
         /\ \A m \in 1..12 : BeforeMonth(y, m) \in Int /\ MonthLength(y, m) \in 28..31
         /\ \A m \in 1..11 : BeforeMonth(y, m + 1) = BeforeMonth(y, m) + MonthLength(y, m)
         /\ BeforeYear(y + 1) = BeforeMonth(y, 12) + MonthLength(y, 12)
<1> DEFINE t == <<0, 31, 59, 90, 120, 151, 181, 212, 243, 273, 304, 334>>
<1>1. /\ t[1] = 0 /\ t[2] = 31 /\ t[3] = 59 /\ t[4] = 90 /\ t[5] = 120 /\ t[6] = 151
      /\ t[7] = 181 /\ t[8] = 212 /\ t[9] = 243 /\ t[10] = 273 /\ t[11] = 304 /\ t[12] = 334
  OBVIOUS
<1>2. \A m \in 1..12 : BeforeMonth(y, m) = BeforeYear(y) + t[m] + (IF m > 2 /\ IsLeap(y) THEN 1 ELSE 0)
  BY DEF BeforeMonth
<1> HIDE DEF t
<1>3. BeforeYear(y) \in Int /\ BeforeYear(y + 1) = BeforeYear(y) + IF IsLeap(y) THEN 366 ELSE 365
  BY YearLength
<1>4. \A m \in 1..12 : t[m] \in Int
  BY <1>1
<1>5. \A m \in 1..12 : MonthLength(y, m) \in 28..31
  BY DEF MonthLength
<1>6. \A m \in 1..12 : BeforeMonth(y, m) \in Int
  BY <1>2, <1>3, <1>4
<1>7. \A m \in 1..11 : t[m + 1] = t[m] + IF m = 2 THEN 28 ELSE IF m \in {4, 6, 9, 11} THEN 30 ELSE 31
  BY <1>1
<1>8. ASSUME NEW m \in 1..11
      PROVE  BeforeMonth(y, m + 1) = BeforeMonth(y, m) + MonthLength(y, m)
  <2>1. m \in 1..12 /\ m + 1 \in 1..12 /\ (m + 1 > 2 <=> m > 2 \/ m = 2)
    OBVIOUS
  <2>2. /\ BeforeMonth(y, m) = BeforeYear(y) + t[m] + (IF m > 2 /\ IsLeap(y) THEN 1 ELSE 0)
        /\ BeforeMonth(y, m + 1) = BeforeYear(y) + t[m + 1] + (IF m + 1 > 2 /\ IsLeap(y) THEN 1 ELSE 0)
    BY <1>2, <2>1
  <2>3. t[m] \in Int /\ t[m + 1] = t[m] + IF m = 2 THEN 28 ELSE IF m \in {4, 6, 9, 11} THEN 30 ELSE 31
    BY <1>4, <1>7, <2>1
  <2>4. CASE m = 2
    BY <1>3, <2>1, <2>2, <2>3, <2>4 DEF MonthLength
  <2>5. CASE m # 2
    <3>1. BeforeMonth(y, m + 1) = BeforeMonth(y, m) + (t[m + 1] - t[m])
      BY <1>3, <2>1, <2>2, <2>3, <2>5
    <3>2. t[m + 1] - t[m] = MonthLength(y, m)
      BY <2>3, <2>5 DEF MonthLength
    <3> QED BY <3>1, <3>2
  <2> QED BY <2>4, <2>5
<1>9. BeforeMonth(y, 1) = BeforeYear(y) /\ BeforeMonth(y, 12) = BeforeYear(y) + 334 + IF IsLeap(y) THEN 1 ELSE 0
  BY <1>1, <1>2, <1>3
<1>10. BeforeYear(y + 1) = BeforeMonth(y, 12) + MonthLength(y, 12)
  BY <1>3, <1>9 DEF MonthLength
<1> QED BY <1>5, <1>6, <1>8, <1>9, <1>10

LEMMA MonthTypes ==
  ASSUME NEW y \in Int, NEW m \in 1..12
  PROVE  /\ BeforeMonth(y, m) \in Int /\ MonthLength(y, m) \in Int /\ MonthLength(y, m) \in 28..31
         /\ BeforeYear(y) \in Int /\ BeforeYear(y + 1) \in Int
<1>1. BeforeMonth(y, m) \in Int /\ MonthLength(y, m) \in 28..31
  BY MonthStarts
<1>2. y + 1 \in Int
  OBVIOUS
<1> QED BY <1>1, <1>2, YearLength

LEMMA MonthsFollow ==
  ASSUME NEW y \in Int, NEW m \in 1..12, NEW k \in 1..12, m < k
  PROVE  /\ BeforeMonth(y, m) + MonthLength(y, m) <= BeforeMonth(y, k)
         /\ BeforeMonth(y, k) + MonthLength(y, k) <= BeforeYear(y + 1)
         /\ BeforeMonth(y, 1) = BeforeYear(y)
<1>1. PICK f, g : f = [i \in 1..12 |-> BeforeMonth(y, i)] /\ g = [i \in 1..12 |-> MonthLength(y, i)]
  OBVIOUS
<1>2. \A i \in 1..12 : f[i] \in Int /\ g[i] \in 28..31
  BY <1>1, MonthStarts
<1>3. ASSUME NEW i \in 1..11 PROVE f[i + 1] = f[i] + g[i]
  <2>1. BeforeMonth(y, i + 1) = BeforeMonth(y, i) + MonthLength(y, i)
    BY MonthStarts
  <2> QED BY <1>1, <2>1
<1>4. /\ f[2] = f[1] + g[1] /\ f[3] = f[2] + g[2] /\ f[4] = f[3] + g[3] /\ f[5] = f[4] + g[4]
      /\ f[6] = f[5] + g[5] /\ f[7] = f[6] + g[6] /\ f[8] = f[7] + g[7] /\ f[9] = f[8] + g[8]
      /\ f[10] = f[9] + g[9] /\ f[11] = f[10] + g[10] /\ f[12] = f[11] + g[11]
  BY <1>3
<1>5. f[m] + g[m] <= f[k] /\ f[k] + g[k] <= f[12] + g[12]
  <2>1. /\ f[1] \in Int /\ f[2] \in Int /\ f[3] \in Int /\ f[4] \in Int /\ f[5] \in Int /\ f[6] \in Int
        /\ f[7] \in Int /\ f[8] \in Int /\ f[9] \in Int /\ f[10] \in Int /\ f[11] \in Int /\ f[12] \in Int
    BY <1>2
  <2>2. /\ g[1] \in Nat /\ g[2] \in Nat /\ g[3] \in Nat /\ g[4] \in Nat /\ g[5] \in Nat /\ g[6] \in Nat
        /\ g[7] \in Nat /\ g[8] \in Nat /\ g[9] \in Nat /\ g[10] \in Nat /\ g[11] \in Nat /\ g[12] \in Nat
    BY <1>2
  <2>3. CASE m \in {1, 2, 3, 4}
    BY <1>4, <2>1, <2>2, <2>3
  <2>4. CASE m \in {5, 6, 7, 8}
    BY <1>4, <2>1, <2>2, <2>4
  <2>5. CASE m \in {9, 10, 11, 12}
    BY <1>4, <2>1, <2>2, <2>5
  <2> QED BY <2>3, <2>4, <2>5
<1>6. f[12] + g[12] = BeforeYear(y + 1) /\ f[1] = BeforeYear(y)
  BY <1>1, MonthStarts
<1> QED BY <1>1, <1>5, <1>6

\* Day n is in the month m of the year y.
InMonth(n, y, m) == BeforeMonth(y, m) < n /\ n <= BeforeMonth(y, m) + MonthLength(y, m)

LEMMA InItsYear ==
  ASSUME NEW n \in Int, NEW y \in Int, NEW m \in 1..12, InMonth(n, y, m)
  PROVE  BeforeYear(y) < n /\ n <= BeforeYear(y + 1)
<1>1. /\ BeforeMonth(y, m) \in Int /\ MonthLength(y, m) \in Int /\ BeforeYear(y) \in Int
      /\ BeforeYear(y + 1) \in Int
  BY MonthTypes
<1>2. BeforeYear(y) <= BeforeMonth(y, m)
  <2>1. CASE m = 1
    BY <1>1, <2>1, MonthStarts
  <2>2. CASE m # 1
    <3>1. 1 < m /\ 1 \in 1..12
      BY <2>2
    <3>2. BeforeMonth(y, 1) + MonthLength(y, 1) <= BeforeMonth(y, m) /\ BeforeMonth(y, 1) = BeforeYear(y)
      BY <3>1, MonthsFollow
    <3>3. MonthLength(y, 1) \in 28..31
      BY MonthStarts
    <3> QED BY <1>1, <3>2, <3>3
  <2> QED BY <2>1, <2>2
<1>3. BeforeMonth(y, m) + MonthLength(y, m) <= BeforeYear(y + 1)
  <2>1. CASE m = 12
    BY <1>1, <2>1, MonthStarts
  <2>2. CASE m # 12
    <3>1. m < 12 /\ 12 \in 1..12
      BY <2>2
    <3>2. /\ BeforeMonth(y, m) + MonthLength(y, m) <= BeforeMonth(y, 12)
          /\ BeforeYear(y + 1) = BeforeMonth(y, 12) + MonthLength(y, 12)
      BY <3>1, MonthsFollow, MonthStarts
    <3>3. MonthLength(y, 12) \in 28..31 /\ BeforeMonth(y, 12) \in Int
      BY MonthStarts
    <3> QED BY <1>1, <3>2, <3>3
  <2> QED BY <2>1, <2>2
<1> QED BY <1>1, <1>2, <1>3 DEF InMonth

\* A day is in one month of one year.
LEMMA OneMonth ==
  ASSUME NEW n \in Int, NEW y \in Int, NEW m \in 1..12, InMonth(n, y, m),
         NEW z \in Int, NEW k \in 1..12, InMonth(n, z, k)
  PROVE  y = z /\ m = k
<1>1. ASSUME NEW a \in Int, NEW b \in Int, NEW i \in 1..12, NEW j \in 1..12, InMonth(n, a, i), InMonth(n, b, j)
      PROVE  ~(a < b)
  <2>1. BeforeYear(b) < n /\ n <= BeforeYear(a + 1) /\ BeforeYear(b) \in Int /\ BeforeYear(a + 1) \in Int
    <3>1. BeforeYear(b) < n /\ n <= BeforeYear(a + 1)
      BY <1>1, InItsYear
    <3> QED BY <3>1, MonthTypes
  <2>2. a < b => BeforeYear(a + 1) <= BeforeYear(b)
    BY YearsFollow
  <2> QED BY <2>1, <2>2
<1>2. y = z
  BY <1>1
<1>3. ASSUME NEW i \in 1..12, NEW j \in 1..12, InMonth(n, y, i), InMonth(n, y, j)
      PROVE  ~(i < j)
  <2>1. /\ BeforeMonth(y, i) \in Int /\ BeforeMonth(y, j) \in Int /\ MonthLength(y, i) \in Int
    BY MonthTypes
  <2>2. i < j => BeforeMonth(y, i) + MonthLength(y, i) <= BeforeMonth(y, j)
    BY MonthsFollow
  <2> QED BY <1>3, <2>1, <2>2 DEF InMonth
<1> QED BY <1>2, <1>3

LEMMA MonthFound ==
  ASSUME NEW n \in Int, NEW y \in Int, BeforeYear(y) < n, n <= BeforeYear(y + 1)
  PROVE  \E m \in 1..12 : InMonth(n, y, m)
<1> DEFINE N == {m \in 1..12 : n <= BeforeMonth(y, m) + MonthLength(y, m)}
<1>1. 12 \in N
  BY MonthStarts
<1>2. PICK m \in N : \A k \in N : m <= k
  <2>1. N \subseteq Nat /\ N # {}
    BY <1>1
  <2> HIDE DEF N
  <2> QED BY <2>1, LeastNatural
<1>3. m \in 1..12 /\ n <= BeforeMonth(y, m) + MonthLength(y, m)
  BY <1>2
<1>4. CASE m = 1
  BY <1>3, <1>4, MonthStarts DEF InMonth
<1>5. CASE m # 1
  <2>1. m - 1 \in 1..11 /\ m - 1 \in 1..12 /\ (m - 1) + 1 = m /\ m - 1 < m
    BY <1>3, <1>5
  <2>2. m - 1 \notin N
    BY <1>2, <1>3, <2>1
  <2>3. BeforeMonth(y, m) = BeforeMonth(y, m - 1) + MonthLength(y, m - 1)
    BY <2>1, MonthStarts
  <2>4. BeforeMonth(y, m - 1) \in Int /\ MonthLength(y, m - 1) \in Int
    BY <2>1, MonthTypes
  <2> QED BY <1>3, <2>1, <2>2, <2>3, <2>4 DEF InMonth
<1> QED BY <1>4, <1>5

\* The days that the years reach to.
Near(n) == n \in Int /\ \E y, z \in Years : BeforeYear(y) < n /\ n <= BeforeYear(z + 1)

LEMMA YearFound ==
  ASSUME NEW n, Near(n)
  PROVE  \E y \in Years : BeforeYear(y) < n /\ n <= BeforeYear(y + 1)
<1>1. PICK a \in Years, z \in Years : BeforeYear(a) < n /\ n <= BeforeYear(z + 1) /\ n \in Int
  BY DEF Near
<1> DEFINE N == {y \in Nat : a <= y /\ n <= BeforeYear(y + 1)}
<1>2. a \in Nat /\ z \in Nat /\ \A y \in Nat : BeforeYear(y) \in Int /\ BeforeYear(y + 1) \in Int
  <2>1. \A y \in Nat : y \in Int /\ y + 1 \in Int
    OBVIOUS
  <2> QED BY <1>1, <2>1, YearLength, NavAssumption
<1>3. a <= z
  <2> SUFFICES ASSUME z < a PROVE FALSE
    BY <1>2
  <2>1. BeforeYear(z + 1) <= BeforeYear(a)
    BY <1>2, YearsFollow
  <2> QED BY <1>1, <1>2, <2>1
<1>4. PICK y \in N : \A k \in N : y <= k
  <2>1. z \in N
    BY <1>1, <1>2, <1>3
  <2>2. N \subseteq Nat /\ N # {}
    BY <2>1
  <2> HIDE DEF N
  <2> QED BY <2>2, LeastNatural
<1>5. y <= z
  BY <1>1, <1>2, <1>3, <1>4
<1>6. y \in Years
  BY <1>2, <1>4, <1>5, NavAssumption
<1>7. BeforeYear(y) < n
  <2>1. CASE y = a
    BY <1>1, <2>1
  <2>2. CASE y # a
    <3>1. y - 1 \in Nat /\ a <= y - 1 /\ (y - 1) + 1 = y /\ y - 1 \notin N
      BY <1>2, <1>4, <2>2
    <3>2. BeforeYear(y) \in Int
      BY <1>2, <1>4
    <3> QED BY <1>1, <3>1, <3>2
  <2> QED BY <2>1, <2>2
<1> QED BY <1>4, <1>6, <1>7

\* What a Date object says of a day is the month and the year the day is in.
LEMMA DateOf ==
  ASSUME NEW n \in Int, NEW y \in Years, NEW m \in 1..12, InMonth(n, y, m)
  PROVE  /\ getFullYear(n) = y /\ getMonth(n) = m
         /\ toDateValue(n) = [y |-> y, m |-> m, d |-> n - BeforeMonth(y, m)]
<1>1. y \in Int /\ \A z \in Years : z \in Int
  BY NavAssumption
<1>2. BeforeYear(y) < n /\ n <= BeforeYear(y + 1)
  BY <1>1, InItsYear
<1>3. \A z \in Years : BeforeYear(z) < n /\ n <= BeforeYear(z + 1) => z = y
  <2> SUFFICES ASSUME NEW z \in Years, BeforeYear(z) < n, n <= BeforeYear(z + 1) PROVE z = y
    OBVIOUS
  <2>1. PICK k \in 1..12 : InMonth(n, z, k)
    BY <1>1, MonthFound
  <2> QED BY <1>1, <2>1, OneMonth
<1>4. getFullYear(n) = y
  BY <1>2, <1>3 DEF getFullYear
<1>5. \A k \in 1..12 : InMonth(n, y, k) => k = m
  BY <1>1, OneMonth
<1>6. getMonth(n) = m
  BY <1>4, <1>5 DEF getMonth, InMonth
<1> QED BY <1>4, <1>6 DEF toDateValue

LEMMA NearIsDate ==
  ASSUME NEW n, Near(n)
  PROVE  /\ IsDate(toDateValue(n)) /\ parseDateValue(toDateValue(n)) = n
         /\ InMonth(n, toDateValue(n).y, toDateValue(n).m)
         /\ getFullYear(n) = toDateValue(n).y /\ getMonth(n) = toDateValue(n).m
<1>1. PICK y \in Years : BeforeYear(y) < n /\ n <= BeforeYear(y + 1)
  BY YearFound
<1>2. n \in Int /\ y \in Int
  BY NavAssumption DEF Near
<1>3. PICK m \in 1..12 : InMonth(n, y, m)
  BY <1>1, <1>2, MonthFound
<1>4. /\ getFullYear(n) = y /\ getMonth(n) = m
      /\ toDateValue(n) = [y |-> y, m |-> m, d |-> n - BeforeMonth(y, m)]
  BY <1>2, <1>3, DateOf
<1>5. BeforeMonth(y, m) \in Int /\ MonthLength(y, m) \in 28..31
  BY <1>2, MonthTypes
<1>6. n - BeforeMonth(y, m) \in 1..31 /\ n - BeforeMonth(y, m) <= MonthLength(y, m)
  BY <1>2, <1>3, <1>5 DEF InMonth
<1>7. IsDate(toDateValue(n))
  BY <1>4, <1>6 DEF IsDate
<1>8. (m - 1) \div 12 = 0 /\ ((m - 1) % 12) + 1 = m /\ y + 0 = y
  BY <1>2
<1>9. NewDate(y, m, n - BeforeMonth(y, m)) = n
  BY <1>2, <1>5, <1>8 DEF NewDate
<1> QED BY <1>3, <1>4, <1>7, <1>9 DEF parseDateValue

LEMMA DateFields ==
  ASSUME NEW v, IsDate(v)
  PROVE  /\ v.y \in Years /\ v.y \in Int /\ v.m \in 1..12 /\ v.d \in 1..31 /\ v.d <= MonthLength(v.y, v.m)
         /\ v = [y |-> v.y, m |-> v.m, d |-> v.d]
<1>1. v \in [y: Years, m: 1..12, d: 1..31] /\ v.d <= MonthLength(v.y, v.m)
  BY DEF IsDate
<1>2. Years \subseteq Int
  BY NavAssumption
<1> QED BY <1>1, <1>2

\* A date and its day stand for each other.
LEMMA DateAndDay ==
  ASSUME NEW v, IsDate(v)
  PROVE  /\ parseDateValue(v) \in Int /\ parseDateValue(v) = BeforeMonth(v.y, v.m) + v.d
         /\ InMonth(parseDateValue(v), v.y, v.m) /\ toDateValue(parseDateValue(v)) = v
<1>1. v.y \in Years /\ v.m \in 1..12 /\ v.d \in 1..31 /\ v.d <= MonthLength(v.y, v.m)
      /\ v = [y |-> v.y, m |-> v.m, d |-> v.d]
  BY DateFields
<1>2. v.y \in Int
  BY DateFields
<1>3. BeforeMonth(v.y, v.m) \in Int /\ MonthLength(v.y, v.m) \in 28..31
  BY <1>1, <1>2, MonthTypes
<1>4. (v.m - 1) \div 12 = 0 /\ ((v.m - 1) % 12) + 1 = v.m /\ v.y + 0 = v.y
  BY <1>1, <1>2
<1>5. parseDateValue(v) = BeforeMonth(v.y, v.m) + v.d
  BY <1>4 DEF parseDateValue, NewDate
<1>6. parseDateValue(v) \in Int /\ InMonth(parseDateValue(v), v.y, v.m)
  BY <1>1, <1>3, <1>5 DEF InMonth
<1>7. toDateValue(parseDateValue(v)) = [y |-> v.y, m |-> v.m, d |-> parseDateValue(v) - BeforeMonth(v.y, v.m)]
  BY <1>1, <1>6, DateOf
<1>8. parseDateValue(v) - BeforeMonth(v.y, v.m) = v.d
  BY <1>1, <1>3, <1>5
<1> QED BY <1>1, <1>5, <1>6, <1>7, <1>8

\* The next day of the Date object is the next day of the calendar.
LEMMA NextDay ==
  ASSUME NEW n, Near(n), Near(n + 1)
  PROVE  toDateValue(n + 1) = DayAfter(toDateValue(n))
<1>0. PICK k, v, w : k = n + 1 /\ v = toDateValue(n) /\ w = toDateValue(k)
  OBVIOUS
<1>1. n \in Int /\ k \in Int /\ k = n + 1
  BY <1>0 DEF Near
<1>2. IsDate(v) /\ InMonth(n, v.y, v.m) /\ IsDate(w) /\ InMonth(k, w.y, w.m)
  BY <1>0, NearIsDate
<1>3. /\ v.y \in Int /\ w.y \in Int /\ v.m \in 1..12 /\ w.m \in 1..12 /\ v.y \in Years /\ w.y \in Years
      /\ v = [y |-> v.y, m |-> v.m, d |-> v.d]
  BY <1>2, DateFields
<1>4. /\ v = [y |-> v.y, m |-> v.m, d |-> n - BeforeMonth(v.y, v.m)]
      /\ w = [y |-> w.y, m |-> w.m, d |-> k - BeforeMonth(w.y, w.m)]
  BY <1>0, <1>1, <1>2, <1>3, DateOf
<1>5. /\ BeforeMonth(v.y, v.m) \in Int /\ MonthLength(v.y, v.m) \in 28..31
      /\ v.d = n - BeforeMonth(v.y, v.m)
  <2>1. BeforeMonth(v.y, v.m) \in Int /\ MonthLength(v.y, v.m) \in 28..31
    BY <1>3, MonthTypes
  <2> QED BY <1>4, <2>1
<1>6. CASE v.d < MonthLength(v.y, v.m)
  <2>1. InMonth(k, v.y, v.m)
    BY <1>1, <1>2, <1>3, <1>5, <1>6 DEF InMonth
  <2>2. w.y = v.y /\ w.m = v.m
    BY <1>1, <1>2, <1>3, <2>1, OneMonth
  <2>3. k - BeforeMonth(w.y, w.m) = v.d + 1
    BY <1>1, <1>5, <2>2
  <2>4. w = [v EXCEPT !.d = v.d + 1]
    BY <1>3, <1>4, <2>2, <2>3
  <2> QED BY <1>0, <1>6, <2>4 DEF DayAfter
<1>7. CASE ~(v.d < MonthLength(v.y, v.m)) /\ v.m < 12
  <2>1. v.m + 1 \in 1..12 /\ v.m \in 1..11
    BY <1>3, <1>7
  <2>2. /\ BeforeMonth(v.y, v.m + 1) = BeforeMonth(v.y, v.m) + MonthLength(v.y, v.m)
        /\ MonthLength(v.y, v.m + 1) \in 28..31
    BY <1>3, <2>1, MonthStarts
  <2>3. InMonth(k, v.y, v.m + 1) /\ k - BeforeMonth(v.y, v.m + 1) = 1
    BY <1>1, <1>2, <1>3, <1>5, <1>7, <2>2 DEF InMonth
  <2>4. w.y = v.y /\ w.m = v.m + 1
    BY <1>1, <1>2, <1>3, <2>1, <2>3, OneMonth
  <2> QED BY <1>0, <1>4, <1>7, <2>3, <2>4 DEF DayAfter
<1>8. CASE ~(v.d < MonthLength(v.y, v.m)) /\ ~(v.m < 12)
  <2>1. v.m = 12 /\ v.y + 1 \in Int /\ 1 \in 1..12
    BY <1>3, <1>8
  <2>2. /\ BeforeMonth(v.y + 1, 1) = BeforeYear(v.y + 1)
        /\ BeforeYear(v.y + 1) = BeforeMonth(v.y, 12) + MonthLength(v.y, 12)
        /\ MonthLength(v.y + 1, 1) \in 28..31
    BY <1>3, <2>1, MonthStarts
  <2>3. InMonth(k, v.y + 1, 1) /\ k - BeforeMonth(v.y + 1, 1) = 1
    BY <1>1, <1>2, <1>3, <1>5, <1>8, <2>1, <2>2 DEF InMonth
  <2>4. w.y = v.y + 1 /\ w.m = 1
    BY <1>1, <1>2, <1>3, <2>1, <2>3, OneMonth
  <2> QED BY <1>0, <1>4, <1>8, <2>3, <2>4 DEF DayAfter
<1> QED BY <1>6, <1>7, <1>8

\* There is room for six weeks around a day within the bounds.
LEMMA RoomAround ==
  ASSUME NEW n \in Int, InBounds(n), NEW k \in Int, n - 41 <= k, k <= n + 41
  PROVE  Near(k)
<1>1. /\ parseDateValue(FirstDate) <= n /\ n <= parseDateValue(LastDate)
      /\ parseDateValue(FirstDate) \in Int /\ parseDateValue(LastDate) \in Int
  BY DateAndDay, NavAssumption DEF InBounds
<1>2. PICK y \in Years : BeforeYear(y) + 42 <= parseDateValue(FirstDate)
  BY NavAssumption
<1>3. PICK z \in Years : parseDateValue(LastDate) + 42 <= BeforeYear(z + 1)
  BY NavAssumption
<1>4. BeforeYear(y) \in Int /\ BeforeYear(z + 1) \in Int
  <2>1. y \in Int /\ z \in Int /\ z + 1 \in Int
    BY NavAssumption
  <2> QED BY <2>1, YearLength
<1>5. BeforeYear(y) < k /\ k <= BeforeYear(z + 1)
  BY <1>1, <1>2, <1>3, <1>4
<1> QED BY <1>5 DEF Near

LEMMA WeekOfDate ==
  ASSUME NEW v, IsDate(v), InBounds(parseDateValue(v))
  PROVE  WeekIsWhole(v) /\ \A i \in 0..6 : IsDate(buildWeekDays(v)[i])
<1>1. PICK p, s : p = parseDateValue(v) /\ s = p + IF p % 7 = 0 THEN -6 ELSE 1 - (p % 7)
  OBVIOUS
<1>2. p \in Int /\ toDateValue(p) = v /\ InBounds(p)
  BY <1>1, DateAndDay
<1>3. p % 7 \in 0..6
  BY <1>2
<1>4. s \in Int /\ p - s \in 0..6 /\ s % 7 = 1
  <2>1. CASE p % 7 = 0
    BY <1>1, <1>2, <2>1
  <2>2. CASE p % 7 # 0
    BY <1>1, <1>2, <1>3, <2>2
  <2> QED BY <2>1, <2>2
<1>5. \A i \in 0..6 : Near(s + i) /\ s + i \in Int
  <2> SUFFICES ASSUME NEW i \in 0..6 PROVE Near(s + i) /\ s + i \in Int
    OBVIOUS
  <2>1. PICK k \in Int : k = s + i
    BY <1>4
  <2>2. p - 41 <= k /\ k <= p + 41
    BY <1>2, <1>4, <2>1
  <2> QED BY <1>2, <2>1, <2>2, RoomAround
<1>6. Near(s) /\ parseDateValue(toDateValue(s)) = s
  <2>1. s + 0 = s
    BY <1>4
  <2>2. Near(s)
    BY <1>5, <2>1
  <2> QED BY <2>2, NearIsDate
<1>7. startOfWeekMonday(v) = toDateValue(s)
  <2>1. startOfWeekMonday(v) = toDateValue(parseDateValue(v) + IF parseDateValue(v) % 7 = 0 THEN -6
                                                               ELSE 1 - (parseDateValue(v) % 7))
    BY DEF startOfWeekMonday, addDays, getDay
  <2> QED BY <1>1, <2>1, Zenon
<1>8. \A i \in 0..6 : buildWeekDays(v)[i] = toDateValue(s + i)
  BY <1>6, <1>7 DEF buildWeekDays, addDays
<1>9. \A i \in 0..6 : toDateValue(s + i) = v <=> i = p - s
  <2> SUFFICES ASSUME NEW i \in 0..6 PROVE toDateValue(s + i) = v <=> i = p - s
    OBVIOUS
  <2>1. parseDateValue(toDateValue(s + i)) = s + i
    BY <1>5, NearIsDate
  <2>2. i = p - s => s + i = p
    BY <1>2, <1>4
  <2>3. s + i = p => i = p - s
    BY <1>2, <1>4
  <2> QED BY <1>1, <1>2, <2>1, <2>2, <2>3
<1>10. Cardinality({i \in 0..6 : buildWeekDays(v)[i] = v}) = 1
  <2>1. {i \in 0..6 : buildWeekDays(v)[i] = v} = {p - s}
    BY <1>4, <1>8, <1>9
  <2> QED BY <2>1, FS_Singleton
<1>11. getDay(parseDateValue(buildWeekDays(v)[0])) = 1
  <2>1. s + 0 = s /\ 0 \in 0..6
    BY <1>4
  <2>2. buildWeekDays(v)[0] = toDateValue(s)
    BY <1>8, <2>1
  <2> QED BY <1>4, <1>6, <2>2 DEF getDay
<1>12. ASSUME NEW i \in 0..5 PROVE buildWeekDays(v)[i + 1] = DayAfter(buildWeekDays(v)[i])
  <2>1. i \in 0..6 /\ i + 1 \in 0..6 /\ s + (i + 1) = (s + i) + 1
    BY <1>4
  <2>2. Near(s + i) /\ Near((s + i) + 1)
    BY <1>5, <2>1
  <2> QED BY <1>8, <2>1, <2>2, NextDay
<1>13. \A i \in 0..6 : IsDate(buildWeekDays(v)[i])
  BY <1>5, <1>8, NearIsDate
<1> QED BY <1>10, <1>11, <1>12, <1>13 DEF WeekIsWhole

LEMMA CalendarOfDay ==
  ASSUME NEW n \in Int, InBounds(n)
  PROVE  CalendarIsWhole(n) /\ \A i \in 0..41 : buildCalendarDays(n)[i] \in Int /\ Near(buildCalendarDays(n)[i])
<1>1. PICK v : v = toDateValue(n)
  OBVIOUS
<1>2. Near(n)
  BY RoomAround
<1>3. /\ IsDate(v) /\ parseDateValue(v) = n /\ InMonth(n, v.y, v.m)
      /\ getFullYear(n) = v.y /\ getMonth(n) = v.m
  BY <1>1, <1>2, NearIsDate
<1>4. /\ v.y \in Years /\ v.y \in Int /\ v.m \in 1..12 /\ v.d \in 1..31
      /\ v = [y |-> v.y, m |-> v.m, d |-> v.d]
  BY <1>3, DateFields
<1>5. PICK before, len : before = BeforeMonth(v.y, v.m) /\ len = MonthLength(v.y, v.m)
  OBVIOUS
<1>6. before \in Int /\ len \in 28..31 /\ before < n /\ n <= before + len
  BY <1>3, <1>4, <1>5, MonthTypes DEF InMonth
<1>7. PICK first, off : first = NewDate(v.y, v.m, 1) /\ off = (getDay(first) + 6) % 7
  OBVIOUS
<1>8. first = before + 1
  <2>1. (v.m - 1) \div 12 = 0 /\ ((v.m - 1) % 12) + 1 = v.m /\ v.y + 0 = v.y
    BY <1>4
  <2> QED BY <1>5, <1>7, <2>1 DEF NewDate
<1>9. /\ first \in Int /\ off \in 0..6 /\ first - off \in Int /\ (first - off) % 7 = 1
  BY <1>6, <1>7, <1>8 DEF getDay
<1>10. \A i \in 0..41 : buildCalendarDays(n)[i] = (first - off) + i
  BY <1>3, <1>7 DEF buildCalendarDays
<1>11. ASSUME NEW i \in 0..41 PROVE Near((first - off) + i) /\ (first - off) + i \in Int
  <2>1. PICK k \in Int : k = (first - off) + i
    BY <1>9
  <2>2. n - 41 <= k /\ k <= n + 41
    BY <1>6, <1>8, <1>9, <2>1
  <2> QED BY <2>1, <2>2, RoomAround
<1>12. ASSUME NEW i \in 0..40
       PROVE  toDateValue(buildCalendarDays(n)[i + 1]) = DayAfter(toDateValue(buildCalendarDays(n)[i]))
  <2>1. i \in 0..41 /\ i + 1 \in 0..41 /\ (first - off) + (i + 1) = ((first - off) + i) + 1
    BY <1>9
  <2>2. Near((first - off) + i) /\ Near(((first - off) + i) + 1)
    BY <1>11, <2>1
  <2> QED BY <1>10, <2>1, <2>2, NextDay
<1>13. buildCalendarDays(n)[off] = first /\ off \in 0..41
  BY <1>9, <1>10
<1>14. toDateValue(first) = [v EXCEPT !.d = 1]
  <2>1. InMonth(first, v.y, v.m) /\ first - BeforeMonth(v.y, v.m) = 1
    BY <1>5, <1>6, <1>8 DEF InMonth
  <2>2. toDateValue(first) = [y |-> v.y, m |-> v.m, d |-> first - BeforeMonth(v.y, v.m)]
    BY <1>4, <1>9, <2>1, DateOf
  <2> QED BY <1>4, <2>1, <2>2
<1>15. getDay(first) = (off + 1) % 7
  BY <1>7, <1>9 DEF getDay
<1>16. off \in 0..6 /\ off + MonthLength(v.y, v.m) <= 42
  BY <1>5, <1>6, <1>9
<1> QED BY <1>1, <1>10, <1>11, <1>12, <1>13, <1>14, <1>15, <1>16 DEF CalendarIsWhole

\* The arrows of the calendar turn to the month before or after, over the ends of years too.
LEMMA ArrowTurns ==
  ASSUME NEW n \in Int, Near(n), NEW offset \in {-1, 1},
         NEW k, k = NewDate(getFullYear(n), getMonth(n) + offset, 1), Near(k)
  PROVE  k \in Int /\ MonthOf(k) = MonthOf(n) + offset
<1>1. PICK y, m : y = getFullYear(n) /\ m = getMonth(n)
  OBVIOUS
<1>2. y \in Years /\ y \in Int /\ m \in 1..12
  <2>1. PICK v : v = toDateValue(n)
    OBVIOUS
  <2>2. IsDate(v) /\ y = v.y /\ m = v.m
    BY <1>1, <2>1, NearIsDate
  <2> QED BY <2>2, DateFields
<1>3. PICK z, j : z = y + ((m + offset) - 1) \div 12 /\ j = (((m + offset) - 1) % 12) + 1
  OBVIOUS
<1>4. z \in Int /\ j \in 1..12 /\ 12 * z + j = 12 * y + m + offset
  <2>1. CASE m + offset = 0
    BY <1>2, <1>3, <2>1
  <2>2. CASE m + offset = 13
    BY <1>2, <1>3, <2>2
  <2>3. CASE m + offset \in 1..12
    BY <1>2, <1>3, <2>3
  <2> QED BY <1>2, <2>1, <2>2, <2>3
<1>5. k = BeforeMonth(z, j) + 1
  BY <1>1, <1>3 DEF NewDate
<1>6. BeforeMonth(z, j) \in Int /\ MonthLength(z, j) \in 28..31
  BY <1>4, MonthTypes
<1>7. k \in Int /\ InMonth(k, z, j)
  BY <1>5, <1>6 DEF InMonth
<1>8. getFullYear(k) = z /\ getMonth(k) = j
  <2>1. PICK w : w = toDateValue(k)
    OBVIOUS
  <2>2. IsDate(w) /\ InMonth(k, w.y, w.m) /\ getFullYear(k) = w.y /\ getMonth(k) = w.m
    BY <2>1, NearIsDate
  <2>3. w.y \in Int /\ w.m \in 1..12
    BY <2>2, DateFields
  <2> QED BY <1>4, <1>7, <2>2, <2>3, OneMonth
<1> QED BY <1>1, <1>2, <1>4, <1>7, <1>8 DEF MonthOf

\* The chosen day is a date within the bounds, and the calendar shows a month within them.
NavInv == NavTypeOK /\ InBounds(parseDateValue(value)) /\ visibleMonth \in Int

LEMMA NavInitInv == NavInit => NavInv
<1> SUFFICES ASSUME NavInit PROVE NavInv
  OBVIOUS
<1>1. IsDate(value) /\ InBounds(parseDateValue(value)) /\ visibleMonth = parseDateValue(value) /\ isOpen = FALSE
  BY NavAssumption DEF NavInit
<1>2. visibleMonth \in Int
  BY <1>1, DateAndDay
<1> QED BY <1>1, <1>2 DEF NavInv, NavTypeOK

LEMMA ChosenKeeps ==
  ASSUME NavInv, NEW v, IsDate(v), Chosen(v), isOpen' \in BOOLEAN
  PROVE  NavInv'
<1>1. value' = v /\ InBounds(parseDateValue(v)) /\ visibleMonth' \in {visibleMonth, parseDateValue(v)}
  BY DEF Chosen
<1>2. visibleMonth' \in Int /\ InBounds(visibleMonth')
  BY <1>1, DateAndDay DEF NavInv, NavTypeOK
<1>3. IsDate(value') /\ InBounds(parseDateValue(value'))
  BY <1>1
<1> QED BY <1>2, <1>3 DEF NavInv, NavTypeOK, InBounds, parseDateValue, IsDate

\* A step of the controls chooses a date, or leaves the chosen one and turns the calendar at most
\* by a month.
LEMMA NavStep ==
  ASSUME NavInv, NavNext
  PROVE  \/ \E v : IsDate(v) /\ Chosen(v) /\ isOpen' \in BOOLEAN
         \/ UNCHANGED <<value, visibleMonth>> /\ isOpen' \in BOOLEAN
         \/ \E offset \in {-1, 1} : changeMonth(offset)
<1>1. /\ IsDate(value) /\ InBounds(parseDateValue(value)) /\ isOpen \in BOOLEAN
      /\ visibleMonth \in Int /\ InBounds(visibleMonth)
  BY DEF NavInv, NavTypeOK
<1>2. ASSUME NEW i \in 0..6, chooseWeekDay(i) PROVE \E v : IsDate(v) /\ Chosen(v) /\ isOpen' \in BOOLEAN
  BY <1>1, <1>2, WeekOfDate DEF chooseWeekDay
<1>3. ASSUME NEW step \in {-1, 1}, stepWeek(step) PROVE \E v : IsDate(v) /\ Chosen(v) /\ isOpen' \in BOOLEAN
  <2>1. PICK p, k : p = parseDateValue(value) /\ k = p + 7 * step
    OBVIOUS
  <2>2. p \in Int /\ InBounds(p) /\ k \in Int /\ p - 41 <= k /\ k <= p + 41
    BY <1>1, <2>1, DateAndDay
  <2>3. IsDate(toDateValue(k))
    BY <2>2, RoomAround, NearIsDate
  <2>4. Chosen(toDateValue(k))
    BY <1>3, <2>1 DEF stepWeek, addDays
  <2> QED BY <1>1, <1>3, <2>3, <2>4 DEF stepWeek
<1>4. ASSUME NEW n \in Int, Near(n), chooseDate(n) PROVE \E v : IsDate(v) /\ Chosen(v) /\ isOpen' \in BOOLEAN
  BY <1>4, NearIsDate DEF chooseDate
<1>5. ASSUME chooseToday PROVE \E v : IsDate(v) /\ Chosen(v) /\ isOpen' \in BOOLEAN
  <2>1. PICK v \in Todays : chooseDate(parseDateValue(v))
    BY <1>5 DEF chooseToday
  <2>2. PICK n : n = parseDateValue(v)
    OBVIOUS
  <2>3. n \in Int /\ InBounds(n) /\ n - 41 <= n /\ n <= n + 41
    BY <2>2, DateAndDay, NavAssumption
  <2> QED BY <1>4, <2>1, <2>2, <2>3, RoomAround
<1>6. ASSUME NEW i \in 0..41, chooseDate(buildCalendarDays(visibleMonth)[i])
      PROVE  \E v : IsDate(v) /\ Chosen(v) /\ isOpen' \in BOOLEAN
  BY <1>1, <1>4, <1>6, CalendarOfDay
<1>7. ASSUME toggleCalendar \/ closeCalendar PROVE UNCHANGED <<value, visibleMonth>> /\ isOpen' \in BOOLEAN
  BY <1>1, <1>7 DEF toggleCalendar, closeCalendar
<1> QED BY <1>2, <1>3, <1>5, <1>6, <1>7 DEF NavNext

LEMMA NavNextInv == NavInv /\ [NavNext]_navVars => NavInv'
<1> SUFFICES ASSUME NavInv, [NavNext]_navVars PROVE NavInv'
  OBVIOUS
<1>1. CASE UNCHANGED navVars
  BY <1>1 DEF navVars, NavInv, NavTypeOK, IsDate, InBounds
<1>2. ASSUME NEW v, IsDate(v), Chosen(v), isOpen' \in BOOLEAN PROVE NavInv'
  BY <1>2, ChosenKeeps
<1>3. CASE UNCHANGED <<value, visibleMonth>> /\ isOpen' \in BOOLEAN
  BY <1>3 DEF NavInv, NavTypeOK, IsDate, InBounds
<1>4. ASSUME NEW offset \in {-1, 1}, changeMonth(offset) PROVE NavInv'
  <2>1. /\ InBounds(visibleMonth') /\ UNCHANGED <<value, isOpen>>
        /\ visibleMonth' = NewDate(getFullYear(visibleMonth), getMonth(visibleMonth) + offset, 1)
    BY <1>4 DEF changeMonth
  <2>2. visibleMonth' \in Int
    <3>1. visibleMonth \in Int /\ Near(visibleMonth)
      BY RoomAround DEF NavInv, NavTypeOK
    <3>2. PICK v : v = toDateValue(visibleMonth)
      OBVIOUS
    <3>3. getFullYear(visibleMonth) = v.y /\ getMonth(visibleMonth) = v.m /\ v.y \in Int /\ v.m \in 1..12
      BY <3>1, <3>2, NearIsDate, DateFields
    <3>4. /\ v.y + ((v.m + offset) - 1) \div 12 \in Int /\ (((v.m + offset) - 1) % 12) + 1 \in 1..12
      BY <3>3
    <3> QED BY <2>1, <3>3, <3>4, MonthTypes DEF NewDate
  <2> QED BY <2>1, <2>2 DEF NavInv, NavTypeOK, IsDate, InBounds
<1> QED BY <1>1, <1>2, <1>3, <1>4, NavStep

\* The chosen day and the shown month stay dates within the bounds, for any years and bounds.
THEOREM NavInvariant == NavSpec => []NavInv
BY NavInitInv, NavNextInv, PTL DEF NavSpec

\* Week and calendar are whole days in a row, whatever day is chosen in whatever month or year, and
\* the arrows skip no month (EveryDayCanBeChosen).
THEOREM EveryDayIsFound == NavSpec => EveryDayCanBeChosen
<1>1. NavInv => (isOpen => WeekIsWhole(value) /\ CalendarIsWhole(visibleMonth))
  BY WeekOfDate, CalendarOfDay DEF NavInv, NavTypeOK
<1>2. NavInv /\ NavInv' /\ [NavNext]_navVars =>
        [value' = value /\ visibleMonth' # visibleMonth
           => MonthOf(visibleMonth') - MonthOf(visibleMonth) \in {-1, 1}]_navVars
  <2> SUFFICES ASSUME NavInv, NavInv', NavNext, value' = value, visibleMonth' # visibleMonth
               PROVE  MonthOf(visibleMonth') - MonthOf(visibleMonth) \in {-1, 1}
    OBVIOUS
  <2>1. PICK offset \in {-1, 1} : changeMonth(offset)
    <3>1. \A v : Chosen(v) => value' # value \/ visibleMonth' = visibleMonth
      BY DEF Chosen
    <3> QED BY <3>1, NavStep
  <2>2. PICK n, k : n = visibleMonth /\ k = visibleMonth'
    OBVIOUS
  <2>3. n \in Int /\ InBounds(n) /\ k \in Int /\ InBounds(k)
    BY <2>2 DEF NavInv, NavTypeOK, InBounds
  <2>4. Near(n) /\ Near(k)
    <3>1. n - 41 <= n /\ n <= n + 41 /\ k - 41 <= k /\ k <= k + 41
      BY <2>3
    <3> QED BY <2>3, <3>1, RoomAround
  <2>5. k = NewDate(getFullYear(n), getMonth(n) + offset, 1)
    BY <2>1, <2>2 DEF changeMonth
  <2>6. MonthOf(k) = MonthOf(n) + offset
    BY <2>3, <2>4, <2>5, ArrowTurns
  <2>7. MonthOf(n) \in Int
    <3>1. PICK v : v = toDateValue(n)
      OBVIOUS
    <3>2. getFullYear(n) = v.y /\ getMonth(n) = v.m /\ v.y \in Int /\ v.m \in Int
      BY <2>4, <3>1, NearIsDate, DateFields
    <3> QED BY <3>2 DEF MonthOf
  <2>8. MonthOf(k) - MonthOf(n) \in {-1, 1}
    BY <2>6, <2>7
  <2>9. MonthOf(visibleMonth') = MonthOf(k) /\ MonthOf(visibleMonth) = MonthOf(n)
    BY <2>2
  <2> QED BY <2>8, <2>9
<1> QED BY <1>1, <1>2, NavInvariant, PTL DEF NavSpec, EveryDayCanBeChosen

-----------------------------------------------------------------------------
(* The types of the panel, the views, the shift page and the choice of a day, *)
(* and of the modules in one instance.                                      *)

\* What the panel shows and edits are courts and rules there are, or none.
THEOREM PanelTypeCorrect == PanelSpec => []PanelTypeOK
<1>1. PanelInv => PanelTypeOK
  BY ListedPrices DEF PanelInv, PanelTypes, PanelTypeOK
<1> QED BY <1>1, PanelInvariant, PTL

LEMMA ShiftTypesHave == ShiftInv => ShiftTypeOK
<1> SUFFICES ASSUME ShiftInv PROVE ShiftTypeOK
  OBVIOUS
<1>1. entry \in [Entries -> [stage: {"none", "sent", "booked"}, form: Forms \cup {None}, at: Nat, made: Nat,
                             day: Nat, table: {None, "transactions", "payments"},
                             shift: {None, "morning", "afternoon", "evening"}]]
  <2>1. {None} \cup Shifts = {None, "morning", "afternoon", "evening"}
    BY DEF Shifts
  <2> QED BY <2>1 DEF ShiftInv, EntriesKept, Entry
<1>2. ASSUME NEW i \in DOMAIN shiftLoads PROVE shiftLoads[i].entries \subseteq Entries
  <2>1. shiftLoads[i] \in ShiftLoad
    BY DEF ShiftInv, LoadsKept
  <2> QED BY <2>1 DEF ShiftLoad
<1> QED BY <1>1, <1>2 DEF ShiftInv, ClockKept, LoadsKept, ShiftTypeOK

\* The page is rendered at most a quarter late, and its entries and summaries are of entries made.
THEOREM ShiftTypeCorrect == ShiftSpec => []ShiftTypeOK
BY ShiftTypesHave, ShiftInvariant, PTL

\* The instance of all modules runs each of them: whatever is proved of the specification of a
\* module holds of it, but for the fairness of the shift page, whose module may be at rest.
THEOREM PagesRunTheModules ==
  PagesSpec => /\ WebSpec /\ DialogSpec /\ DeskSpec /\ StockSpec /\ PanelSpec /\ ViewsSpec /\ NavSpec
               /\ ShiftInit /\ [][ShiftNext]_shiftVars
<1>1. PagesInit => /\ WebInit /\ DialogInit /\ DeskInit /\ StockInit
                   /\ ShiftInit /\ PanelInit /\ ViewsInit /\ NavInit
  BY DEF PagesInit
<1>2. [PagesNext]_<<runs, webVars, dialogVars, deskVars, stockVars, shiftVars, panelVars, viewVars, navVars>>
        => /\ [WebNext]_webVars /\ [DialogNext]_dialogVars /\ [DeskNext]_deskVars /\ [StockNext]_stockVars
           /\ [ShiftNext]_shiftVars /\ [PanelNext]_panelVars /\ [ViewsNext]_viewVars /\ [NavNext]_navVars
  BY DEF PagesNext
<1> QED BY <1>1, <1>2, PTL DEF PagesSpec, WebSpec, DialogSpec, DeskSpec, StockSpec, PanelSpec, ViewsSpec, NavSpec

\* PagesTypeOK: the types of every module of the web application, for all values of the constants.
THEOREM PagesTypeCorrect == PagesSpec => []PagesTypeOK
<1>1. PagesSpec => []ShiftInv
  BY PagesRunTheModules, InitShiftInv, NextShiftInv, PTL
<1>2. ViewsInv => ViewsTypeOK
  BY DEF ViewsInv
<1>3. NavInv => NavTypeOK
  BY DEF NavInv
<1>4. /\ WebTypeOK /\ DialogTypeOK /\ DeskTypeOK /\ StockTypeOK
      /\ ShiftTypeOK /\ PanelTypeOK /\ ViewsTypeOK /\ NavTypeOK
      => PagesTypeOK
  BY DEF PagesTypeOK
<1> QED BY <1>1, <1>2, <1>3, <1>4, ShiftTypesHave, PagesRunTheModules, SessionTypeCorrect, DialogTypeCorrect,
           DeskTypeCorrect, StockTypeCorrect, PanelTypeCorrect, ViewsInvariant, NavInvariant, PTL
=============================================================================
