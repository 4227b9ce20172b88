---------------------------- MODULE BeverageStock ----------------------------
(***************************************************************************)
(* One beverage: its row on the server, written by transactions that lock  *)
(* it and save all its columns (repository/beverage_repository.go), and    *)
(* the two pages that send them, pages/BeverageCounterPage.jsx of the      *)
(* staff and pages/BeverageManagementPage.jsx of the administrator.        *)
(* Other terminals send calls too.                                         *)
(*                                                                         *)
(* The columns an edit may change besides the stock (name, price, unit,    *)
(* description) are one label.  A load reads the list when it is asked for *)
(* and may arrive any time later.                                          *)
(***************************************************************************)
EXTENDS Integers, Sequences, SequencesExt, Web

CONSTANTS
  Calls,       \* numbers of the API calls that can be under way at a time
  Quantities,  \* quantities that are typed
  Stocks,      \* stocks that are typed
  Labels,      \* labels
  FirstStock,  \* the stock at first
  MaxCalls,    \* bound: calls ever sent
  MaxLoads,    \* bound: loads under way
  MaxStock     \* bound: a restock is sent only while no more than this is in stock

ASSUME BeverageAssumption == /\ Quantities \subseteq Nat \ {0} /\ Stocks \subseteq Nat
                             /\ FirstStock \in Nat /\ Calls \subseteq Nat /\ None \notin Calls
                             /\ None \notin {"update", "create"}
                             /\ Labels # {} /\ MaxCalls \in Nat

VARIABLES
  page,      \* the page that is looked at: "counter" or "management"
  drink,     \* the row
  lockedBy,  \* the call whose transaction holds the row lock
  call,      \* the calls
  ledger,    \* sums of the transactions and of the audit log
  items,     \* what the page shows of the beverage: items, beverages
  drinkLoads, \* loads under way, in the order they were asked for
  edit,      \* the form of the management page
  saving,    \* the flag that disables its button
  sent,      \* calls ever sent
  smooth     \* history: no load failed or was overtaken, no answer was lost, and only the
             \* page has written

stockVars == <<page, drink, lockedBy, call, ledger, items, drinkLoads, edit, saving, sent, smooth>>
row       == <<drink, lockedBy, ledger>>
view      == <<page, items, drinkLoads, edit, saving>>

Label0 == CHOOSE l \in Labels : TRUE
Listing(d) == IF d.active THEN d ELSE None
NoCall == [stage |-> "idle", kind |-> None, by |-> None, qty |-> 0, label |-> None, read |-> None]
EMPTY_FORM == [editing |-> FALSE, stock |-> 0, label |-> Label0]

StockInit == /\ page \in {"counter", "management"}
             /\ drink = [stock |-> FirstStock, label |-> Label0, active |-> TRUE]
             /\ lockedBy = None /\ call = [c \in Calls |-> NoCall]
             /\ ledger = [sold |-> 0, bought |-> 0, adjusted |-> 0]
             /\ items = drink /\ drinkLoads = <<>>
             /\ edit = EMPTY_FORM /\ saving = FALSE
             /\ sent = 0 /\ smooth = TRUE

-----------------------------------------------------------------------------
(* The server.  *)

Requested(c, kind, by, qty, label) ==
  /\ FirstOf(c, {d \in Calls : call[d] = NoCall}) /\ sent < MaxCalls
  /\ call' = [call EXCEPT ![c] = [stage |-> "sent", kind |-> kind, by |-> by, qty |-> qty,
                                  label |-> label, read |-> None]]
  /\ sent' = sent + 1

\* Wrong: the row is read without FOR UPDATE.
LockNothing(c) == /\ call[c].stage = "sent" /\ call[c].kind # "create"
                  /\ lockedBy' = c
                  /\ call' = [call EXCEPT ![c].stage = "locked", ![c].read = drink]
                  /\ UNCHANGED <<drink, ledger, view, sent, smooth>>

\* SELECT ... FOR UPDATE: the row is read once the lock is held.
Lock(c) == /\ call[c].stage = "sent" /\ call[c].kind # "create"
           /\ lockedBy = None
           /\ lockedBy' = c
           /\ call' = [call EXCEPT ![c].stage = "locked", ![c].read = drink]
           /\ UNCHANGED <<drink, ledger, view, sent, smooth>>

\* Wrong: the stock is not compared with the quantity.
SellBlindly(k) == /\ k.kind = "sell" /\ k.read.active
                  /\ drink' = [k.read EXCEPT !.stock = @ - k.qty]
                  /\ ledger' = [ledger EXCEPT !.sold = @ + k.qty]

Sell(k)     == /\ k.kind = "sell" /\ k.read.active /\ k.read.stock >= k.qty
               /\ drink' = [k.read EXCEPT !.stock = @ - k.qty]
               /\ ledger' = [ledger EXCEPT !.sold = @ + k.qty]
Restock(k)  == /\ k.kind = "restock"
               /\ drink' = [k.read EXCEPT !.stock = @ + k.qty]
               /\ ledger' = [ledger EXCEPT !.bought = @ + k.qty]
UpdateByAdmin(k) == /\ k.kind = "update"
                    /\ drink' = [k.read EXCEPT !.stock = k.qty, !.label = k.label]
                    /\ ledger' = [ledger EXCEPT !.adjusted = @ + k.qty - k.read.stock]
DeleteByAdmin(k) == /\ k.kind = "delete" /\ k.read.active
                    /\ drink' = [k.read EXCEPT !.active = FALSE]
                    /\ UNCHANGED ledger
AdjustStockByAdmin(k) == /\ k.kind = "adjust" /\ k.read.stock + k.qty >= 0
                         /\ drink' = [k.read EXCEPT !.stock = @ + k.qty]
                         /\ ledger' = [ledger EXCEPT !.adjusted = @ + k.qty]

SavedRow(k) == Sell(k) \/ Restock(k) \/ UpdateByAdmin(k) \/ DeleteByAdmin(k) \/ AdjustStockByAdmin(k)

\* The page awaits the answer to its own calls; what it was called with is in its closure.
Ended(c, answer) == call' = [call EXCEPT ![c] = IF @.by = "other" THEN NoCall
                               ELSE [@ EXCEPT !.stage = answer, !.qty = 0, !.read = None]]

Commit(c) == /\ call[c].stage = "locked" /\ SavedRow(call[c])
             /\ lockedBy' = None
             /\ \E answer \in {"ok", "failed"} :  \* the answer may be lost
                  Ended(c, answer) /\ smooth' = (smooth /\ answer = "ok" /\ call[c].by = page)
             /\ UNCHANGED <<view, sent>>

\* A refusal, or a failure of the database: nothing is written.
Rollback(c) == /\ call[c].stage = "locked"
               /\ lockedBy' = None
               /\ Ended(c, "failed")
               /\ UNCHANGED <<drink, ledger, view, sent, smooth>>

\* Another beverage is added; this one's row is not touched.
Create(c) == /\ call[c].stage = "sent" /\ call[c].kind = "create"
             /\ \E answer \in {"ok", "failed"} : Ended(c, answer)
             /\ UNCHANGED <<row, view, sent, smooth>>

\* Terminals with the other page.
OtherCall(c, kind, qty, label) ==
  /\ kind \in {"sell", "restock", "adjust", "update", "delete"}
  /\ kind = "restock" => drink.stock <= MaxStock
  /\ Requested(c, kind, "other", IF kind = "adjust" THEN -qty ELSE qty,
                  IF kind = "update" THEN label ELSE None)
  /\ UNCHANGED <<row, view, smooth>>

-----------------------------------------------------------------------------
(* Loads: the answer is the list of active beverages at the time of asking. *)

AskForList(forSave) == drinkLoads' = Append(drinkLoads, [of |-> Listing(drink'), forSave |-> forSave])

\* The button of both pages.
Refresh == /\ Len(drinkLoads) < MaxLoads /\ UNCHANGED drink /\ AskForList(FALSE)
           /\ UNCHANGED <<page, lockedBy, ledger, call, items, edit, saving, sent, smooth>>

loadStock(i) ==
  /\ page = "counter"
  /\ items' = drinkLoads[i].of
  /\ drinkLoads' = RemoveAt(drinkLoads, i)
  /\ smooth' = (smooth /\ i = 1)
  /\ UNCHANGED <<page, row, call, edit, saving, sent>>
loadBeverages(i) ==
  /\ page = "management"
  /\ items' = drinkLoads[i].of
  /\ drinkLoads' = RemoveAt(drinkLoads, i)
  /\ saving' = (saving /\ ~drinkLoads[i].forSave)
  /\ smooth' = (smooth /\ i = 1)
  /\ UNCHANGED <<page, row, call, edit, sent>>

\* A failure is announced; what was shown stays.
StockLoadFails(i) ==
  /\ drinkLoads' = RemoveAt(drinkLoads, i)
  /\ saving' = (saving /\ ~drinkLoads[i].forSave)
  /\ smooth' = FALSE
  /\ UNCHANGED <<page, row, call, items, edit, sent>>

-----------------------------------------------------------------------------
(* The counter.  Its buttons are not disabled while a call is under way.  *)

handleSell(c, qty) == /\ page = "counter" /\ items # None /\ items.stock > 0 /\ qty <= items.stock
                      /\ Requested(c, "sell", page, qty, None)
                      /\ UNCHANGED <<row, view, smooth>>
handleRestock(c, qty) == /\ page = "counter" /\ items # None /\ drink.stock <= MaxStock
                         /\ Requested(c, "restock", page, qty, None)
                         /\ UNCHANGED <<row, view, smooth>>

TakesAnswer(c) == /\ call[c].stage \in {"ok", "failed"} /\ call' = [call EXCEPT ![c] = NoCall]
             /\ UNCHANGED <<page, row, items, sent, smooth>>

\* Wrong: the list is not loaded again.
CounterUnchanged(c) == /\ call[c].kind \in {"sell", "restock"} /\ TakesAnswer(c)
                       /\ UNCHANGED <<drinkLoads, edit, saving>>

\* A call that succeeded loads the list again; one that failed only shows why.
CounterAnswered(c) == /\ call[c].kind \in {"sell", "restock"} /\ TakesAnswer(c)
                      /\ IF call[c].stage = "ok" THEN AskForList(FALSE) ELSE UNCHANGED drinkLoads
                      /\ UNCHANGED <<edit, saving>>

-----------------------------------------------------------------------------
(* The management page.  *)

Editing == page = "management" /\ UNCHANGED <<page, row, call, items, drinkLoads, saving, sent, smooth>>

startEdit == /\ items # None
             /\ edit' = [editing |-> TRUE, stock |-> items.stock, label |-> items.label]
             /\ Editing
updateField == /\ \/ \E l \in Labels : edit' = [edit EXCEPT !.label = l]
                  \/ \E n \in Stocks : edit' = [edit EXCEPT !.stock = n]
               /\ Editing
resetForm  == edit' = EMPTY_FORM
cancelEdit == edit.editing /\ resetForm /\ Editing

handleSubmit(c) ==
  /\ page = "management" /\ ~saving
  /\ saving' = TRUE
  /\ Requested(c, IF edit.editing THEN "update" ELSE "create", page, edit.stock, edit.label)
  /\ UNCHANGED <<page, row, items, drinkLoads, edit, smooth>>

\* The form is emptied, whatever is in it by now, and the button comes back after the load.
SubmitAnswered(c) ==
  /\ call[c].kind \in {"update", "create"} /\ TakesAnswer(c)
  /\ IF call[c].stage = "ok"
     THEN resetForm /\ AskForList(TRUE) /\ UNCHANGED saving
     ELSE saving' = FALSE /\ UNCHANGED <<edit, drinkLoads>>

\* Its closure knows whether the beverage was in the form when its deletion was confirmed.
handleDelete(c) == /\ page = "management" /\ items # None
                   /\ Requested(c, "delete", page, 0, IF edit.editing THEN Label0 ELSE None)
                   /\ UNCHANGED <<row, view, smooth>>
DeleteAnswered(c) ==
  /\ call[c].kind = "delete" /\ TakesAnswer(c)
  /\ IF call[c].stage = "ok"
     THEN AskForList(FALSE) /\ IF call[c].label # None THEN resetForm ELSE UNCHANGED edit
     ELSE UNCHANGED <<edit, drinkLoads>>
  /\ UNCHANGED saving

ServerStep(c) == Lock(c) \/ Commit(c) \/ Rollback(c) \/ Create(c)
PageStep(c)   == \/ \E qty \in Quantities : handleSell(c, qty) \/ handleRestock(c, qty)
                 \/ CounterAnswered(c) \/ handleSubmit(c) \/ SubmitAnswered(c)
                 \/ handleDelete(c) \/ DeleteAnswered(c)

StockNext == \/ \E c \in Calls : ServerStep(c) \/ PageStep(c)
             \/ \E c \in Calls, kind \in {"sell", "restock", "adjust", "update", "delete"},
                   qty \in Quantities, label \in Labels : OtherCall(c, kind, qty, label)
             \/ Refresh \/ startEdit \/ updateField \/ cancelEdit
             \/ \E i \in DOMAIN drinkLoads : loadStock(i) \/ loadBeverages(i) \/ StockLoadFails(i)

StockSpec == StockInit /\ [][StockNext]_stockVars

-----------------------------------------------------------------------------
(* Properties.  *)

Drink == [stock: Int, label: Labels, active: BOOLEAN]
StockCall == [stage: {"idle", "sent", "locked", "ok", "failed"},
         kind: {None, "sell", "restock", "update", "delete", "adjust", "create"},
         by: {None, "counter", "management", "other"},
         qty: Int, label: Labels \cup {None}, read: Drink \cup {None}]
StockTypeOK == /\ drink \in Drink
               /\ lockedBy \in Calls \cup {None}
               /\ call \in [Calls -> StockCall]
               /\ ledger \in [sold: Nat, bought: Nat, adjusted: Int]
               /\ page \in {"counter", "management"} /\ items \in Drink \cup {None}
               /\ \A i \in DOMAIN drinkLoads : drinkLoads[i].of \in Drink \cup {None}
               /\ edit \in [editing: BOOLEAN, stock: Nat, label: Labels]
               /\ saving \in BOOLEAN /\ sent \in 0..MaxCalls /\ smooth \in BOOLEAN

\* No update of the stock is lost: whoever sells, restocks, corrects and edits at once, the stock
\* is what the transactions and the audit log say, and never negative.
StockIsTheLedger == /\ drink.stock = FirstStock + ledger.bought - ledger.sold + ledger.adjusted
                    /\ drink.stock >= 0

\* A transaction saves the whole row, but takes along only what its row lock protects: labels
\* change by edits alone, and a deleted beverage is never revived nor sold.
SavesKeepTheRest ==
  [][/\ drink'.label # drink.label => \E c \in Calls : lockedBy = c /\ call[c].kind = "update"
     /\ ~drink.active => ~drink'.active /\ ledger'.sold = ledger.sold]_stockVars

Saving(c) == call[c].by = "management" /\ call[c].kind \in {"update", "create"}

\* A page shows the row again after its own calls, also when several were under way at once, as
\* long as no load was overtaken or failed, no answer was lost and nobody else has written; and
\* the form is saved once at a time, also while the load after a save is under way.
PageFollowsItsCalls ==
  /\ smooth /\ drinkLoads = <<>> /\ (\A c \in Calls : call[c].stage # "ok") => items = Listing(drink)
  /\ \A c, d \in Calls : Saving(c) /\ Saving(d) => c = d
  /\ (\E i \in DOMAIN drinkLoads : drinkLoads[i].forSave) => \A c \in Calls : ~Saving(c)
=============================================================================
