---------------------------- MODULE MCPriceRules ----------------------------
(* PriceRules over two days and two hours, with rules that overlap in a    *)
(* weekday, an hour or a range of dates only.                              *)
EXTENDS PriceRules

\* A rule for the days, from start up to end, within the dates first to last.
Form(days, start, end, price, priority, first, last, active) ==
  [id |-> 0, days |-> days, start |-> start, end |-> end, price |-> price,
   priority |-> priority, first |-> first, last |-> last, active |-> active]

SmallForms ==
  { Form({0, 1}, 1, 3, 2, 0, Unlimited, Unlimited, TRUE),
    Form({0}, 1, 2, 3, 2, 0, 7, TRUE),
    Form({0}, 2, 3, 4, 1, 7, Unlimited, TRUE),
    Form({0}, 1, 2, 6, 0, Unlimited, Unlimited, FALSE) }

AdminSymmetry == Permutations(Admins)

SmallDates == {0, 7}
SmallClocks == {0, 1, 2}
=============================================================================
