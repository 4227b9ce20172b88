----------------------------- MODULE LatestAnswer -----------------------------
(***************************************************************************)
(* What a view promises that loads the data of whatever it is asked for:   *)
(* it shows nothing, or goes on showing what it showed, until it shows     *)
(* what it was asked for last.                                             *)
(***************************************************************************)
CONSTANTS Queries, Nothing
VARIABLES wanted, shown

Init == wanted = Nothing /\ shown = Nothing

\* The view is opened or closed, or asked for something else.
Ask == wanted' \in Queries \cup {Nothing} /\ shown' \in {shown, Nothing}

\* An answer is shown, or that there is none.
Show == wanted # Nothing /\ shown' \in {wanted, Nothing} /\ UNCHANGED wanted

Spec == Init /\ [][Ask \/ Show]_<<wanted, shown>>
=============================================================================
