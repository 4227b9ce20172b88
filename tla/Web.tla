--------------------------------- MODULE Web ---------------------------------
(***************************************************************************)
(* What the modules of the web application share.                          *)
(***************************************************************************)
EXTENDS Naturals

CONSTANT None  \* no account, no request, no day, no slot, nothing shown

\* Calls, requests and entries are numbered; what is new takes the first number that is free.
FirstOf(x, free) == x \in free /\ \A y \in free : x <= y
=============================================================================
