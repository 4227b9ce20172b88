------------------------------ MODULE MCCourts ------------------------------
(***************************************************************************)
(* The rules of a court and the slots of one of its days in one instance.  *)
(* PriceRules has the table of rules as administrators write it,           *)
(* CourtSchedule what views and repricings read of it; a behaviour is one  *)
(* of either module, chosen at the start, while the other rests in an      *)
(* initial state.                                                          *)
(***************************************************************************)
EXTENDS MCPriceRules, MCCourtSchedule

VARIABLE part   \* the module that runs

CourtsInit == /\ part \in {"rules", "schedule"}
              /\ RulesInit
              /\ Init
              /\ \/ part = "schedule"
                 \/ /\ \A h \in Hours : court.hours.open <= h.open
                    /\ \A p \in BasePrices : court.base <= p

CourtsNext == /\ UNCHANGED part
              /\ \/ part = "rules" /\ RulesNext /\ UNCHANGED vars
                 \/ part = "schedule" /\ Next /\ UNCHANGED ruleVars

CourtsSpec == CourtsInit /\ [][CourtsNext]_<<part, ruleVars, vars>>

CourtsSymmetry == AdminSymmetry \cup RequestSymmetry
=============================================================================
