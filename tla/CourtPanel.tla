----------------------------- MODULE CourtPanel -----------------------------
(***************************************************************************)
(* The page of the courts and the price panel on it                        *)
(* (pages/CourtManagementPage.jsx, components/pricing/                     *)
(* CourtPricingRulesPanel.jsx): the page lists the courts and edits one;   *)
(* the panel shows the price rules of the court chosen in it and edits     *)
(* one.  No button is disabled while a call is under way, and a handler    *)
(* goes on after its call with what it knew when it was called.            *)
(*                                                                         *)
(* A court is its base price; a rule is its court and price.  Loads read   *)
(* when they are asked for and may arrive any time later.                  *)
(***************************************************************************)
EXTENDS Naturals, Sequences, FiniteSets, SequencesExt, Web

CONSTANTS
  Courts,      \* the courts
  Rules,       \* bound: numbers of the rules there are at a time
  Prices,      \* prices that are typed
  MaxSaves,    \* bound: calls ever sent
  MaxListings  \* bound: a court is chosen only while fewer loads are under way

ASSUME PanelAssumption == /\ Courts # {} /\ None \notin Courts \cup Rules
                          /\ Rules \subseteq Nat /\ Prices \subseteq Nat /\ MaxSaves \in Nat

VARIABLES
  base,        \* server: base price of each court
  ruleOf,      \* server: the rules
  courtsShown, \* courts: the base prices as last listed, or nothing
  courtForm,   \* editingCourt and formData
  courtId,     \* the court chosen in the panel
  rulesShown,  \* rules: the rules as last listed, with their prices, and their court
  ruleForm,    \* editingRule and form
  saves,       \* calls under way, each with what its handler knows
  listings,    \* loads under way
  made,        \* calls ever sent
  tidy         \* history: no load failed or was overtaken, no answer was lost, no court was
               \* chosen while a call or a load of the panel was under way, and no rule was
               \* picked before the rules of the chosen court had arrived

panelVars == <<base, ruleOf, courtsShown, courtForm, courtId, rulesShown, ruleForm, saves, listings, made, tidy>>

Unmade  == [court |-> None, price |-> 0]
BaseOf(c) == IF courtsShown # <<>> /\ c # None THEN courtsShown[c] ELSE 0
DEFAULT_FORM == [editing |-> None, court |-> None, price |-> 0]
EMPTY_COURT  == [editing |-> None, price |-> 0]
NoRules == [r \in {} |-> 0]
RulesAt(c) == [r \in {q \in Rules : ruleOf'[q].court = c} |-> ruleOf'[r].price]

PanelInit == /\ base \in [Courts -> Prices]
             /\ ruleOf = [r \in Rules |-> Unmade]
             /\ courtsShown = <<>> /\ courtForm = EMPTY_COURT
             /\ courtId = None /\ rulesShown = [of |-> None, rules |-> NoRules]
             /\ ruleForm = DEFAULT_FORM
             /\ saves = {} /\ made = 0
             /\ listings = <<[kind |-> "courts", of |-> None, base |-> base, rules |-> NoRules]>>
             /\ tidy = TRUE

-----------------------------------------------------------------------------
(* Loads.  *)

RulesListing(c) == [kind |-> "rules", of |-> c, base |-> <<>>, rules |-> RulesAt(c)]
CourtsListing    == [kind |-> "courts", of |-> None, base |-> base', rules |-> NoRules]
InTurn(i) == \A j \in 1..(i - 1) : listings[j].kind # listings[i].kind

\* The effect of the panel: the first court is chosen once there are courts, and its rules loaded.
FirstCourt == CHOOSE c \in Courts : TRUE

loadCourts(i) ==
  /\ listings[i].kind = "courts"
  /\ courtsShown' = listings[i].base
  /\ courtId' = IF courtId = None THEN FirstCourt ELSE courtId
  /\ UNCHANGED <<base, ruleOf>>
  /\ listings' = RemoveAt(listings, i) \o (IF courtId = None THEN <<RulesListing(FirstCourt)>> ELSE <<>>)
  /\ tidy' = (tidy /\ InTurn(i))
  /\ UNCHANGED <<courtForm, rulesShown, ruleForm, saves, made>>

\* The rules of whatever court they were asked for are shown.
loadRules(i) ==
  /\ listings[i].kind = "rules"
  /\ rulesShown' = [of |-> listings[i].of, rules |-> listings[i].rules]
  /\ listings' = RemoveAt(listings, i)
  /\ tidy' = (tidy /\ InTurn(i))
  /\ UNCHANGED <<base, ruleOf, courtsShown, courtForm, courtId, ruleForm, saves, made>>

ListingFails(i) == /\ listings' = RemoveAt(listings, i)
                   /\ tidy' = FALSE
                   /\ UNCHANGED <<base, ruleOf, courtsShown, courtForm, courtId, rulesShown, ruleForm, saves, made>>

-----------------------------------------------------------------------------
(* The form of a court.  *)

OnPage == UNCHANGED <<base, ruleOf, courtsShown, courtId, rulesShown, ruleForm, saves, listings, made, tidy>>

startEditCourt(c) == /\ courtsShown # <<>>
                     /\ courtForm' = [editing |-> c, price |-> courtsShown[c]] /\ OnPage
cancelCourt       == courtForm.editing # None /\ courtForm' = EMPTY_COURT /\ OnPage
typeBase(p)       == courtForm' = [courtForm EXCEPT !.price = p] /\ OnPage

Sends(new) == /\ made < MaxSaves /\ made' = made + 1
              /\ saves' = saves \cup {[new EXCEPT !.n = made + 1]}
NoSave == [n |-> 0, kind |-> None, on |-> None, price |-> 0, court |-> None, open |-> None]

\* handleUpdateCourt, handleCreateCourt (the new court is none of these).
submitCourt == /\ courtsShown # <<>>
               /\ Sends([NoSave EXCEPT !.kind = "court", !.on = courtForm.editing, !.price = courtForm.price])
               /\ UNCHANGED <<base, ruleOf, courtsShown, courtForm, courtId, rulesShown, ruleForm, listings, tidy>>

CourtWritten(s) == /\ s.kind = "court"
                   /\ base' = IF s.on = None THEN base ELSE [base EXCEPT ![s.on] = s.price]
                   /\ UNCHANGED ruleOf

\* The form is emptied, whatever is in it by now; the list is loaded again.
courtSaved(s) ==
  /\ CourtWritten(s)
  /\ saves' = saves \ {s}
  /\ courtForm' = EMPTY_COURT
  /\ listings' = Append(listings, CourtsListing)
  /\ UNCHANGED <<courtsShown, courtId, rulesShown, ruleForm, made, tidy>>

-----------------------------------------------------------------------------
(* The panel.  *)

InPanel == UNCHANGED <<base, ruleOf, courtsShown, courtForm, courtId, rulesShown, saves, listings, made>>

\* Wrong: the form keeps the rule of the court before.
chooseCourtKeepingForm(c) ==
  /\ courtsShown # <<>> /\ c # courtId /\ Len(listings) < MaxListings
  /\ courtId' = c
  /\ UNCHANGED <<base, ruleOf>>
  /\ listings' = Append(listings, RulesListing(c))
  /\ tidy' = (tidy /\ (\A s \in saves : s.kind = "court") /\ \A i \in DOMAIN listings : listings[i].kind # "rules")
  /\ UNCHANGED <<courtsShown, courtForm, rulesShown, ruleForm, saves, made>>

\* Choosing a court empties the form and loads its rules.
chooseCourt(c) ==
  /\ courtsShown # <<>> /\ c # courtId /\ Len(listings) < MaxListings
  /\ courtId' = c
  /\ ruleForm' = [DEFAULT_FORM EXCEPT !.court = c, !.price = BaseOf(c)]
  /\ UNCHANGED <<base, ruleOf>>
  /\ listings' = Append(listings, RulesListing(c))
  /\ tidy' = (tidy /\ (\A s \in saves : s.kind = "court") /\ \A i \in DOMAIN listings : listings[i].kind # "rules")
  /\ UNCHANGED <<courtsShown, courtForm, rulesShown, saves, made>>

\* The court a handler knows is the one chosen when it was called.
resetRuleForm(c) == ruleForm' = [DEFAULT_FORM EXCEPT !.court = c, !.price = BaseOf(c)]
newRule == ruleForm.editing # None /\ resetRuleForm(courtId) /\ InPanel /\ UNCHANGED tidy
startEditRule(r) == /\ r \in DOMAIN rulesShown.rules
                    /\ ruleForm' = [editing |-> r, court |-> rulesShown.of, price |-> rulesShown.rules[r]]
                    /\ tidy' = (tidy /\ rulesShown.of = courtId)
                    /\ InPanel
typePrice(p) == ruleForm' = [ruleForm EXCEPT !.price = p] /\ InPanel /\ UNCHANGED tidy

saveRule == /\ courtId # None
            /\ Sends([NoSave EXCEPT !.kind = "rule", !.on = ruleForm.editing, !.price = ruleForm.price,
                                    !.court = courtId])
            /\ UNCHANGED <<base, ruleOf, courtsShown, courtForm, courtId, rulesShown, ruleForm, listings, tidy>>
removeRule(r) == /\ r \in DOMAIN rulesShown.rules
                 /\ Sends([NoSave EXCEPT !.kind = "remove", !.on = r, !.court = courtId, !.open = ruleForm.editing])
                 /\ tidy' = (tidy /\ rulesShown.of = courtId)
                 /\ UNCHANGED <<base, ruleOf, courtsShown, courtForm, courtId, rulesShown, ruleForm, listings>>

RuleWritten(s) == /\ s.kind = "rule"
                  /\ \E r \in Rules :
                       /\ IF s.on = None THEN FirstOf(r, {q \in Rules : ruleOf[q] = Unmade}) ELSE r = s.on /\ ruleOf[r] # Unmade
                       /\ ruleOf' = [ruleOf EXCEPT ![r] =
                            [court |-> IF s.on = None THEN s.court ELSE @.court, price |-> s.price]]
                  /\ UNCHANGED base
RuleGone(s) == /\ s.kind = "remove" /\ ruleOf[s.on] # Unmade
               /\ ruleOf' = [ruleOf EXCEPT ![s.on] = Unmade]
               /\ UNCHANGED base

\* After the call the form is emptied and the rules of the court that was chosen then are loaded.
ruleSaved(s) ==
  /\ RuleWritten(s)
  /\ saves' = saves \ {s}
  /\ resetRuleForm(s.court)
  /\ listings' = Append(listings, RulesListing(s.court))
  /\ UNCHANGED <<courtsShown, courtForm, courtId, rulesShown, made, tidy>>
ruleRemoved(s) ==
  /\ RuleGone(s)
  /\ saves' = saves \ {s}
  /\ IF s.open = s.on THEN resetRuleForm(s.court) ELSE UNCHANGED ruleForm
  /\ listings' = Append(listings, RulesListing(s.court))
  /\ UNCHANGED <<courtsShown, courtForm, courtId, rulesShown, made, tidy>>

\* A call fails or is refused, or its answer is lost: a message.
SaveFails(s) == /\ saves' = saves \ {s}
                /\ \/ UNCHANGED <<base, ruleOf, tidy>>
                   \/ (CourtWritten(s) \/ RuleWritten(s) \/ RuleGone(s)) /\ tidy' = FALSE
                /\ UNCHANGED <<courtsShown, courtForm, courtId, rulesShown, ruleForm, listings, made>>

PanelNext == \/ \E i \in DOMAIN listings : loadCourts(i) \/ loadRules(i) \/ ListingFails(i)
             \/ \E c \in Courts : startEditCourt(c) \/ chooseCourt(c)
             \/ \E p \in Prices : typeBase(p) \/ typePrice(p)
             \/ \E r \in Rules : startEditRule(r) \/ removeRule(r)
             \/ cancelCourt \/ submitCourt \/ newRule \/ saveRule
             \/ \E s \in saves : courtSaved(s) \/ ruleSaved(s) \/ ruleRemoved(s) \/ SaveFails(s)

PanelSpec == PanelInit /\ [][PanelNext]_panelVars

-----------------------------------------------------------------------------
(* Properties.  *)

PanelTypeOK == /\ base \in [Courts -> Nat]
               /\ ruleOf \in [Rules -> [court: Courts \cup {None}, price: Nat]]
               /\ courtsShown = <<>> \/ courtsShown \in [Courts -> Nat]
               /\ courtForm.editing \in Courts \cup {None} /\ courtId \in Courts \cup {None}
               /\ DOMAIN rulesShown.rules \subseteq Rules /\ rulesShown.of \in Courts \cup {None}
               /\ \A r \in DOMAIN rulesShown.rules : rulesShown.rules[r] \in Nat
               /\ ruleForm.editing \in Rules \cup {None}
               /\ made \in 0..MaxSaves /\ tidy \in BOOLEAN

\* The panel is about the court chosen in it: the rules it shows once its loads have arrived are
\* the rules of that court, all of them and at their prices after its own calls, the rule in its form is one of that
\* court, and a new rule starts from that court's form; as long as no court was chosen while a
\* call or a load of the panel was under way, no rule was picked before the rules of the chosen
\* court had arrived, no load failed or was overtaken, and no answer was lost.
PanelIsOfItsCourt ==
  tidy =>
    /\ (\A i \in DOMAIN listings : listings[i].kind # "rules") =>
         /\ rulesShown.of = courtId
         /\ rulesShown.rules = [r \in {q \in Rules : courtId # None /\ ruleOf[q].court = courtId} |-> ruleOf[r].price]
    /\ ruleForm.court \in {None, courtId}
    /\ \A r \in Rules : ruleForm.editing = r => ruleOf[r] = Unmade \/ ruleOf[r].court = courtId
=============================================================================
