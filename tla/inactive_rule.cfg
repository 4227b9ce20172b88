\* One administrator creates and changes up to two rules, one after the other.
SPECIFICATION RulesSpec
CONSTANTS
  Admins = {a1}
  Forms <- SmallForms
  MaxRules = 2
  Dates <- SmallDates
  Clocks <- SmallClocks
  BasePrice = 1
  DefaultPriority = 1
INVARIANTS
  RulesNeverContradict
