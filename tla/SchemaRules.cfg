SPECIFICATION Spec
CONSTANTS
  Names = {"email", "tier", "home", "city"}
  ScopeOf <- MCScopeOf
  Parent <- MCParent
  Apps = {"shop", "blog"}
  First <- MCFirst
  Added <- MCAdded
  Changes <- MCChanges
  AttributeIds = 5
  RuleNames = {"email", "tier"}
  Priorities = {1, 2, 3}
  FirstRules <- MCFirstRules
  RuleChanges <- MCRuleChanges
  RuleIds = 3
  Requests = {r1, r2}
  Arrivals = 3
  Failures = TRUE
  Keep = Keep
SYMMETRY Symmetry
CHECK_DEADLOCK FALSE
INVARIANTS TypeOK RulesOnSchema
PROPERTIES PrioritiesDiffer PatchKeepsTheRest SubAttributesStay
