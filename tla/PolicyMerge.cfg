CONSTANTS
  x = x
  y = y
  Wildcard = Wildcard
  NoRule = NoRule
  Names = {x, y, Wildcard}
  PolicySpecs <- SomePolicies
  ToolPolicySpecs <- SomeToolPolicies
  MaxPolicies = 3
  MaxToolPolicies = 2
SPECIFICATION Spec
CHECK_DEADLOCK FALSE
INVARIANTS TypeOK MergeMeansAll
PROPERTIES PolicyOnlyNarrows FirstNamedRuleDecides
