CONSTANTS
  gh = gh
  lark = lark
  s1 = s1
  s2 = s2
  None = None
  Strings <- AllStrings
  Credentials = {gh, lark}
  Secrets = {s1, s2}
  Specs <- AllSpecs
  FirstSpec <- Bare
  Webhooks = FALSE
  MaxEdits = 2
  MaxFaults = 1
SPECIFICATION Spec
CHECK_DEADLOCK FALSE
INVARIANTS TypeOK PodIsCoherent EnvNamesMounts PodFollowsSpec StatusIsExact
PROPERTY ComesToRest
