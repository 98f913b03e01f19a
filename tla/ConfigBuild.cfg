CONSTANTS
  None = None
  Kinds = {"credential", "model", "skill", "toolset", "member"}
  Twice = {"skill", "runtime", "reader"}
  Webhooks = FALSE
  MaxChanges <- ChangesOf
SPECIFICATION Spec
CHECK_DEADLOCK FALSE
INVARIANTS TypeOK StatusIsCurrent RuntimeRunsCurrentConfig HashIsNotAhead
PROPERTY ComesToRest
