CONSTANTS
  None = None
  Kinds = {"model", "tool", "policy", "toolpolicy"}
  Twice = {"policy"}
  Webhooks = TRUE
  MaxChanges <- ChangesOf
SPECIFICATION Spec
CHECK_DEADLOCK FALSE
INVARIANT PolicyIsNeverMissing
