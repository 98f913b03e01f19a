CONSTANTS
  app = app
  lib = lib
  vault = vault
  main = main
  dev = dev
  topic = topic
  None = None
  w1 = w1
  w2 = w2
  Repos = {app, lib, vault}
  BranchesOf <- AppLibVault
  Private = {vault}
  DefaultBranch = main
  Topic = topic
  Work = {w1, w2}
  MaxEdits = 1
  MaxKills = 2
  MaxOutages = 1
SPECIFICATION Spec
CHECK_DEADLOCK FALSE
INVARIANT TypeOK
PROPERTIES OnlyOwnBranchIsReset HomeIsNeverCommitted StartsPrepared ComesUp
