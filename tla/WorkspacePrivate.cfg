CONSTANTS
  app = app
  lib = lib
  vault = vault
  main = main
  dev = dev
  topic = topic
  None = None
  w1 = w1
  w2 = w2
  Repos = {app, lib, vault}
  BranchesOf <- AppLibVault
  Private = {vault}
  DefaultBranch = main
  Topic = topic
  Work = {w1}
  MaxEdits = 0
  MaxKills = 0
  MaxOutages = 0
SPECIFICATION Spec
CHECK_DEADLOCK FALSE
PROPERTY PrivateRepositoryIsCloned
