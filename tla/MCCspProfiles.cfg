SPECIFICATION Spec
CHECK_DEADLOCK FALSE
CONSTANTS
  Jobs = {j1, j2, j3}
  Targets = {"t1", "t2"}
  Pems = {"c1", "c2"}
  Passwords = {"w1", "w2"}
  NoPassword = "-"
  Commands <- MCCommands
  Created <- MCCreated
  Free = Free
  None = None
  MaxFaults = 1
INVARIANTS
  CredentialsTogether
  MetadataAgrees
  DeadlockNeedsDelete
