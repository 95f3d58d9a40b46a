SPECIFICATION Spec
CONSTANTS
  Names <- MCNames
  NoName = NoName
  MaxUserId = 2
  Accounts <- MCAccounts
  SaveResults = {TRUE, FALSE}
  NewFlags = {{}}
  Changes <- MCChanges
  Threads = {t1, t2}
  NoFile = NoFile
  Faults = {"open", "full", "crash"}
  Targets = {1, 2}
  MaxKicks = 2
INVARIANTS
  FlatFileTypeOK
  DatabaseConsistent
  RestartKeepsAccounts
  KickIsKnown
SYMMETRY ThreadSymmetry
