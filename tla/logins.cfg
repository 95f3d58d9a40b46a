SPECIFICATION Spec
CONSTANTS
  Names <- MCNames
  NoName = NoName
  MaxUserId = 3
  Accounts <- MCAccounts
  SaveResults = {TRUE, FALSE}
  Sessions = {s1, s2, s3}
  NoSession = NoSession
  Lines <- LoginLines
  ChannelNames = {}
  NoChannel = NoChannel
  Garbage = {0, 3}
  Warnings = 0
INVARIANTS
  RegistryOK
  OneSessionPerUser
  DatabaseConsistent
  SessionKeepsAccount
  BannedIsOffline
SYMMETRY SessionSymmetry
