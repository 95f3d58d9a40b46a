SPECIFICATION FairSpec
CONSTANTS
  Names <- MCNames
  NoName = NoName
  MaxUserId = 3
  Accounts <- MCAccounts
  SaveResults = {TRUE}
  Sessions = {s1, s2, s3}
  NoSession = NoSession
  Lines <- ShutdownLines
  ChannelNames = {}
  NoChannel = NoChannel
  Garbage = {0}
  Warnings = 1
INVARIANTS
  NobodyStays
PROPERTIES
  CommandsFinish
  ShutdownCompletes
