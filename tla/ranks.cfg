SPECIFICATION FairSpec
CONSTANTS
  Names <- MCNames
  NoName = NoName
  MaxUserId = 3
  Accounts <- RankAccounts
  SaveResults = {TRUE, FALSE}
  Sessions = {s1, s2}
  NoSession = NoSession
  Lines <- RankLines
  ChannelNames = {}
  NoChannel = NoChannel
  Garbage = {0}
  Warnings = 1
INVARIANTS
  NoEscalation
  TypeOK
PROPERTIES
  CommandsFinish
