SPECIFICATION Spec
CONSTANTS
  Names <- MCNames
  NoName = NoName
  MaxUserId = 3
  Accounts <- MCAccounts
  SaveResults = {TRUE}
  Sessions = {s1, s2, s3}
  NoSession = NoSession
  Lines <- LoginLines
  ChannelNames = {}
  NoChannel = NoChannel
  Garbage = {0, 1, 3}
  Warnings = 0
INVARIANT
  OnlyOneSessionPerUser
