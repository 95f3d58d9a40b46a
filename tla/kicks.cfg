SPECIFICATION ChannelSpec
CONSTANTS
  Names <- MCNames
  NoName = NoName
  MaxUserId = 3
  Accounts <- MCAccounts
  SaveResults = {TRUE}
  Sessions = {s1, s2, s3}
  NoSession = NoSession
  Lines <- KickLines
  ChannelNames = {"room"}
  NoChannel = NoChannel
  Garbage = {0}
  Warnings = 0
INVARIANTS
  ChannelTypeOK
  KickedStaysOut
  OneAtATime
  NoCircularWait
PROPERTIES
  ListKeepsStill
SYMMETRY SessionSymmetry
