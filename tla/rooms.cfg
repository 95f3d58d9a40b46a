SPECIFICATION FairChannelSpec
CONSTANTS
  Names <- MCNames
  NoName = NoName
  MaxUserId = 3
  Accounts <- MCAccounts
  SaveResults = {TRUE}
  Sessions = {s1, s2}
  NoSession = NoSession
  Lines <- RoomLines
  ChannelNames = {"room"}
  NoChannel = NoChannel
  Garbage = {0}
  Warnings = 0
PROPERTY
  EveryoneHears
  CommandsFinish
  OwnersAreNotKicked
  ImplementsUsers
