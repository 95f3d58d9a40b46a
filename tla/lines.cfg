SPECIFICATION Spec
CONSTANTS
  IniFiles <- MCIniFiles
  MAX_LINE_LENGTH = 5
  Texts <- MCTexts
  MaxLines = 2
  Handlers <- MCHandlers
  Leftovers <- MCLeftovers
INVARIANTS
  LineTypeOK
  ArriveIntact
  FirstWordDispatches
  SettingsAsWritten
CHECK_DEADLOCK FALSE
