SPECIFICATION Spec
CONSTANTS
  MaxVersion = 3
  MaxChunks = 3
  InFlight = 2
  Faults = {"close", "reset", "crash"}
INVARIANTS
  AssetTypeOK
  NeverOlder
PROPERTIES
  IsDownloaded
