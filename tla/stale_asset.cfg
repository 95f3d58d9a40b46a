SPECIFICATION EagerSpec
CONSTANTS
  MaxVersion = 2
  MaxChunks = 2
  InFlight = 1
  Faults = {}
PROPERTIES
  BecomesCurrent
