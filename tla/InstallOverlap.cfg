SPECIFICATION Spec
CONSTANTS
  pin = pin
  again = again
  newest = newest
  other = other
  Install = {pin, again, other}
  Engine <- MCEngine
  Version <- MCVersion
  EngineOf <- OverlapEngineOf
  Request <- OverlapRequest
  Signed <- MCSigned
  Versioned <- MCSigned
  MaxActive = 2
  MaxDeaths = 1
  MaxFaults = 0
INVARIANTS
  SignedIsGenuine
  RecordIsTrue
