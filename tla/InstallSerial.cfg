SPECIFICATION Spec
CONSTANTS
  pin = pin
  again = again
  newest = newest
  other = other
  Install = {pin, again, newest, other}
  Engine <- MCEngine
  Version <- MCVersion
  EngineOf <- SerialEngineOf
  Request <- SerialRequest
  Signed <- MCSigned
  Versioned <- MCSigned
  MaxActive = 1
  MaxDeaths = 1
  MaxFaults = 1
PROPERTIES
  EndsAsReported
  PinsKept
