SPECIFICATION Spec
CONSTANTS
  Keys = {wo, ntf}
  ReadableKeys = {wo}
  Ids = {a1, a2, a3, a4}
  NoKey = NoKey
  NoId = NoId
  MaxCalls = 4
  MaxFaults = 2
  MaxStops = 2
INVARIANTS TypeOK SuccessIsOneArtifact DuplicatesExplained
CHECK_DEADLOCK FALSE
