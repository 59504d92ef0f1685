SPECIFICATION Spec
CONSTANTS
  Keys = {k1}
  Requests = {r1, r2}
  NoKey = NoKey
  NoRequest = NoRequest
  NoHealth = NoHealth
  MaxAttempts = 2
  CapFrom = 0
  ProbeEvery = 3
  MaxStep = 2
  BenchMinutes = 1
  Answers = {"200", "400", "401", "403", "429", "5xx", "net", "gone"}
  StoreMayFail = TRUE
SYMMETRY Symmetry
INVARIANTS TypeOK LockHeld InflightExact BusyIsBacked
PROPERTIES RestBeforeTrial
