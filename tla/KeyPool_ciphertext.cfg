SPECIFICATION Spec
CONSTANTS
  Keys = {k1, k2}
  Requests = {r1}
  NoKey = NoKey
  NoRequest = NoRequest
  NoHealth = NoHealth
  MaxAttempts = 2
  CapFrom = 10
  ProbeEvery = 3
  MaxStep = 2
  BenchMinutes = 3
  Answers = {"200", "400", "401", "403", "429", "5xx", "net", "gone"}
  StoreMayFail = FALSE
SYMMETRY Symmetry
PROPERTIES BadCiphertextIsSkipped
