SPECIFICATION FairSpec
CONSTANTS
  Keys = {k1}
  Requests = {r1, r2}
  NoKey = NoKey
  NoRequest = NoRequest
  NoHealth = NoHealth
  MaxAttempts = 2
  CapFrom = 0
  ProbeEvery = 2
  MaxStep = 1
  BenchMinutes = 1
  Answers = {"200", "429", "net"}
  StoreMayFail = FALSE
PROPERTIES RequestsEnd
