SPECIFICATION TrafficSpec
CONSTANTS
  Keys = {k1, k2}
  Requests = {r1, r2}
  NoKey = NoKey
  NoRequest = NoRequest
  NoHealth = NoHealth
  MaxAttempts = 2
  CapFrom = 0
  ProbeEvery = 2
  MaxStep = 1
  BenchMinutes = 1
  Answers = {"200", "401", "429", "net"}
  StoreMayFail = FALSE
SYMMETRY Symmetry
INVARIANTS NoKeyTwice
PROPERTIES NormalPickWasProven OnlySuccessRestores RestartKeepsVerdicts
