SPECIFICATION Spec
CONSTANTS
  Keys = {k1}
  Requests = {r1, r2}
  NoRequest = NoRequest
  NoCell = NoCell
  Policies <- MixedPolicies
  DayLength = 2
  LastMinute = 2
SYMMETRY Symmetry
INVARIANTS TypeOK CountsMatch
PROPERTIES OvershootNeedsStraggler
