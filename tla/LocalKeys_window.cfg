SPECIFICATION Spec
CONSTANTS
  Keys = {k1}
  Requests = {r1, r2}
  NoRequest = NoRequest
  NoCell = NoCell
  Policies <- OneEach
  DayLength = 2
  LastMinute = 2
SYMMETRY Symmetry
PROPERTIES WindowLimit
