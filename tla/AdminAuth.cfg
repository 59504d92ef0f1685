SPECIFICATION Spec
CONSTANTS
  Calls = {c1, c2}
  Sources = {s1}
  Passwords = {a, b}
  Trimmed = {a, b}
  Env = a
  NoOverride = NoOverride
  Tokens = {t1, t2}
  NoToken = NoToken
  AttemptLimit = 1
  AttemptWindow = 1
  Lifetime = 1
  LastTick = 1
SYMMETRY Symmetry
INVARIANTS TypeOK SessionsAreCurrent MemoryMatchesSettings
PROPERTIES FailuresAreLimited
