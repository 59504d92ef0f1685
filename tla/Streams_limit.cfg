SPECIFICATION MCSpec
CONSTANTS
  ToolIndexes = {t1}
  MaxParts = 2
  None = None
INVARIANT LimitIsNotSuccess
\* A stream that has ended stops.
CHECK_DEADLOCK FALSE
