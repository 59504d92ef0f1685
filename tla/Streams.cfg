SPECIFICATION MCSpec
CONSTANTS
  ToolIndexes = {t1, t2}
  MaxParts = 5
  None = None
SYMMETRY Symmetry
INVARIANTS
  TypeOK
  MessagesTypeOK
  ViewMatches
  ProseAlone
  EndsClosed
  Exclusive
  OutputInOrder
  NeverFakeCompleted
PROPERTY Implements
\* A stream that has ended stops.
CHECK_DEADLOCK FALSE
