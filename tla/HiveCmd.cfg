SPECIFICATION Spec
CONSTANTS
  h1 = h1
  h2 = h2
  NULL = null
  Handle <- TwoHandles
  MaxSize = 2
SYMMETRY Symmetry
CHECK_DEADLOCK FALSE
INVARIANT TypeOK
INVARIANT OneConnection
INVARIANT ReasonIsOwn
INVARIANT TerminatorInBounds
