SPECIFICATION Spec
CONSTANTS
  MaxSize = 2
  MaxFileSize = 1
  MaxVersion = 3
INVARIANT LengthsAreLengths
