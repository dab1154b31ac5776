SPECIFICATION Spec
CONSTANTS
  w1 = w1
  r1 = r1
  Client <- WriterAndReader
  Writer <- OneClient
  Value <- TwoValues
  NoValue = noValue
  MaxLen = 2
  MaxWords = 5
INVARIANT TypeOK
PROPERTY KeyValuesSpec
