\* A long of 16 values in numbers of 64: offsets of up to four times the range
\* of a long, the upper ones being what a negative offset becomes.
CONSTANTS
  QuadSize = 64
  LongSize = 16
  FirstTime = 3
  LastTime = 7
  Indices <- MCIndices
  Offsets <- MCOffsets
SPECIFICATION Spec
INVARIANTS
  TypeOK
  SearchRight
