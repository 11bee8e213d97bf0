\* Three rows, times of two digits: in the first row, in the last, between two,
\* and behind all of them.  The writer ends and the reader may wait for requests.
CONSTANTS
  Rows <- MCRows
  EndDigits = 2
  Times = {11, 25, 40, 50}
SPECIFICATION Spec
INVARIANTS
  TypeOK
  OnlyLastRowCut
  FoundRowStays
  ClosedIndexServed
