\* Two connections, two streams that cover 12, 15 and 21, and 17 that no one
\* covers; 15 reads as -1 in a ssize_t of 16 values and is not found.
CONSTANTS
  TrainIds = {1, 2}
  Conns = {c1, c2}
  Stored <- MCStored
  Times = {12, 15, 17, 21}
  Arguments <- MCArguments
  FrameUnits = 2
  ReadSizes = {2, 3}
  SsizeSize = 16
SYMMETRY MCSymmetry
SPECIFICATION Spec
INVARIANTS
  TypeOK
  CompleteIsWhole
  FramesAreThoseAskedFor
  AbortNeedsOverlap
PROPERTY DeletedNotServed
