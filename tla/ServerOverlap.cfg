CONSTANTS
  TrainIds = {1, 2}
  Conns = {c1, c2}
  Stored <- MCStored
  Times = {12, 15, 17, 21}
  Arguments <- MCArguments
  FrameUnits = 2
  ReadSizes = {2, 3}
  SsizeSize = 16
SPECIFICATION Spec
INVARIANT AssertionHolds
