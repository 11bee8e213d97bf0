CONSTANTS
  TrainIds = {0, 1}
  MaxSessions = 1
  MaxFrames = 2
  MaxClock = 1
SPECIFICATION Spec
INVARIANT CorrectTermination
