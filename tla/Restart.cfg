\* Two trains per run of the program, two frames each, two clock readings; the
\* program is started again once, and the clock set back once.
CONSTANTS
  TrainIds = {0, 1}
  MaxSessions = 2
  MaxFrames = 2
  MaxClock = 1
  MaxRestarts = 1
  MaxSetBacks = 1
SPECIFICATION RestartSpec
INVARIANT StrayBufferNeedsFailure
PROPERTIES
  LeftBehindUntouched
  RestartsKeepPromise
