\* Two train-in events, two frames per session, three clock readings.
CONSTANTS
  TrainIds = {0, 1, 2}
  MaxSessions = 2
  MaxFrames = 2
  MaxClock = 2
SPECIFICATION Spec
INVARIANTS
  TypeOK
  PublishedRowsContiguous
  AtMostOneFrameLost
  OneWriterPerDirectory
  NameOutlivesSession
PROPERTY ImplementsRecorder
