\* One train with two frames, one DELETE request.
CONSTANTS
  TrainIds = {0, 1}
  MaxSessions = 1
  MaxFrames = 2
  MaxClock = 1
  MaxRequests = 1
SPECIFICATION FairSharedSpec
INVARIANT OkMeansUnlinked
PROPERTIES
  RequestAnswered
