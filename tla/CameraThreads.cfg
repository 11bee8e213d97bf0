\* Three frames, one more session started, four readings of the clock in two
\* seconds.  Without a train or a frame, both threads wait.
CONSTANTS
  MaxFrames = 3
  MaxStarts = 1
  MaxClock = 3
  SecondSize = 2
SPECIFICATION Spec
INVARIANTS
  TypeOK
  SettledFramesCopied
  OneFrameAtRisk
  TimeWasRead
PROPERTY ImplementsFrameQueue
CHECK_DEADLOCK FALSE
