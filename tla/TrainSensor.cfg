\* Three changes of the pin within five readings of the clock, two of which are
\* the debounce time, with the clock set back once; the pipes take every byte of
\* the edges and of the stop.
CONSTANTS
  DebounceTime = 2
  MksSize = 16
  PipeCapacity = 4
  MaxEdges = 3
  MaxClock = 6
  MaxSetBacks = 1
SPECIFICATION FairSpec
INVARIANTS
  TypeOK
  QuietChangeNotMissed
  StopNotMissed
PROPERTIES
  QuietChangeReported
  CloseReturns
