SPECIFICATION FairSpec
CONSTANTS
  Lengths = {0, 1, 4}
  Chunk = 2
  Largest = 3
  Room = 2
  MaxSent = 2
  MaxAnswered = 1
  Faults = TRUE
INVARIANTS
  BytesAccounted
PROPERTIES
  TrafficArrives
  EndedRelayNoticed
  QuietRelayEnds
CHECK_DEADLOCK FALSE
