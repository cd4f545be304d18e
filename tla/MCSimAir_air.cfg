SPECIFICATION Spec
CONSTANTS
  RingCapacity = 2
  FrameLen = 2
  ChunkMax = 2
  RecvLen = 2
  StartLead = 1
  Horizon = 5
  StartTimes = {2, 4}
  CommandLimit = 1
  UlErrors = 1
INVARIANTS
  HeardWhenAired
  StampIsAirTime
PROPERTIES
  SentOnTime
  AirKeepsMoving
