SPECIFICATION Spec
CONSTANTS
  FrameLen = 4
  Start = 1
  RestartLead = 1
  Ahead = 1
  Horizon = 5
  Troubles = 2
  Targets = {0, 1}
  PairCap = 1
  BatchLen = 3
  ResetLead = 1
  Distances = {0, 2}
  FrameCap = 1
  LlrCap = 1
  Configurations = {{"sensing"}, {"uplink"}}
  Lag <- MCLag
  Losses = {1, 3}
CHECK_DEADLOCK FALSE
INVARIANTS
  PairedInTime
  OnlyFirstIsOlder
  BoundaryRestored
  UplinkRestored
  AnchorsAgree
