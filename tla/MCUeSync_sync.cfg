SPECIFICATION Spec
CONSTANTS
  FrameLen = 4
  TimingAdvance = 1
  Phases = {2}
  AlignWindow = 1
  ResetHold = 1
  FrameCap = 1
  InFlight = 1
  Failures = 1
  Disturbances = 1
INVARIANTS
  UplinkFollowsDownlink
  StartsTogether
PROPERTIES
  CorrectionIsFresh
  Converges
