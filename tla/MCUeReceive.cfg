SPECIFICATION Spec
CONSTANTS
  Demodulators = 2
  Decoders = 1
  Depth = 1
  FrameCap = 1
  SensingCap = 1
  LlrCap = 1
  Payloads = {TRUE}
  Frames = 3
  Troubles = 1
INVARIANTS
  BuffersSuffice
  MeasurementIsOwed
PROPERTIES
  InFrameOrder
  EverythingEnds
