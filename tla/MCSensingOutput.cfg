SPECIFICATION MCSpec
CONSTANTS
  ChannelCount = 2
  NumSymbols = 6
  Training = 5
  CombRows <- Rows
  BatchLen = 2
  FirstStride = 4
  PairCap = 1
  QueueCap = 2
  MaxPending = 2
  ResetLead = 1
  Skipped = 1
  Strides = {1, 3}
  Skips = {TRUE, FALSE}
  MaxFrames = 3
  MaxEvents = 2
INVARIANTS
  TrainingIsNeverSensed
  InStep
PROPERTIES
  OnlyTheLateLose
CHECK_DEADLOCK FALSE
