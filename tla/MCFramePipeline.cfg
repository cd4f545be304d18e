\* Two producers and two receivers on the two slots of the code; the slots are
\* reused, and the destructor may come at any point.  Nothing is left to do
\* once the pipeline is destroyed.
SPECIFICATION FairSpec
CONSTANTS
  Producers = {p1, p2}
  Receivers = {r1, r2}
  SlotCount = 2
  MaxFrames = 3
  MayStop = TRUE
INVARIANTS
  PipelineInv
PROPERTIES
  QueueImplemented
  NothingIsLeftWaiting
CHECK_DEADLOCK FALSE
