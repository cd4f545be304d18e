\* A guaranteed queue with room for one message and a real-time one with room
\* for two; three threads log while the logger starts, and is shut down at any
\* moment or never.  Once it is down nothing happens.
SPECIFICATION FairSpec
CONSTANTS
  Producers = {p1, p2, p3}
  QueueCount = 2
  Capacity <- MCCapacity
  MaxMessages = 3
INVARIANTS
  LoggerInv
PROPERTIES
  BacklogIsWritten
  NobodyIsHeldUp
CHECK_DEADLOCK FALSE
