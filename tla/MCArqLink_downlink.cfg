\* The downlink with ordered delivery and unlimited retries; an eRTM report may
\* share its numbers.  Safety and progress.
SPECIFICATION FairSpec
CONSTANTS
  HalfSpace = 4
  Window = 2
  BitmapBits = 3
  Ordered = TRUE
  Receiver = "UE"
  FeedbackCap = 1
  TxWindow = 2
  MaxRetries = 0
  MaxBurst = 1
  AirCap = 2
  FirstPos = 6
  MaxPackets = 3
  MaxErtm = 1
  Payloads <- MCPayloads
  Packets <- MCPackets
  NoPayload = NoPayload
  NoEntry = NoEntry
INVARIANTS
  SelectivelyAckedAreBuffered
PROPERTIES
  AcceptedIsKept
  AckedIsSettled
  NewestIsAccepted
  DeliveryImplemented
  LinkDrains
