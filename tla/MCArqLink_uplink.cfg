\* The uplink, unordered, one retry per packet, and an outage of any length.
SPECIFICATION OutageSpec
CONSTANTS
  HalfSpace = 3
  Window = 2
  BitmapBits = 2
  Ordered = FALSE
  Receiver = "BS"
  FeedbackCap = 1
  TxWindow = 2
  MaxRetries = 1
  MaxBurst = 16
  AirCap = 1
  FirstPos = 4
  MaxPackets = 5
  MaxErtm = 0
  Payloads <- MCPayloads
  Packets <- MCPackets
  NoPayload = NoPayload
  NoEntry = NoEntry
PROPERTIES
  WindowOutlastsOutage
