SPECIFICATION Spec
CONSTANTS
  Configs <- MCConfigs
  PacketSizes = {1, 2, 6}
  ControlSymbols = 2
  BlockBits = 4
  QueueCap = 2
  Tries = 2
INVARIANTS
  ReferencesStay
  CombIsRecognised
PROPERTIES
  PacketsComeBack
  QueueMoves
