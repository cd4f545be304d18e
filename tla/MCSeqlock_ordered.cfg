\* x86: program order kept; three stores, two readers, the counter never wraps.
SPECIFICATION SeqlockSpec
CONSTANTS
  Slots = {0, 1}
  Readers = {r1, r2}
  SeqValues = 64
  MaxStores = 3
  InOrder = TRUE
SYMMETRY ReaderSymmetry
INVARIANTS
  SnapshotIsSound
