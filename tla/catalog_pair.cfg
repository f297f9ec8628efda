SPECIFICATION Spec
CONSTANTS
  d1 = d1
  d2 = d2
  NoRows = NoRows
  NoFile = NoFile
  Torn = Torn
  Dataset <- MCDataset
  MaxIngests = 3
SYMMETRY Alike
INVARIANTS ReadyMeansData RebuildServesOnePair SuccessLeavesOnePair PairInv
