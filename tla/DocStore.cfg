CONSTANTS
  d1 = d1
  w1 = w1
  w2 = w2
  Docs = {d1}
  Writers = {w1, w2}
  Hashes = {1, 2}
  MaxGen = 3
  MaxSeq = 3
  HistCap = 2
  MaxRevs = 4
  SerialRevs = 4
  RaceRevs = 3
SPECIFICATION MCSpec
SYMMETRY Symmetry
CHECK_DEADLOCK FALSE
INVARIANTS
  FeedCovers AckedNotLost IInv
  SerialWinnerRule SerialIndicesExact SerialWinnerOfAccepted SerialRevsDiffKnowsLeaves
PROPERTIES FeedMovesOn SerialEditExtendsLeaf
