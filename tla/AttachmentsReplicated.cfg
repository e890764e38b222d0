CONSTANTS
  d1 = d1
  d2 = d2
  n1 = n1
  n2 = n2
  x1 = x1
  x2 = x2
  w1 = w1
  w2 = w2
  None = None
  Docs = {d1}
  Names = {n1, n2}
  Digests = {x1}
  Writers = {w1}
  Deliveries <- FewAttachments
  MaxRef = 3
  MaxPrefix = 0
SPECIFICATION Spec
SYMMETRY Symmetry
CHECK_DEADLOCK FALSE
INVARIANT PersistDespiteTwice
