CONSTANTS
  Elements = {e1, e2, e3, e4, e5}
  Nil = Nil
SYMMETRY ElementSymmetry
SPECIFICATION Spec
INVARIANTS
  LinksAgree
  NoLeak
PROPERTY
  ImplementsForest AdriftByLoss
CHECK_DEADLOCK FALSE
