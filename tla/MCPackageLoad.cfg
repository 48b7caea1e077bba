\* Two packages opened at any time, of one path or of two.
SPECIFICATION FairSpec
CONSTANTS
  p1 = p1
  p2 = p2
  d1 = d1
  d2 = d2
  Packages = {p1, p2}
  Paths = {d1, d2}
  URIs <- Pairs
  Archives = {"whole", "torn", "bad"}
  MaxCrashes = 1
INVARIANTS RequestOutlivesTask RunsWhole NoTempLeft
PROPERTIES InstalledStays EveryOpenAnswered
CHECK_DEADLOCK FALSE
