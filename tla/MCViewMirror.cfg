\* A page's view, which scrolls, and two others; up to two commands are in
\* flight when a call adds its own.
SPECIFICATION Spec
CONSTANTS
  root = root v1 = v1 v2 = v2
  top = top bottom = bottom
  Views = {root, v1, v2}
  Roots = {root}
  Scrollers = {root}
  Offsets = {top, bottom}
  Start = top
  MaxCommands = 2
  MaxReports = 1
  NoView = NoView
  Screen = Screen
SYMMETRY Symmetry
INVARIANTS Mirrored NothingIgnored NoGhosts OffsetsAgree
CHECK_DEADLOCK FALSE
