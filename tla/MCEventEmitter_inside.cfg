\* The same, with pages dropped by a handler while the app emits.
SPECIFICATION Spec
CONSTANTS
  App = App
  Pages = {p1, p2}
  Functions = {f1}
  start = start
  all = all
  Names = {start}
  PrefixOrder <- OnePrefix
  Covers <- AllCovers
  DropsInside = TRUE
  MaxDepth = 2
  MaxList = 1
  NoHandler = NoHandler
SYMMETRY Symmetry
INVARIANT DestroyedOnce
