\* Two pages, a handler of scripts, emissions nested twice; pages are
\* dropped by functions of the queue and by handlers of a page's own events.
SPECIFICATION Spec
CONSTANTS
  App = App
  Pages = {p1, p2}
  Functions = {f1}
  start = start
  all = all
  Names = {start}
  PrefixOrder <- OnePrefix
  Covers <- AllCovers
  DropsInside = FALSE
  MaxDepth = 2
  MaxList = 1
  NoHandler = NoHandler
SYMMETRY Symmetry
INVARIANTS NobodySkipped NoStaleFunction PagesHear
