CONSTANTS
  t1 = t1
  t2 = t2
  o1 = o1
  o2 = o2
  o3 = o3
  a1 = a1
  a2 = a2
  b1 = b1
  m1 = m1
  m2 = m2
  c1 = c1
  wa = wa
  wb = wb
  wm = wm
  NoObject = NoObject
  Nowhere = Nowhere
  Threads = {t1, t2}
  Objects = {o1, o2, o3}
  Strongs = {a1, a2, b1, c1, m1, m2}
  Weaks = {wa, wb, wm}
  Layouts <- CompositeLayouts
SPECIFICATION Spec
INVARIANT
  DeallocOnce
CHECK_DEADLOCK FALSE
