SPECIFICATION Spec
CONSTANTS
  t1 = t1
  t2 = t2
  Tasks = {t1, t2}
  Due <- DueTwo
  Loops = {l1, l2}
  Stoppers = {g1, g2}
  MaxTime = 2
  MaxChanged = 1
SYMMETRY Symmetry
INVARIANTS
  LoopSound
PROPERTIES
  NoDoubleRun
CHECK_DEADLOCK FALSE
