SPECIFICATION FairSpec
CONSTANTS
  t1 = t1
  t2 = t2
  Tasks = {t1}
  Due <- DueOne
  Loops = {l1}
  Stoppers = {g1, g2}
  MaxTime = 2
  MaxChanged = 1
PROPERTIES
  LoopProgress
CHECK_DEADLOCK FALSE
