\* Two tabs save, remove and flush two projects while storage, network and pages fail.
SPECIFICATION Spec
CONSTANTS
  p1 = p1
  p2 = p2
  t1 = t1
  t2 = t2
  f1 = f1
  f2 = f2
  Projects = {p1, p2}
  Tabs = {t1, t2}
  Flushes = {f1, f2}
  MaxVersions = 1
  Unreliable = TRUE
  Replays = {FALSE}
  MaxTick = 3
SYMMETRY Interchangeable
CONSTRAINT FewCalls
INVARIANTS
  QueueTellsState
  UndisturbedPushIsCurrent
  NewestVersionsKept
