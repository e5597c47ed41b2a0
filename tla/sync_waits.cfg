\* One tab, one project, no fault and a backend that commits whatever it accepts: a save during a push.
SPECIFICATION Spec
CONSTANTS
  p1 = p1
  p2 = p2
  t1 = t1
  t2 = t2
  f1 = f1
  f2 = f2
  Projects = {p1}
  Tabs = {t1}
  Flushes = {f1}
  MaxVersions = 1
  Unreliable = FALSE
  Replays = {FALSE}
  MaxTick = 2
INVARIANTS
  ChangesWaitInQueue
