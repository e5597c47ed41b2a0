\* Two decisions on one approval, two workers for its step, and a second step of the run.
SPECIFICATION Spec
CONSTANTS
  s1 = s1
  s2 = s2
  a1 = a1
  a2 = a2
  a3 = a3
  i1 = i1
  i2 = i2
  d1 = d1
  d2 = d2
  d3 = d3
  d4 = d4
  u1 = u1
  u2 = u2
  u3 = u3
  u4 = u4
  NoStep = NoStep
  Steps = {s1, s2}
  Approvals = {a1, a2, a3}
  Inputs = {i1, i2}
  BoundTo <- Bindings
  Shown <- ShownInputs
  Decisions = {d1, d2, d3, d4}
  On <- OnApprovals
  Verdict <- Verdicts
  Uses = {u1, u2, u3, u4}
  Via <- ViaApprovals
  ToRun <- StepsToRun
  With <- WithInputs
  Acks <- AllAcks
SYMMETRY Interchangeable
INVARIANTS
  SuccessIsTrue
  ExecutesWhatWasApproved
CHECK_DEADLOCK FALSE
