\* The Worker and the operator settle the same reported usage, with no fault at all.
SPECIFICATION Spec
CONSTANTS
  d1 = d1
  d2 = d2
  u1 = u1
  u2 = u2
  r1 = r1
  NoUsage = NoUsage
  Requests = {r1}
  Usages = {u1, u2}
  GateCopies = {d1}
  AdaptCopies = {d1}
  Acks = {"done"}
PROPERTIES
  RepeatSettlementReturnsReceipt
