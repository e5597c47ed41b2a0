\* Each POST delivered twice: two calls of the gateway and two of the adapter race.
SPECIFICATION Spec
CONSTANTS
  d1 = d1
  d2 = d2
  u1 = u1
  u2 = u2
  r1 = r1
  NoUsage = NoUsage
  Requests = {r1}
  Usages = {u1, u2}
  GateCopies = {d1, d2}
  AdaptCopies = {d1, d2}
  Acks <- AllAcks
SYMMETRY Interchangeable
INVARIANTS
  BilledAtMostOnce
