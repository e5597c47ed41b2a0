\* One request through the chain, each POST delivered once, every write and answer unreliable.
SPECIFICATION Spec
CONSTANTS
  d1 = d1
  d2 = d2
  u1 = u1
  u2 = u2
  r1 = r1
  NoUsage = NoUsage
  Requests = {r1}
  Usages = {u1, u2}
  GateCopies = {d1}
  AdaptCopies = {d1}
  Acks <- AllAcks
SYMMETRY Interchangeable
INVARIANTS
  TypeOK
  RefundedNeverBilled
  SettledAsBilled
  EvidenceRecoverable
  ReplyMatchesHold
PROPERTIES
  RecordsFinal
  ImplementsPaidRequest
