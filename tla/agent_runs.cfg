\* One run delivered twice, with every write unreliable, a repeat of its request, and a rival for the only slot.
SPECIFICATION Spec
CONSTANTS
  c1 = c1
  c2 = c2
  c3 = c3
  d1 = d1
  d2 = d2
  alice = alice
  k1 = k1
  k2 = k2
  Calls = {c1, c2, c3}
  Deliveries = {d1, d2}
  DeliveriesOf <- FirstTwice
  OwnerOf <- OneOwner
  KeyOf <- Keys
  Acks <- AllAcks
  MaxActive = 1
SYMMETRY Interchangeable
INVARIANTS
  OneConsumer
  ActiveRunsBounded
  CompletedWasCharged
PROPERTIES
  RunsEndOnce
  ImplementsPaidRequest
CHECK_DEADLOCK FALSE
