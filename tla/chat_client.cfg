\* The chat open in one of two tabs, two accounts, two paid requests.
SPECIFICATION Spec
CONSTANTS
  t1 = t1
  t2 = t2
  u1 = u1
  u2 = u2
  k1 = k1
  k2 = k2
  Guest = Guest
  NoCall = NoCall
  NoKey = NoKey
  NoOp = NoOp
  Void = Void
  NotLoaded = NotLoaded
  Nobody = Nobody
  Tabs = {t1, t2}
  ChatTabs = {t1}
  Users = {u1, u2}
  Keys = {k1, k2}
  MaxTold = 1
  MaxOrphans = 1
CONSTRAINT FewCalls
SYMMETRY Interchangeable
INVARIANTS
  PaidIsRemembered
  SignedOutStaysOut
PROPERTIES
  RepliesStayHome
