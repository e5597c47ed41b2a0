\* Two refreshes with one token and a challenge answered by several codes, while sessions end in every way.
SPECIFICATION Spec
CONSTANTS
  s1 = s1
  s2 = s2
  r1 = r1
  r2 = r2
  r3 = r3
  c1 = c1
  c2 = c2
  m1 = m1
  m2 = m2
  m3 = m3
  NoCall = NoCall
  Sessions = {s1, s2}
  Refreshes = {r1, r2, r3}
  SessionOf <- FirstSession
  SerialOf <- Serials
  Acks <- AllAcks
  MaxSessions = 1
  Challenges = {c1, c2}
  Submissions = {m1, m2, m3}
  ChallengeOf <- AnswersFirst
  ActorOf <- AskedByFirst
  EntryOf <- EntersSecond
  Kinds <- AllKinds
  MaxAttempts = 2
CONSTRAINT FewCalls
SYMMETRY Interchangeable
INVARIANTS
  TypeOK
  SessionsBounded
  RevokedHoldsNothing
  ExpiryIsTrue
  ChallengeSpentOnce
PROPERTIES
  ImplementsTokenChain
CHECK_DEADLOCK FALSE
