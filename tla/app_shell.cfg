SPECIFICATION Spec
CONSTANTS
  Core <- MCCore
  Extra <- MCExtra
  CacheFirst <- MCCacheFirst
  MaxRelease = 2
  Pages <- MCPages
  Home = "index"
  ShellPages <- MCShellPages
  Modules <- MCModules
  Sections <- MCSections
  Toasts <- MCToasts
  m1 = m1
  m2 = m2
  m3 = m3
CONSTRAINT TakeTurns
SYMMETRY Interchangeable
INVARIANTS
  RegistryIsAnnounced
  AvailableOffline
