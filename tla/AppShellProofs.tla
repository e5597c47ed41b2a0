---------------------------- MODULE AppShellProofs ----------------------------
(***************************************************************************)
(* Proofs about AppShell for any assets, pages, modules and number of      *)
(* releases.  The caches and the module registry share no variable, so     *)
(* each has an inductive invariant of its own: a worker that has taken     *)
(* over still has the cache it filled, and the registry is what was        *)
(* announced and what is being initialised.                                *)
(***************************************************************************)
EXTENDS AppShell, WellFoundedInduction, SequenceTheorems, TLAPS

Writes == [cache : Releases, asset : Assets, from : Releases]

CacheTypes ==
  /\ release \in Releases
  /\ caches \in [Releases -> [Assets -> Nat]]
  /\ order \in Seq(Releases)
  /\ installing \in Releases \cup {0} /\ active \in Releases \cup {0}
  /\ activating \in BOOLEAN
  /\ puts \subseteq Writes

\* The cache of an install that is under way is there, unless it was deleted.
InstallHasCache == installing \notin {0} \cup deleted => Contains(order, installing)

\* The cache of the active worker is there and has the whole site, unless it was deleted.
ActiveHasCache ==
  active \notin {0} \cup deleted =>
    Contains(order, active) /\ \A a \in Core : caches[active][a] # 0

CacheInv == CacheTypes /\ InstallHasCache /\ ActiveHasCache

RegistryInv == running \in Seq(Modules) /\ RegistryIsAnnounced

-----------------------------------------------------------------------------
(* Caches *)

LEMMA OpenedKeeps ==
  ASSUME order \in Seq(Releases), NEW name \in Releases
  PROVE  /\ Opened(name) \in Seq(Releases)
         /\ Contains(Opened(name), name)
         /\ \A r : Contains(order, r) => Contains(Opened(name), r)
<1>1. CASE Contains(order, name) BY <1>1 DEF Opened
<1>2. CASE ~Contains(order, name)
  <2>1. /\ Opened(name) = Append(order, name)
        /\ Len(Opened(name)) = Len(order) + 1
        /\ Opened(name)[Len(order) + 1] = name
        /\ \A i \in 1 .. Len(order) : Opened(name)[i] = order[i]
        /\ Len(order) \in Nat
    BY <1>2 DEF Opened
  <2> QED BY <2>1 DEF Contains
<1> QED BY <1>1, <1>2

LEMMA CacheInitially == Init => CacheInv
<1> SUFFICES ASSUME Init PROVE CacheInv OBVIOUS
<1>1. 1 \in Releases BY ReleaseAssumption DEF Releases
<1>2. Empty \in [Assets -> Nat] BY DEF Empty
<1>3. /\ release = 1 /\ order = <<>> /\ caches = [r \in Releases |-> Empty]
      /\ installing = 0 /\ active = 0 /\ activating = FALSE /\ puts = {}
  BY DEF Init, WorkerInit
<1>4. caches \in [Releases -> [Assets -> Nat]] /\ order \in Seq(Releases) BY <1>2, <1>3
<1> QED BY <1>1, <1>3, <1>4 DEF CacheInv, CacheTypes, InstallHasCache, ActiveHasCache

\* The site and the network move, and writes are asked for or lost: no cache changes.
LEMMA OutsideKeeps ==
  ASSUME CacheInv, UNCHANGED cacheVars, release' \in Releases, puts' \subseteq Writes
  PROVE  CacheInv'
BY DEF CacheInv, CacheTypes, InstallHasCache, ActiveHasCache, cacheVars, Contains, Writes,
       Releases, Assets

LEMMA FetchedTypes ==
  ASSUME CacheInv, NEW a \in Assets, active # 0, Fetched(a)
  PROVE  puts' \subseteq Writes
BY DEF CacheInv, CacheTypes, Fetched, Writes

LEMMA OpenKeeps == ASSUME CacheInv, NEW d \in Pages, Open(d) PROVE CacheInv'
<1>1. d \in Assets BY PagesAssumption DEF Assets
<1>2. puts' \subseteq Writes
  BY <1>1, FetchedTypes DEF Open, CacheInv, CacheTypes
<1>3. UNCHANGED cacheVars /\ release' \in Releases BY DEF Open, CacheInv, CacheTypes
<1> QED BY <1>2, <1>3, OutsideKeeps

LEMMA WorkerKeeps == ASSUME CacheInv, WorkerStep PROVE CacheInv'
<1> USE DEF CacheInv, CacheTypes, InstallHasCache, ActiveHasCache
<1>1. CASE Deploy
  <2>1. release' \in Releases BY <1>1, ReleaseAssumption DEF Deploy, Releases
  <2> QED BY <1>1, <2>1, OutsideKeeps DEF Deploy
<1>2. CASE Install
  <2>1. /\ order' \in Seq(Releases) /\ Contains(order', release)
        /\ \A r : Contains(order, r) => Contains(order', r)
    BY <1>2, OpenedKeeps DEF Install
  <2>2. release # 0 BY DEF Releases
  <2> QED BY <1>2, <2>1, <2>2 DEF Install
<1>3. CASE Installed
  <2>1. caches' \in [Releases -> [Assets -> Nat]]
    BY <1>3 DEF Installed, Releases
  <2>2. installing \notin deleted =>
          Contains(order, installing) /\ \A a \in Core : caches'[installing][a] # 0
    BY <1>3 DEF Installed, Releases, Assets
  <2> QED BY <1>3, <2>1, <2>2 DEF Installed
<1>4. CASE InstallFails BY <1>4 DEF InstallFails
<1>5. CASE Activate
  <2>1. CASE active = 0
    <3>1. order' \in Seq(Releases) /\ caches' \in [Releases -> [Assets -> Nat]]
      BY <1>5 DEF Activate, Empty, Contains
    <3> QED BY <1>5, <2>1, <3>1 DEF Activate
  <2>2. CASE active \in Releases
    <3>1. order' \in Seq(Releases) /\ caches' \in [Releases -> [Assets -> Nat]]
      BY <1>5, <2>2 DEF Activate, Empty
    <3>2. Contains(order, active) => Contains(order', active)
      BY <1>5, <2>2 DEF Activate, Contains
    <3>3. caches'[active] = caches[active] BY <1>5, <2>2 DEF Activate
    <3> QED BY <1>5, <2>2, <3>1, <3>2, <3>3 DEF Activate
  <2> QED BY <2>1, <2>2
<1>6. ASSUME NEW p \in puts, Put(p) PROVE CacheInv'
  <2>1. p.cache \in Releases /\ p.asset \in Assets /\ p.from \in Nat \ {0}
    BY DEF Writes, Releases
  <2>2. /\ order' \in Seq(Releases)
        /\ \A r : Contains(order, r) => Contains(order', r)
    BY <1>6, <2>1, OpenedKeeps DEF Put
  <2>3. /\ caches' \in [Releases -> [Assets -> Nat]]
        /\ \A r \in Releases, a \in Assets : caches[r][a] # 0 => caches'[r][a] # 0
    BY <1>6, <2>1 DEF Put
  <2> QED BY <1>6, <2>2, <2>3 DEF Put, Assets
<1>7. ASSUME NEW p \in puts, PutLost(p) PROVE CacheInv'
  BY <1>7, OutsideKeeps DEF PutLost
<1> QED BY <1>1, <1>2, <1>3, <1>4, <1>5, <1>6, <1>7 DEF WorkerStep

LEMMA CacheStep == CacheInv /\ [Next]_vars => CacheInv'
<1> SUFFICES ASSUME CacheInv, [Next]_vars PROVE CacheInv' OBVIOUS
<1>1. ASSUME PageStep PROVE CacheInv'
  <2>1. ASSUME NEW r \in DOMAIN Routes, Navigate(r) PROVE CacheInv'
    <3>1. CASE r \in Enabled /\ Open(Routes[r])
      <4>1. Routes[r] \in Pages BY <3>1, RoutesAssumption
      <4> QED BY <3>1, <4>1, OpenKeeps
    <3>2. CASE Unavailable
      BY <3>2, OutsideKeeps DEF Unavailable, workerVars, CacheInv, CacheTypes
    <3> QED BY <2>1, <3>1, <3>2 DEF Navigate
  <2>2. ASSUME NEW d \in Pages, Visit(d) PROVE CacheInv'
    BY <2>2, OpenKeeps DEF Visit
  <2>3. CASE UNCHANGED workerVars
    BY <2>3, OutsideKeeps DEF workerVars, CacheInv, CacheTypes
  <2>4. CASE HandleAction
    <3>1. doc \in Pages BY <2>4, PagesAssumption DEF HandleAction, Started, Shell
    <3> QED BY <2>1, <2>2, <2>3, <2>4, <3>1 DEF HandleAction, Scroll, UnknownAction
  <2> QED
    BY <1>1, <2>1, <2>2, <2>3, <2>4
    DEF PageStep, Initialize, Frame, ThrottleTimer, Dismiss, ToastTimer, Faded, Scroll, Resize,
        RegisterModule, InitReturns, InitThrows
<1>2. ASSUME NetworkChange PROVE CacheInv'
  BY <1>2, OutsideKeeps DEF NetworkChange, Connect, CacheInv, CacheTypes
<1>3. ASSUME NEW a \in Assets, Fetch(a) PROVE CacheInv'
  <2>1. puts' \subseteq Writes BY <1>3, FetchedTypes DEF Fetch
  <2> QED BY <1>3, <2>1, OutsideKeeps DEF Fetch, CacheInv, CacheTypes
<1>4. CASE UNCHANGED vars
  BY <1>4, OutsideKeeps DEF vars, workerVars, CacheInv, CacheTypes
<1> QED BY <1>1, <1>2, <1>3, <1>4, WorkerKeeps DEF Next

\* Among the caches that have an asset one is the oldest.
LEMMA MatchFinds ==
  ASSUME CacheTypes, NEW r \in Releases, NEW a \in Assets, Contains(order, r), caches[r][a] # 0
  PROVE  Match(a) # 0
<1>1. HasIt(a) # {} /\ HasIt(a) \subseteq Nat
  BY DEF Contains, HasIt, CacheTypes
<1> DEFINE Before == {e \in Nat \X Nat : e[1] < e[2]}
<1>2. \E i \in HasIt(a) : \A j \in HasIt(a) : ~(<<j, i>> \in Before)
  <2>1. IsWellFoundedOn(Before, Nat) BY NatLessThanWellFounded DEF OpToRel
  <2> HIDE DEF Before
  <2> QED BY <1>1, <2>1, WFMin
<1>3. \E i \in HasIt(a) : \A j \in HasIt(a) : i <= j
  <2>1. \A i, j \in Nat : j < i => <<j, i>> \in Before OBVIOUS
  <2>2. \A i, j \in Nat : i <= j \/ j < i OBVIOUS
  <2> HIDE DEF Before
  <2> QED BY <1>1, <1>2, <2>1, <2>2
<1>4. \A i \in HasIt(a) : caches[order[i]][a] # 0 BY DEF HasIt
<1> QED BY <1>1, <1>3, <1>4 DEF Match

\* Whatever installs fail, releases follow and writes arrive late or never, a worker that
\* has taken over serves the whole site without the network, unless the worker before it
\* deleted the cache it was filling (sw.js).
THEOREM ServesOffline == Spec => []AvailableOffline
<1>1. CacheInv => AvailableOffline
  <2> SUFFICES ASSUME CacheInv, active \notin {0} \cup deleted, NEW a \in Core
               PROVE  Match(a) # 0
    BY DEF AvailableOffline
  <2> QED BY MatchFinds DEF CacheInv, CacheTypes, ActiveHasCache, Assets
<1> QED BY CacheInitially, CacheStep, <1>1, PTL DEF Spec

-----------------------------------------------------------------------------
(* The module registry *)

Running == {running[i] : i \in DOMAIN running}

LEMMA NothingRuns == <<>> \in Seq(Modules) /\ DOMAIN <<>> = {}
OBVIOUS

LEMMA Innermost ==
  ASSUME RegistryInv, running # <<>>, running' = Front(running)
  PROVE  /\ running' \in Seq(Modules)
         /\ Last(running) \in Running
         /\ Running' = Running \ {Last(running)}
         /\ \A i, j \in DOMAIN running' : i # j => running'[i] # running'[j]
<1>1. /\ Len(running) \in Nat \ {0} /\ DOMAIN running = 1 .. Len(running)
      /\ DOMAIN running' = 1 .. (Len(running) - 1)
      /\ \A i \in 1 .. (Len(running) - 1) : running'[i] = running[i]
      /\ running' \in Seq(Modules)
  <2>1. running \in Seq(Modules) /\ Len(running) \in Nat \ {0} BY DEF RegistryInv
  <2>2. running' = SubSeq(running, 1, Len(running) - 1) BY DEF Front
  <2> QED BY <2>1, <2>2, SubSeqProperties
<1>2. \A i, j \in DOMAIN running : i # j => running[i] # running[j]
  BY DEF RegistryInv, RegistryIsAnnounced
<1> QED BY <1>1, <1>2 DEF Running, Last

LEMMA RegistryStep == RegistryInv /\ [Next]_vars => RegistryInv'
<1> SUFFICES ASSUME RegistryInv, [Next]_vars PROVE RegistryInv' OBVIOUS
<1>1. /\ running \in Seq(Modules) /\ modules = announced \cup Running
      /\ announced \cap Running = {}
      /\ \A i, j \in DOMAIN running : i # j => running[i] # running[j]
  BY DEF RegistryInv, RegistryIsAnnounced, Running
<1>2. CASE UNCHANGED moduleVars
  BY <1>1, <1>2 DEF RegistryInv, RegistryIsAnnounced, moduleVars
<1>3. ASSUME NEW d, NEW p, Loaded(d, p) PROVE RegistryInv'
  <2>1. modules' = {} /\ running' = <<>> /\ announced' = {} BY <1>3 DEF Loaded
  <2> QED BY <2>1, NothingRuns DEF RegistryInv, RegistryIsAnnounced
<1>4. ASSUME NEW n \in Modules, RegisterModule(n) PROVE RegistryInv'
  <2>1. n \notin announced /\ n \notin Running
    BY <1>1, <1>4 DEF RegisterModule, MayRegister
  <2>2. CASE running' = Append(running, n) /\ UNCHANGED announced
    <3>1. /\ Len(running) \in Nat /\ DOMAIN running = 1 .. Len(running)
          /\ DOMAIN running' = 1 .. (Len(running) + 1)
          /\ running'[Len(running) + 1] = n
          /\ \A i \in 1 .. Len(running) : running'[i] = running[i]
          /\ running' \in Seq(Modules)
      BY <1>1, <2>2
    <3>2. Running' = Running \cup {n} BY <3>1 DEF Running
    <3>3. \A i, j \in DOMAIN running' : i # j => running'[i] # running'[j]
      BY <1>1, <2>1, <3>1 DEF Running
    <3> QED
      BY <1>1, <1>4, <2>1, <2>2, <3>1, <3>2, <3>3
      DEF RegisterModule, RegistryInv, RegistryIsAnnounced, Running
  <2>3. CASE announced' = announced \cup {n} /\ UNCHANGED running
    BY <1>1, <1>4, <2>1, <2>3 DEF RegisterModule, RegistryInv, RegistryIsAnnounced, Running
  <2> QED BY <1>4, <2>2, <2>3 DEF RegisterModule
<1>5. CASE InitReturns
  BY <1>1, <1>5, Innermost DEF InitReturns, RegistryInv, RegistryIsAnnounced, Running
<1>6. CASE InitThrows
  BY <1>1, <1>6, Innermost DEF InitThrows, RegistryInv, RegistryIsAnnounced, Running
<1>7. ASSUME NEW r \in DOMAIN Routes, Navigate(r) PROVE RegistryInv'
  BY <1>2, <1>3, <1>7 DEF Navigate, Open, Unavailable
<1>8. ASSUME NEW d \in Pages, Visit(d) PROVE RegistryInv'
  BY <1>3, <1>8 DEF Visit, Open
<1>9. CASE HandleAction
  <2>1. doc \in Pages BY <1>9, PagesAssumption DEF HandleAction, Started, Shell
  <2> QED BY <1>2, <1>7, <1>8, <1>9, <2>1 DEF HandleAction, Scroll, UnknownAction
<1>10. CASE UNCHANGED vars BY <1>2, <1>10 DEF vars
<1> QED
  BY <1>2, <1>4, <1>5, <1>6, <1>7, <1>8, <1>9, <1>10
  DEF Next, PageStep, Initialize, Frame, ThrottleTimer, Dismiss, ToastTimer, Faded, Scroll,
      Resize, NetworkChange

\* However the inits of modules nest, fail and are tried again, the registry holds what was
\* announced and what is being initialised, and no init runs inside itself (main.js,
\* registerModule).
THEOREM RegistryTrue == Spec => []RegistryIsAnnounced
<1>1. Init => RegistryInv
  <2>1. Init => modules = {} /\ running = <<>> /\ announced = {} BY DEF Init
  <2> QED BY <2>1, NothingRuns DEF RegistryInv, RegistryIsAnnounced
<1>2. RegistryInv => RegistryIsAnnounced BY DEF RegistryInv
<1> QED BY <1>1, <1>2, RegistryStep, PTL DEF Spec
=============================================================================
