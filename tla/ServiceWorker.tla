---------------------------- MODULE ServiceWorker ----------------------------
(***************************************************************************)
(* The service worker of the site (sw.js).  Every release of the site has  *)
(* a worker with a cache of its own name.  A new worker fills its cache,   *)
(* takes over at once and deletes the caches of the others; pages, scripts *)
(* and styles come from the network first, the rest from the caches first. *)
(* The content of an asset is named by the release it is from.             *)
(***************************************************************************)
EXTENDS Naturals, Sequences, FiniteSets, SequencesExt

CONSTANTS
  Core,         \* CORE, the assets every install caches
  Extra,        \* same-origin assets CORE does not list
  CacheFirst,   \* the assets that are neither page, script, style nor manifest
  MaxRelease    \* bound: releases of the site

ASSUME ReleaseAssumption == MaxRelease \in Nat \ {0}
ASSUME AssetAssumption == Core \cap Extra = {} /\ CacheFirst \subseteq Core \cup Extra

Assets == Core \cup Extra
Releases == 1 .. MaxRelease

VARIABLES
  release,    \* the release the server serves
  connected,  \* navigator.onLine
  caches,     \* per cache name, the release each asset in it is from; 0 when not in it
  order,      \* the caches that exist, oldest first
  installing, \* the release whose worker is installing, or 0
  active,     \* the release whose worker is active, or 0
  activating, \* its activate event is not over
  deleted,    \* history: releases whose cache was deleted under their install
  puts        \* writes to a cache nobody waits for: [cache, asset, from]

cacheVars == <<caches, order, installing, active, activating, deleted>>
workerVars == <<release, connected, cacheVars, puts>>

Empty == [a \in Assets |-> 0]

WorkerInit ==
  /\ release = 1 /\ connected = TRUE
  /\ caches = [r \in Releases |-> Empty]
  /\ order = <<>>
  /\ installing = 0 /\ active = 0 /\ activating = FALSE
  /\ deleted = {} /\ puts = {}

\* caches.open creates the cache, after the others.
Opened(name) == IF Contains(order, name) THEN order ELSE Append(order, name)

\* caches.match: the first cache that has the asset
HasIt(a) == {i \in DOMAIN order : caches[order[i]][a] # 0}
Match(a) ==
  IF HasIt(a) = {} THEN 0
  ELSE caches[order[CHOOSE i \in HasIt(a) : \A j \in HasIt(a) : i <= j]][a]

-----------------------------------------------------------------------------
Deploy ==
  /\ release < MaxRelease
  /\ release' = release + 1
  /\ UNCHANGED <<connected, cacheVars, puts>>

Connect ==
  /\ connected' = ~connected
  /\ UNCHANGED <<release, cacheVars, puts>>

\* navigator.serviceWorker.register finds a worker other than the active one; its
\* install event opens the cache.
Install ==
  /\ connected /\ installing = 0 /\ active # release
  /\ installing' = release
  /\ order' = Opened(release)
  /\ deleted' = deleted \ {release}
  /\ UNCHANGED <<release, connected, caches, active, activating, puts>>

\* Seeded fault: the event does not wait for the cache to be filled.
InstalledAtOnce ==
  /\ installing # 0 /\ connected /\ ~activating
  /\ active' = installing /\ activating' = TRUE
  /\ installing' = 0
  /\ UNCHANGED <<release, connected, caches, order, deleted, puts>>

\* cache.addAll stores all of CORE or nothing, into the cache the install has opened
\* even if that one is deleted by now; the worker then skips waiting.
Installed ==
  /\ installing # 0 /\ connected /\ ~activating
  /\ caches' = [caches EXCEPT ![installing] =
       [a \in Assets |-> IF a \in Core /\ Contains(order, installing) THEN release ELSE @[a]]]
  /\ active' = installing /\ activating' = TRUE
  /\ installing' = 0
  /\ UNCHANGED <<release, connected, order, deleted, puts>>

InstallFails ==
  /\ installing # 0
  /\ installing' = 0
  /\ UNCHANGED <<release, connected, caches, order, active, activating, deleted, puts>>

\* activate: every cache of another name is deleted, that of a worker now installing too.
Activate ==
  /\ activating
  /\ activating' = FALSE
  /\ caches' = [r \in Releases |-> IF r = active THEN caches[r] ELSE Empty]
  /\ order' = IF Contains(order, active) THEN <<active>> ELSE <<>>
  /\ deleted' = deleted \cup ({installing} \ {0, active})
  /\ UNCHANGED <<release, connected, installing, active, puts>>

\* An answer from the network reaches the page first and is cached later, under the
\* name of the worker that asked.
Fetched(a) ==
  /\ connected
  /\ puts' = puts \cup {[cache |-> active, asset |-> a, from |-> release]}

\* fetch event of a script, a style or a picture: from the network first, or only when
\* no cache has it; a request that fails or is not ok stores nothing.
Fetch(a) ==
  /\ active # 0 /\ ~activating
  /\ Fetched(a) /\ (a \in CacheFirst => Match(a) = 0)
  /\ UNCHANGED <<release, connected, cacheVars>>

Put(p) ==
  /\ p \in puts
  /\ puts' = puts \ {p}
  /\ order' = Opened(p.cache)
  /\ caches' = [caches EXCEPT ![p.cache][p.asset] = p.from]
  /\ UNCHANGED <<release, connected, installing, active, activating, deleted>>

\* The browser ends the worker, or the body was read before it was copied.
PutLost(p) ==
  /\ p \in puts
  /\ puts' = puts \ {p}
  /\ UNCHANGED <<release, connected, cacheVars>>

WorkerStep ==
  \/ Deploy \/ Install \/ Installed \/ InstallFails \/ Activate
  \/ \E p \in puts : Put(p) \/ PutLost(p)

\* What a request for page a shows when the network fails: the page from a cache,
\* index.html in its place, or an error.
Offline(a, index) == IF Match(a) # 0 THEN a ELSE IF Match(index) # 0 THEN index ELSE "error"

-----------------------------------------------------------------------------
\* Once a worker has taken over, everything the site is made of can be had without the
\* network, whatever installs fail, releases follow and writes arrive late or never;
\* unless the worker before it deleted the cache it was filling.
AvailableOffline ==
  active \notin {0} \cup deleted => \A a \in Core : Match(a) # 0
=============================================================================
