------------------------------- MODULE AppShell -------------------------------
(***************************************************************************)
(* The global controller of the pages (assets/js/main.js) over the service *)
(* worker that serves them.  It is synchronous code: while a module's init *)
(* runs nothing else does, but init may register further modules.  Only    *)
(* some pages load the controller.                                         *)
(***************************************************************************)
EXTENDS ServiceWorker

CONSTANTS
  Pages, Home,   \* the documents of the site, and index.html
  ShellPages,    \* the documents that load main.js
  Modules,       \* module names
  Sections,      \* the sections of a page, from the top
  Toasts         \* bound: toasts that exist at once

ASSUME PagesAssumption == Home \in ShellPages /\ ShellPages \subseteq Pages /\ Pages \subseteq Core \ CacheFirst

\* ROUTES: the document of each route; share and print are parts of the editor's, and
\* settings is not enabled.
Routes ==
  [home |-> Home, create |-> "create", editor |-> "editor", share |-> "editor",
   print |-> "editor", settings |-> "settings"]
Enabled == DOMAIN Routes \ {"settings"}
Parts == {"share", "print"}

ASSUME RoutesAssumption == \A r \in Enabled : Routes[r] \in Pages

VARIABLES
  doc,        \* the document shown
  path,       \* location.pathname
  shell,      \* state: initialized, online, currentPage, activeSection; and how far the
              \* start came
  section,    \* where the page is scrolled to
  waiting,    \* the listeners of initializeActiveNavigation whose throttle drops calls
  toasts,     \* per toast: on screen or fading, and its timer
  said,       \* the text of the app-status region
  frames,     \* messages whose animation frame has not run yet
  modules,    \* state.modules
  running,    \* the modules whose init is running, the innermost last
  announced   \* history: modules announced by module:registered

pageVars == <<doc, path, shell, section, waiting, toasts, said, frames>>
moduleVars == <<modules, running, announced>>
vars == <<workerVars, pageVars, moduleVars>>

NoToast == [stage |-> "gone", timer |-> FALSE]
Idle == running = <<>>
Shell == doc \in ShellPages
Ready == Shell /\ shell.initialized /\ Idle

\* detectCurrentPage
DetectPage(p) == IF p \in {"create", "editor"} THEN p ELSE "home"

\* The script of a document runs: whatever the page before held is gone.
Loaded(d, p) ==
  /\ doc' = d /\ path' = p
  /\ shell' = [initialized |-> FALSE, started |-> 0, online |-> connected,
               currentPage |-> DetectPage(p), activeSection |-> 0]
  /\ section' = 1 /\ waiting' = {}
  /\ toasts' = [i \in Toasts |-> NoToast]
  /\ said' = "" /\ frames' = <<>>
  /\ modules' = {} /\ running' = <<>> /\ announced' = {}

Init ==
  /\ WorkerInit
  /\ doc = Home /\ path = Home
  /\ shell = [initialized |-> FALSE, started |-> 0, online |-> TRUE,
              currentPage |-> "home", activeSection |-> 0]
  /\ section = 1 /\ waiting = {}
  /\ toasts = [i \in Toasts |-> NoToast]
  /\ said = "" /\ frames = <<>>
  /\ modules = {} /\ running = <<>> /\ announced = {}

-----------------------------------------------------------------------------
(* Messages *)

\* announce: the region is emptied now and filled in the next frame.
Announce(message) == said' = "" /\ frames' = Append(frames, message)

\* ensureToastContainer, showToast: a timer dismisses the toast, and it is announced.
ShowToast(message) ==
  /\ \E i \in Toasts :
       /\ toasts[i] = NoToast
       /\ toasts' = [toasts EXCEPT ![i] = [stage |-> "shown", timer |-> TRUE]]
  /\ Announce(message)

\* The frame runs the callbacks in the order they were asked for.
Frame ==
  /\ Idle /\ frames # <<>>
  /\ said' = Last(frames) /\ frames' = <<>>
  /\ UNCHANGED <<workerVars, doc, path, shell, section, waiting, toasts, moduleVars>>

\* dismiss, once only: the toast fades and is removed by a second timer.
Dismissed(i) == IF toasts[i].stage = "shown" THEN "fading" ELSE toasts[i].stage

Dismiss(i) ==
  /\ Idle /\ toasts[i].stage = "shown"
  /\ toasts' = [toasts EXCEPT ![i].stage = Dismissed(i)]
  /\ UNCHANGED <<workerVars, doc, path, shell, section, waiting, said, frames, moduleVars>>

ToastTimer(i) ==
  /\ Idle /\ toasts[i].timer
  /\ toasts' = [toasts EXCEPT ![i] = [stage |-> Dismissed(i), timer |-> FALSE]]
  /\ UNCHANGED <<workerVars, doc, path, shell, section, waiting, said, frames, moduleVars>>

Faded(i) ==
  /\ Idle /\ toasts[i].stage = "fading"
  /\ toasts' = [toasts EXCEPT ![i].stage = "gone"]
  /\ UNCHANGED <<workerVars, doc, path, shell, section, waiting, said, frames, moduleVars>>

-----------------------------------------------------------------------------
(* Start, navigation and actions *)

\* The steps of the start that install listeners, in this order
ActionsOn == 1
SectionsOn == 2
NetworkOn == 3
AllOn == 4

\* initializeApplication: a step that throws is reported, and those after it are skipped
\* for good.
Initialize ==
  /\ Shell /\ Idle /\ ~shell.initialized
  /\ \E k \in 0 .. AllOn :
       /\ shell' = [shell EXCEPT !.initialized = TRUE, !.started = k,
                      !.activeSection = IF k >= SectionsOn THEN section ELSE @]
       /\ IF k = AllOn THEN UNCHANGED <<toasts, said, frames>> ELSE ShowToast("startup")
  /\ UNCHANGED <<workerVars, doc, path, section, waiting, moduleVars>>

Started(k) == Shell /\ shell.started >= k /\ Idle

\* The browser asks the worker for the document, or the network while there is none.
Open(d) ==
  /\ ~activating
  /\ \/ connected /\ Loaded(d, d)
        /\ IF active = 0 THEN UNCHANGED puts ELSE Fetched(d)
     \/ Loaded(IF active = 0 THEN "error" ELSE Offline(d, Home), d) /\ UNCHANGED puts
  /\ UNCHANGED <<release, connected, cacheVars>>

\* The destination is a part of the document the address already names.
SamePage(r) == r \in Parts /\ path = Routes[r]

\* showUnavailableRoute
Unavailable ==
  /\ ShowToast("unavailable")
  /\ UNCHANGED <<workerVars, doc, path, shell, section, waiting, moduleVars>>

\* handleAction, navigate with a route, openURL: a part of the page is shown without
\* loading it again, and a new tab leaves the page alone.
Navigate(r) ==
  /\ Ready
  /\ \/ r \in Enabled /\ ~SamePage(r) /\ Open(Routes[r])
     \/ r \notin Enabled /\ Unavailable

\* The user follows an ordinary link, or reloads.
Visit(d) == Idle /\ Open(d)

UnknownAction ==
  /\ ShowToast("unknown")
  /\ UNCHANGED <<workerVars, doc, path, shell, section, waiting, moduleVars>>

-----------------------------------------------------------------------------
(* Scrolling and the network *)

\* throttle: a call is lost while the listener waits.
Throttled(listener, call) ==
  IF listener \in waiting THEN UNCHANGED <<shell, waiting>>
  ELSE waiting' = waiting \cup {listener} /\ call

\* The listeners of initializeActiveNavigation share update, not its throttle.
UpdateActive(listener) ==
  IF Started(SectionsOn)
  THEN Throttled(listener, shell' = [shell EXCEPT !.activeSection = section'])
  ELSE UNCHANGED <<shell, waiting>>

\* The user, a key, an anchor, scrollToTop or scrollToBottom move the page.
Scroll(y) ==
  /\ Shell /\ Idle /\ y # section
  /\ section' = y
  /\ UpdateActive("scroll")
  /\ UNCHANGED <<workerVars, doc, path, toasts, said, frames, moduleVars>>

\* The sections move under the page, or stay.
Resize(y) ==
  /\ Shell /\ Idle
  /\ section' = y
  /\ UpdateActive("resize")
  /\ UNCHANGED <<workerVars, doc, path, toasts, said, frames, moduleVars>>

ThrottleTimer(listener) ==
  /\ Idle /\ listener \in waiting
  /\ waiting' = waiting \ {listener}
  /\ UNCHANGED <<workerVars, doc, path, shell, section, toasts, said, frames, moduleVars>>

\* A click on an element with data-action; the names that are no routes come last.
HandleAction ==
  /\ Started(ActionsOn)
  /\ \/ \E r \in DOMAIN Routes : Navigate(r)
     \/ \E y \in {Min(Sections), Max(Sections)} : Scroll(y)
     \/ Visit(doc)
     \/ UnknownAction

\* initializeNetworkMonitoring: the listeners of online and offline
NetworkChange ==
  /\ Idle /\ Connect
  /\ IF Started(NetworkOn)
     THEN /\ shell' = [shell EXCEPT !.online = connected']
          /\ ShowToast(IF connected' THEN "online" ELSE "offline")
     ELSE UNCHANGED <<shell, toasts, said, frames>>
  /\ UNCHANGED <<doc, path, section, waiting, moduleVars>>

-----------------------------------------------------------------------------
(* The module registry *)

\* Seeded fault: a name that is registered already is registered again.
MayRegisterAgain(n) == TRUE

MayRegister(n) == n \notin modules

\* registerModule, also from the init of another module; with an init it runs at once.
RegisterModule(n) ==
  /\ Shell /\ MayRegister(n)
  /\ modules' = modules \cup {n}
  /\ \/ running' = Append(running, n) /\ UNCHANGED announced
     \/ announced' = announced \cup {n} /\ UNCHANGED running
  /\ Len(running') <= Cardinality(Modules)
  /\ UNCHANGED <<workerVars, pageVars>>

InitReturns ==
  /\ running # <<>>
  /\ announced' = announced \cup {Last(running)}
  /\ running' = Front(running)
  /\ UNCHANGED <<workerVars, pageVars, modules>>

\* The name is free again; what init registered stays.
InitThrows ==
  /\ running # <<>>
  /\ modules' = modules \ {Last(running)}
  /\ running' = Front(running)
  /\ UNCHANGED <<workerVars, pageVars, announced>>

-----------------------------------------------------------------------------
PageStep ==
  \/ Initialize \/ Frame \/ HandleAction
  \/ \E i \in Toasts : Dismiss(i) \/ ToastTimer(i) \/ Faded(i)
  \/ \E r \in DOMAIN Routes : Navigate(r)
  \/ \E d \in Pages : Visit(d)
  \/ \E y \in Sections : Scroll(y) \/ Resize(y)
  \/ \E listener \in {"scroll", "resize"} : ThrottleTimer(listener)
  \/ \E n \in Modules : RegisterModule(n)
  \/ InitReturns \/ InitThrows

Next ==
  \/ PageStep
  \/ NetworkChange
  \/ (WorkerStep \/ \E a \in Assets : Fetch(a)) /\ UNCHANGED <<pageVars, moduleVars>>

Spec == Init /\ [][Next]_vars

-----------------------------------------------------------------------------
\* A module is in the registry exactly when its registration was announced or its init is
\* still running, however the inits of modules nest, fail and are tried again; no init
\* runs inside itself.
RegistryIsAnnounced ==
  /\ modules = announced \cup {running[i] : i \in DOMAIN running}
  /\ announced \cap {running[i] : i \in DOMAIN running} = {}
  /\ \A i, j \in DOMAIN running : i # j => running[i] # running[j]
=============================================================================
