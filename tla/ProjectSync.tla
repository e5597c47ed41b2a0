----------------------------- MODULE ProjectSync -----------------------------
(***************************************************************************)
(* The offline project store of the browser (assets/js/project-store.js)   *)
(* and its cloud synchronisation (assets/js/cloud-sync.js).  Tabs share    *)
(* one IndexedDB: projects, a queue with one change per project, and saved *)
(* versions.  A save writes project and change in one transaction; a flush *)
(* lists the changes once, pushes them oldest first and acknowledges each  *)
(* in a later transaction.  The moment a save or removal begins names it,  *)
(* and with it the content saved.                                          *)
(***************************************************************************)
EXTENDS Integers, FiniteSets

CONSTANTS
  Projects, Tabs,
  Flushes,        \* calls of flushSync that may overlap, in one tab or several
  MaxVersions,    \* MAX_VERSIONS
  Unreliable,     \* storage, network and sign-in may fail, tabs may be closed
  Replays,        \* whether a key committed before is answered without a commit
  MaxTick         \* bound: saves and removals in all

ASSUME BoundsAssumption == {MaxVersions, MaxTick} \subseteq Nat
ASSUME ModesAssumption == Unreliable \in BOOLEAN /\ Replays \subseteq BOOLEAN

VARIABLES
  tick,      \* moments handed out so far
  stored,    \* PROJECTS: the content of each project and its syncState
  queue,     \* QUEUE: the change kept under `project:${id}`
  versions,  \* VERSIONS: the versions kept of each project, by their savedAt
  recovery,  \* the editor's recovery snapshot of each project; 0 when there is none under
             \* its id, only the one an earlier editor left under last-project, if any
  legacy,    \* localStorage: the last project, 0 when there is none
  active,    \* localStorage: the id of the active project
  save,      \* the saveProject call of each tab
  timer,     \* flushTimer of each tab
  push,      \* the flushSync calls
  late,      \* requests whose sender has given up waiting
  cloud,     \* the backend's copy of each project
  written    \* history: every version put since the project was last removed

device == <<stored, queue, versions, recovery, legacy, active>>
remote == <<late, cloud>>
vars == <<tick, device, save, timer, push, remote, written>>

Moment == 0 .. MaxTick
NoProject == [rev |-> 0, syncState |-> "none"]
NoChange == [operation |-> "none", at |-> 0]
NoSave == [phase |-> "idle"]
NoPush == [phase |-> "idle"]

-----------------------------------------------------------------------------
(* saveProject *)

\* The editor writes its recovery snapshot and the legacy copy, then calls saveProject,
\* which takes the time and makes the project the active one.
SaveProject(t, p) ==
  /\ save[t] = NoSave /\ tick < MaxTick
  /\ tick' = tick + 1
  /\ active' = p
  /\ recovery' = [recovery EXCEPT ![p] = tick']
  /\ legacy' = tick'
  /\ save' = [save EXCEPT ![t] =
                [phase |-> "write", project |-> p, at |-> tick', createVersion |-> TRUE]]
  /\ UNCHANGED <<stored, queue, versions, timer, push, remote, written>>

\* A page that finds a legacy copy and no active project saves it under the active id.
MigrateLegacy(t) ==
  /\ save[t] = NoSave /\ tick < MaxTick
  /\ legacy # 0 /\ stored[active] = NoProject
  /\ tick' = tick + 1
  /\ save' = [save EXCEPT ![t] =
                [phase |-> "write", project |-> active, at |-> tick', createVersion |-> FALSE]]
  /\ UNCHANGED <<device, timer, push, remote, written>>

\* The call ends with project-saved, which schedules a flush of its tab.
Saved(t) ==
  /\ save' = [save EXCEPT ![t] = NoSave]
  /\ timer' = [timer EXCEPT ![t] = TRUE]

Continue(t, phase) == save' = [save EXCEPT ![t].phase = phase] /\ UNCHANGED timer

\* Seeded fault: a change already waiting is taken for this one.
KeepsQueued(p, at) == IF queue[p] = NoChange THEN [operation |-> "upsert", at |-> at] ELSE queue[p]

Upsert(p, at) == [operation |-> "upsert", at |-> at]

\* Project and change are put in one transaction.
StoreProject(t) ==
  LET p == save[t].project IN
  /\ save[t].phase = "write"
  /\ stored' = [stored EXCEPT ![p] = [rev |-> save[t].at, syncState |-> "pending"]]
  /\ queue' = [queue EXCEPT ![p] = Upsert(p, save[t].at)]
  /\ IF save[t].createVersion THEN Continue(t, "version") ELSE Saved(t)
  /\ UNCHANGED <<tick, versions, recovery, legacy, active, push, remote, written>>

\* Without IndexedDB the legacy copy is all there is, and the save is local-only; when
\* that cannot be written either, the call fails and nothing is scheduled.
StoreFails(t) ==
  /\ Unreliable /\ save[t].phase = "write"
  /\ \/ legacy' = save[t].at /\ Saved(t)
     \/ save' = [save EXCEPT ![t] = NoSave] /\ UNCHANGED <<legacy, timer>>
  /\ UNCHANGED <<tick, stored, queue, versions, recovery, active, push, remote, written>>

PutVersion(t) ==
  LET p == save[t].project IN
  /\ save[t].phase = "version"
  /\ versions' = [versions EXCEPT ![p] = @ \cup {save[t].at}]
  /\ written' = [written EXCEPT ![p] = @ \cup {save[t].at}]
  /\ Continue(t, "trim")
  /\ UNCHANGED <<tick, stored, queue, recovery, legacy, active, push, remote>>

Newer(S, v) == {w \in S : w > v}

\* Seeded fault: the oldest versions are kept, not the newest.
KeepsOldest(S) == {v \in S : Cardinality(S \ ({v} \cup Newer(S, v))) >= MaxVersions}

Excess(S) == {v \in S : Cardinality(Newer(S, v)) >= MaxVersions}

\* trimVersions lists the versions; what is too many it deletes in a later transaction.
ListExcess(t) ==
  LET excess == Excess(versions[save[t].project]) IN
  /\ save[t].phase = "trim"
  /\ IF excess = {}
       THEN Saved(t)
       ELSE /\ save' = [save EXCEPT ![t] = [phase |-> "drop", project |-> @.project, excess |-> excess]]
            /\ UNCHANGED timer
  /\ UNCHANGED <<tick, device, push, remote, written>>

DropExcess(t) ==
  /\ save[t].phase = "drop"
  /\ versions' = [versions EXCEPT ![save[t].project] = @ \ save[t].excess]
  /\ Saved(t)
  /\ UNCHANGED <<tick, stored, queue, recovery, legacy, active, push, remote, written>>

\* A version that cannot be put, listed or dropped is skipped; the save stands.
SkipVersion(t) ==
  /\ Unreliable /\ save[t].phase \in {"version", "trim", "drop"}
  /\ Saved(t)
  /\ UNCHANGED <<tick, device, push, remote, written>>

-----------------------------------------------------------------------------
(* The library: removal, restoring, the active project; and a page that is closed *)

\* One transaction deletes the project and its versions and queues the removal.  The
\* library then deletes the snapshot and the legacy copy of the active project.
RemoveProject(p) ==
  /\ stored[p] # NoProject /\ tick < MaxTick
  /\ tick' = tick + 1
  /\ stored' = [stored EXCEPT ![p] = NoProject]
  /\ queue' = [queue EXCEPT ![p] = [operation |-> "delete", at |-> tick']]
  /\ versions' = [versions EXCEPT ![p] = {}]
  /\ written' = [written EXCEPT ![p] = {}]
  /\ recovery' = IF p = active THEN [recovery EXCEPT ![p] = 0] ELSE recovery
  /\ legacy' = IF p = active THEN 0 ELSE legacy
  /\ UNCHANGED <<active, save, timer, push, remote>>

\* A version becomes the recovery snapshot; no change is queued.
RestoreVersion(p) ==
  /\ \E v \in versions[p] : recovery' = [recovery EXCEPT ![p] = v]
  /\ active' = p
  /\ UNCHANGED <<tick, stored, queue, versions, legacy, save, timer, push, remote, written>>

SetActiveProjectId(p) ==
  /\ active' = p
  /\ UNCHANGED <<tick, stored, queue, versions, recovery, legacy, save, timer, push, remote, written>>

\* The page is loaded or comes online: a flush is scheduled.
ScheduleFlush(t) ==
  /\ timer' = [timer EXCEPT ![t] = TRUE]
  /\ UNCHANGED <<tick, device, save, push, remote, written>>

\* A closed page takes its calls with it; what it has sent may still arrive.
ClosePage(t) ==
  LET ours == {f \in Flushes : push[f].phase # "idle" /\ push[f].tab = t} IN
  /\ Unreliable
  /\ save' = [save EXCEPT ![t] = NoSave]
  /\ timer' = [timer EXCEPT ![t] = FALSE]
  /\ push' = [f \in Flushes |-> IF f \in ours THEN NoPush ELSE push[f]]
  /\ late' = late \cup {push[f].body : f \in {g \in ours : push[g].phase = "sent"}}
  /\ UNCHANGED <<tick, device, cloud, written>>

-----------------------------------------------------------------------------
(* flushSync and push *)

Listed == {[project |-> p, operation |-> queue[p].operation, at |-> queue[p].at] :
             p \in {q \in Projects : queue[q] # NoChange}}

\* The timer fires: the flush reads every change there is, once.
FlushSync(t, f) ==
  /\ timer[t] /\ push[f] = NoPush
  /\ timer' = [timer EXCEPT ![t] = FALSE]
  /\ push' = IF Listed = {} THEN push
             ELSE [push EXCEPT ![f] = [phase |-> "next", tab |-> t, todo |-> Listed]]
  /\ UNCHANGED <<tick, device, save, remote, written>>

Oldest(todo) == {c \in todo : \A d \in todo : c.at <= d.at}

\* push takes the oldest change and reads the project as it is now.  When the read fails
\* getProject answers with the legacy copy, whatever project that is.
CurrentRev(c) == IF c.operation = "delete" THEN 0 ELSE stored[c.project].rev

Reads(f, c, fallback) ==
  /\ fallback => Unreliable /\ c.operation = "upsert"
  /\ push' = [push EXCEPT ![f] =
       [phase |-> "read", tab |-> @.tab, todo |-> @.todo, change |-> c, fallback |-> fallback,
        meta |-> IF fallback THEN legacy ELSE CurrentRev(c)]]

ReadProject(f) ==
  /\ push[f].phase = "next"
  /\ \E c \in Oldest(push[f].todo), fallback \in BOOLEAN : Reads(f, c, fallback)
  /\ UNCHANGED <<tick, device, save, timer, remote, written>>

Body(f) ==
  LET c == push[f].change IN
  [project |-> c.project, operation |-> c.operation, meta |-> push[f].meta,
   snapshot |-> IF c.operation = "delete" THEN 0 ELSE recovery[c.project]]

\* The recovery snapshot is read after the project, and the request goes out.
Send(f) ==
  /\ push[f].phase = "read"
  /\ push' = [push EXCEPT ![f] =
       [phase |-> "sent", tab |-> @.tab, todo |-> @.todo, change |-> @.change,
        fallback |-> @.fallback, meta |-> @.meta, body |-> Body(f)]]
  /\ UNCHANGED <<tick, device, save, timer, remote, written>>

\* The key names the project, not the change: the backend may have committed it before.
Committed(body) ==
  \E replays \in Replays :
    cloud' = IF replays /\ cloud[body.project].operation # "none" THEN cloud
             ELSE [cloud EXCEPT ![body.project] =
                     [operation |-> body.operation, meta |-> body.meta, snapshot |-> body.snapshot]]

Accept(f) ==
  /\ push[f].phase = "sent"
  /\ Committed(push[f].body)
  /\ push' = [push EXCEPT ![f].phase = "accepted"]
  /\ UNCHANGED <<tick, device, save, timer, late, written>>

Land(body) ==
  /\ Committed(body)
  /\ late' = late \ {body}
  /\ UNCHANGED <<tick, device, save, timer, push, written>>

Quit(f) == push' = [push EXCEPT ![f] = NoPush]

\* No token, no snapshot, a refusal or a conflict: the flush ends and its changes remain queued.
Refuse(f) ==
  /\ Unreliable /\ push[f].phase \in {"next", "read", "sent"}
  /\ Quit(f)
  /\ UNCHANGED <<tick, device, save, timer, remote, written>>

\* The wait times out or the answer is lost; the request may yet be committed.
TimeOut(f) ==
  /\ Unreliable /\ push[f].phase = "sent"
  /\ Quit(f)
  /\ late' = late \cup {push[f].body}
  /\ UNCHANGED <<tick, device, save, timer, cloud, written>>

Pushed(f) ==
  LET rest == push[f].todo \ {push[f].change} IN
  push' = [push EXCEPT ![f] =
             IF rest = {} THEN NoPush ELSE [phase |-> "next", tab |-> @.tab, todo |-> rest]]

\* Seeded fault: a change that has been replaced stays, though its project is marked.
IfUnchanged(c) ==
  IF queue[c.project].at = c.at THEN [queue EXCEPT ![c.project] = NoChange] ELSE queue

Unqueued(c) == [queue EXCEPT ![c.project] = NoChange]

\* One transaction deletes the change kept under the id and marks the project there is.
Acknowledge(f) ==
  LET c == push[f].change IN
  /\ push[f].phase = "accepted"
  /\ queue' = Unqueued(c)
  /\ stored' = IF c.operation = "upsert" /\ stored[c.project] # NoProject
                 THEN [stored EXCEPT ![c.project].syncState = "synced"] ELSE stored
  /\ Pushed(f)
  /\ UNCHANGED <<tick, versions, recovery, legacy, active, save, timer, remote, written>>

AcknowledgeFails(f) ==
  /\ Unreliable /\ push[f].phase = "accepted"
  /\ Quit(f)
  /\ UNCHANGED <<tick, device, save, timer, remote, written>>

-----------------------------------------------------------------------------
Init ==
  /\ tick = 0
  /\ stored = [p \in Projects |-> NoProject]
  /\ queue = [p \in Projects |-> NoChange]
  /\ versions = [p \in Projects |-> {}] /\ written = versions
  /\ recovery = [p \in Projects |-> 0] /\ legacy = 0
  /\ active \in Projects
  /\ save = [t \in Tabs |-> NoSave] /\ timer = [t \in Tabs |-> FALSE]
  /\ push = [f \in Flushes |-> NoPush]
  /\ late = {}
  /\ cloud = [p \in Projects |-> [operation |-> "none", meta |-> 0, snapshot |-> 0]]

Save(t) ==
  \/ \E p \in Projects : SaveProject(t, p)
  \/ MigrateLegacy(t)
  \/ StoreProject(t) \/ StoreFails(t)
  \/ PutVersion(t) \/ ListExcess(t) \/ DropExcess(t) \/ SkipVersion(t)

Page(t) == ScheduleFlush(t) \/ ClosePage(t)

Library(p) == RemoveProject(p) \/ RestoreVersion(p) \/ SetActiveProjectId(p)

Push(f) ==
  \/ \E t \in Tabs : FlushSync(t, f)
  \/ ReadProject(f) \/ Send(f) \/ Accept(f) \/ Refuse(f) \/ TimeOut(f)
  \/ Acknowledge(f) \/ AcknowledgeFails(f)

Next ==
  \/ \E t \in Tabs : Save(t) \/ Page(t)
  \/ \E p \in Projects : Library(p)
  \/ \E f \in Flushes : Push(f)
  \/ \E body \in late : Land(body)

Spec == Init /\ [][Next]_vars

-----------------------------------------------------------------------------
(* Properties *)

\* Types: the three kinds of call, and what the device and the backend keep.
Listing == [project : Projects, operation : {"upsert", "delete"}, at : Moment]
Request == [project : Projects, operation : {"upsert", "delete"}, meta : Moment, snapshot : Moment]

SaveCall ==
  {NoSave}
  \cup [phase : {"write", "version", "trim"}, project : Projects, at : Moment, createVersion : BOOLEAN]
  \cup [phase : {"drop"}, project : Projects, excess : SUBSET Moment]

Reading == [phase : {"read"}, tab : Tabs, todo : SUBSET Listing, change : Listing,
            fallback : BOOLEAN, meta : Moment]
Waiting == [phase : {"sent", "accepted"}, tab : Tabs, todo : SUBSET Listing, change : Listing,
            fallback : BOOLEAN, meta : Moment, body : Request]

PushCall(call) ==
  \/ call = NoPush
  \/ call \in [phase : {"next"}, tab : Tabs, todo : (SUBSET Listing) \ {{}}]
  \/ call \in Reading
  \/ call \in Waiting

TypeOK ==
  /\ tick \in Moment
  /\ stored \in [Projects -> [rev : Moment, syncState : {"none", "pending", "synced"}]]
  /\ queue \in [Projects -> {NoChange} \cup [operation : {"upsert", "delete"}, at : Moment]]
  /\ {versions, written} \subseteq [Projects -> SUBSET Moment]
  /\ recovery \in [Projects -> Moment] /\ legacy \in Moment /\ active \in Projects
  /\ save \in [Tabs -> SaveCall] /\ timer \in [Tabs -> BOOLEAN]
  /\ DOMAIN push = Flushes /\ \A f \in Flushes : PushCall(push[f])
  /\ late \subseteq Request
  /\ cloud \in [Projects -> [operation : {"none", "upsert", "delete"}, meta : Moment, snapshot : Moment]]

\* What the library shows of a project agrees with the queue, whatever saves, removals
\* and acknowledgements cross: a queued save is a project shown as pending, with the
\* content of that save, and a queued removal has no project.
QueueTellsState ==
  \A p \in Projects :
    /\ queue[p].operation = "upsert" =>
         stored[p] = [rev |-> queue[p].at, syncState |-> "pending"]
    /\ queue[p].operation = "delete" => stored[p] = NoProject

\* While the change a push has listed is still the one queued, what was read from the
\* store is what the store holds: an acknowledgement that compared the two would be exact,
\* as far as moments differ; the code's are milliseconds.
UndisturbedPushIsCurrent ==
  \A f \in Flushes :
    push[f].phase \in {"read", "sent", "accepted"} =>
      LET c == push[f].change IN
      c.operation = "upsert" /\ ~push[f].fallback
        /\ queue[c.project] = [operation |-> "upsert", at |-> c.at]
      => push[f].meta = stored[c.project].rev

\* However many tabs save and trim together, the newest versions of a project put since
\* it was last removed are kept.
NewestVersionsKept ==
  \A p \in Projects : \A v \in written[p] \ versions[p] :
    Cardinality(Newer(written[p], v)) >= MaxVersions

\* account.html:55 "authenticated sync waits safely in the project queue": content the
\* backend has not been given waits in the queue.
ChangesWaitInQueue ==
  \A p \in Projects :
    stored[p] # NoProject /\ cloud[p].meta # stored[p].rev => queue[p].operation = "upsert"
==============================================================================
