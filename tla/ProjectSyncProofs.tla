-------------------------- MODULE ProjectSyncProofs --------------------------
(***************************************************************************)
(* Proofs about ProjectSync for any numbers of projects, tabs and flushes. *)
(* The moment of a save is its own until the save is stored and its        *)
(* version put: nothing queued, listed or kept bears it before (Fresh).    *)
(* So a change that reads like the one listed is the one listed.           *)
(***************************************************************************)
EXTENDS ProjectSync, FiniteSetTheorems, TLAPS

Called(t) == save[t].phase \in {"write", "version", "trim"}
Unput(t) == save[t].phase \in {"write", "version"}
Busy(f) == push[f].phase \in {"next", "read", "sent", "accepted"}
Pushing(f) == push[f].phase \in {"read", "sent", "accepted"}

\* A queued, listed or pushed change bears the moment m.
Asked(m) ==
  \/ \E p \in Projects : queue[p].at = m
  \/ \E f \in Flushes : Busy(f) /\ \E c \in push[f].todo : c.at = m
  \/ \E f \in Flushes : Pushing(f) /\ push[f].change.at = m

\* A version was put at the moment m, or is about to be dropped.
Put(m) ==
  \/ \E p \in Projects : m \in written[p]
  \/ \E t \in Tabs : save[t].phase = "drop" /\ m \in save[t].excess

Fresh ==
  /\ \A m \in Moment : Asked(m) \/ Put(m) => m <= tick
  /\ \A t \in Tabs : Called(t) => save[t].at \in 1 .. tick
  /\ \A t \in Tabs : save[t].phase = "write" => ~Asked(save[t].at)
  /\ \A t \in Tabs : Unput(t) => ~Put(save[t].at)
  /\ \A t, u \in Tabs : t # u /\ Unput(t) /\ Unput(u) => save[t].at # save[u].at

Queued(c) == queue[c.project] = [operation |-> "upsert", at |-> c.at]

Current ==
  \A f \in Flushes : Pushing(f) =>
    LET c == push[f].change IN
    c.operation = "upsert" /\ ~push[f].fallback /\ Queued(c) => push[f].meta = c.at

Outdated(p, v) == Cardinality(Newer(written[p], v)) >= MaxVersions

Kept ==
  /\ \A p \in Projects : versions[p] \subseteq written[p]
  /\ \A p \in Projects : \A v \in written[p] \ versions[p] : Outdated(p, v)
  /\ \A t \in Tabs : save[t].phase = "drop" =>
       \A v \in save[t].excess \cap written[save[t].project] : Outdated(save[t].project, v)

IInv == TypeOK /\ Fresh /\ QueueTellsState /\ Current /\ Kept

-----------------------------------------------------------------------------
LEMMA MomentFinite == IsFiniteSet(Moment) /\ Moment \subseteq Nat
<1>1. MaxTick \in Nat BY BoundsAssumption
<1>2. IsFiniteSet(0 .. MaxTick) BY <1>1, FS_Interval
<1> QED BY <1>1, <1>2 DEF Moment

\* More versions put leave no fewer that are newer than v.
LEMMA NewerGrows ==
  ASSUME NEW S, NEW T, S \subseteq T, T \subseteq Moment, NEW v,
         Cardinality(Newer(S, v)) >= MaxVersions
  PROVE  Cardinality(Newer(T, v)) >= MaxVersions
<1>1. IsFiniteSet(Newer(T, v))
  <2>1. Newer(T, v) \subseteq Moment BY DEF Newer
  <2> QED BY <2>1, MomentFinite, FS_Subset
<1>2. Newer(S, v) \subseteq Newer(T, v) BY DEF Newer
<1>3. /\ IsFiniteSet(Newer(S, v))
      /\ Cardinality(Newer(S, v)) <= Cardinality(Newer(T, v))
  BY <1>1, <1>2, FS_Subset
<1>4. Cardinality(Newer(S, v)) \in Nat /\ Cardinality(Newer(T, v)) \in Nat
  BY <1>1, <1>3, FS_CardinalityType
<1> QED BY <1>3, <1>4, BoundsAssumption

LEMMA SaveTypes ==
  ASSUME TypeOK, NEW t \in Tabs
  PROVE  /\ save[t].phase \in {"idle", "write", "version", "trim", "drop"}
         /\ save[t].phase = "idle" => save[t] = NoSave
         /\ Called(t) =>
              /\ save[t].project \in Projects /\ save[t].at \in Moment
              /\ save[t].createVersion \in BOOLEAN
              /\ save[t] = [phase |-> save[t].phase, project |-> save[t].project,
                            at |-> save[t].at, createVersion |-> save[t].createVersion]
         /\ save[t].phase = "drop" =>
              save[t].project \in Projects /\ save[t].excess \subseteq Moment
<1>1. save[t] \in SaveCall BY DEF TypeOK
<1> QED BY <1>1 DEF SaveCall, NoSave, Called

LEMMA PushTypes ==
  ASSUME TypeOK, NEW f \in Flushes
  PROVE  /\ push[f].phase \in {"idle", "next", "read", "sent", "accepted"}
         /\ push[f].phase = "idle" => push[f] = NoPush
         /\ Busy(f) => push[f].tab \in Tabs /\ push[f].todo \subseteq Listing
         /\ Pushing(f) =>
              /\ push[f].change \in Listing /\ push[f].fallback \in BOOLEAN
              /\ push[f].meta \in Moment
         /\ push[f].phase \in {"sent", "accepted"} => push[f].body \in Request
<1>1. PushCall(push[f]) BY DEF TypeOK
<1> QED BY <1>1 DEF PushCall, NoPush, Reading, Waiting, Busy, Pushing
Core == <<tick, stored, queue, versions, written>>

\* Steps that touch neither the core nor a call.
LEMMA ElsewhereKeeps ==
  ASSUME IInv, UNCHANGED <<Core, save, push>>, TypeOK'
  PROVE  IInv'
<1>1. Fresh' BY DEF IInv, Fresh, Core, Asked, Put, Called, Unput, Busy, Pushing
<1>2. QueueTellsState' BY DEF IInv, QueueTellsState, Core
<1>3. Current' BY DEF IInv, Current, Queued, Core, Pushing
<1>4. Kept' BY DEF IInv, Kept, Core, Outdated, Newer
<1> QED BY <1>1, <1>2, <1>3, <1>4 DEF IInv

\* A save begins, at the next moment.
Begins(t, p, createVersion) ==
  /\ save[t] = NoSave /\ tick < MaxTick
  /\ tick' = tick + 1
  /\ save' = [save EXCEPT ![t] = [phase |-> "write", project |-> p, at |-> tick + 1,
                                  createVersion |-> createVersion]]
  /\ recovery' \in [Projects -> Moment] /\ legacy' \in Moment /\ active' \in Projects
  /\ UNCHANGED <<stored, queue, versions, written, timer, push, remote>>

LEMMA BeginsKeeps ==
  ASSUME IInv, NEW t \in Tabs, NEW p \in Projects, NEW cv \in BOOLEAN, Begins(t, p, cv)
  PROVE  IInv'
<1> DEFINE r == [phase |-> "write", project |-> p, at |-> tick + 1, createVersion |-> cv]
<1>1. tick \in Nat /\ tick' \in Moment /\ tick' = tick + 1 /\ tick + 1 \in Moment
  BY BoundsAssumption DEF Begins, IInv, TypeOK, Moment
<1>2. save' \in [Tabs -> SaveCall] /\ save'[t] = r /\ \A u \in Tabs \ {t} : save'[u] = save[u]
  BY <1>1 DEF Begins, IInv, TypeOK, SaveCall
<1>3. TypeOK' BY <1>1, <1>2 DEF Begins, IInv, TypeOK, remote, PushCall
<1>4. \A m : Asked(m)' <=> Asked(m) BY DEF Begins, Asked, Busy, Pushing
<1>5. \A m : Put(m)' <=> Put(m)
  <2>1. save[t].phase = "idle" /\ save'[t].phase = "write" BY <1>2 DEF Begins, NoSave
  <2> QED BY <2>1, <1>2 DEF Begins, Put
<1>6. Fresh'
  <2>1. \A m \in Moment : Asked(m)' \/ Put(m)' => m <= tick'
    BY <1>1, <1>4, <1>5, MomentFinite DEF IInv, Fresh
  <2>2. ~Asked(tick + 1) /\ ~Put(tick + 1) BY <1>1 DEF IInv, Fresh
  <2>3. \A u \in Tabs \ {t} :
          /\ Called(u)' => save'[u].at \in 1 .. tick'
          /\ save'[u].phase = "write" => ~Asked(save[u].at)'
          /\ Unput(u)' => ~Put(save[u].at)'
          /\ Unput(u)' => Unput(u) /\ save'[u].at = save[u].at /\ save[u].at <= tick
    <3> TAKE u \in Tabs \ {t}
    <3>1. save'[u] = save[u] BY <1>2
    <3>2. Called(u) => save[u].at \in 1 .. tick BY DEF IInv, Fresh
    <3>3. (save[u].phase = "write" => ~Asked(save[u].at)) /\ (Unput(u) => ~Put(save[u].at))
      BY DEF IInv, Fresh
    <3> QED BY <3>1, <3>2, <3>3, <1>1, <1>4, <1>5 DEF Called, Unput
  <2>4. /\ Called(t)' => save'[t].at \in 1 .. tick'
        /\ ~Asked(save[t].at)' /\ ~Put(save[t].at)' /\ save'[t].at = tick + 1
    BY <1>1, <1>2, <1>4, <1>5, <2>2 DEF Called
  <2>5. \A u, w \in Tabs : u # w /\ Unput(u)' /\ Unput(w)' => save'[u].at # save'[w].at
    <3> TAKE u, w \in Tabs
    <3>1. CASE u # t /\ w # t BY <3>1, <2>3 DEF IInv, Fresh
    <3>2. CASE u = t \/ w = t BY <3>2, <2>3, <2>4, <1>1
    <3> QED BY <3>1, <3>2
  <2> QED BY <2>1, <2>3, <2>4, <2>5 DEF Fresh
<1>7. QueueTellsState' BY DEF Begins, IInv, QueueTellsState
<1>8. Current' BY DEF Begins, IInv, Current, Queued, Pushing
<1>9. Kept'
  <2>1. \A u \in Tabs : save'[u].phase = "drop" => u # t /\ save'[u] = save[u] BY <1>2
  <2> QED BY <2>1 DEF Begins, IInv, Kept, Outdated, Newer
<1> QED BY <1>3, <1>6, <1>7, <1>8, <1>9 DEF IInv

\* A save call ends; nothing of the core changes.
Ends(t) ==
  /\ save' = [save EXCEPT ![t] = NoSave]
  /\ legacy' \in Moment /\ timer' \in [Tabs -> BOOLEAN]
  /\ UNCHANGED <<Core, recovery, active, push, remote>>

LEMMA EndsKeeps ==
  ASSUME IInv, NEW t \in Tabs, Ends(t)
  PROVE  IInv'
<1>1. save' \in [Tabs -> SaveCall] /\ save'[t] = NoSave /\ \A u \in Tabs \ {t} : save'[u] = save[u]
  BY DEF Ends, IInv, TypeOK, SaveCall
<1>2. TypeOK' BY <1>1 DEF Ends, Core, IInv, TypeOK, remote, PushCall
<1>3. \A u \in Tabs : save'[u].phase # "idle" => u # t /\ save'[u] = save[u] BY <1>1 DEF NoSave
<1>4. \A m : Asked(m)' <=> Asked(m) BY DEF Ends, Core, Asked, Busy, Pushing
<1>5. \A m : Put(m)' => Put(m) BY <1>3 DEF Ends, Core, Put
<1>6. Fresh' BY <1>3, <1>4, <1>5 DEF Ends, Core, IInv, Fresh, Called, Unput
<1>7. QueueTellsState' BY DEF Ends, Core, IInv, QueueTellsState
<1>8. Current' BY DEF Ends, Core, IInv, Current, Queued, Pushing
<1>9. Kept' BY <1>3 DEF Ends, Core, IInv, Kept, Outdated, Newer
<1> QED BY <1>2, <1>6, <1>7, <1>8, <1>9 DEF IInv

\* The project and its change are stored; no change bore that moment before.
LEMMA StoreKeeps ==
  ASSUME IInv, NEW t \in Tabs, StoreProject(t)
  PROVE  IInv'
<1> DEFINE p == save[t].project
           a == save[t].at
<1>1. /\ p \in Projects /\ a \in Moment /\ a \in 1 .. tick
      /\ save[t].phase = "write" /\ save[t].createVersion \in BOOLEAN
      /\ save[t] = [phase |-> save[t].phase, project |-> p, at |-> a,
                    createVersion |-> save[t].createVersion]
  BY SaveTypes DEF StoreProject, IInv, Fresh, Called
<1>2. /\ stored' = [stored EXCEPT ![p] = [rev |-> a, syncState |-> "pending"]]
      /\ queue' = [queue EXCEPT ![p] = [operation |-> "upsert", at |-> a]]
      /\ UNCHANGED <<tick, versions, recovery, legacy, active, push, remote, written>>
  BY DEF StoreProject, Upsert
<1>3. /\ save' \in [Tabs -> SaveCall] /\ timer' \in [Tabs -> BOOLEAN]
      /\ \A u \in Tabs \ {t} : save'[u] = save[u]
      /\ save'[t].phase \in {"version", "idle"}
      /\ save'[t].phase = "version" => save'[t].at = a
  <2>1. CASE Continue(t, "version")
    <3>1. save' = [save EXCEPT ![t].phase = "version"] BY <2>1 DEF Continue
    <3>2. save'[t] = [phase |-> "version", project |-> p, at |-> a,
                      createVersion |-> save[t].createVersion]
      BY <3>1, <1>1 DEF IInv, TypeOK
    <3> QED BY <2>1, <3>1, <3>2, <1>1 DEF Continue, IInv, TypeOK, SaveCall
  <2>2. CASE Saved(t) BY <2>2 DEF Saved, NoSave, IInv, TypeOK, SaveCall
  <2> QED BY <2>1, <2>2 DEF StoreProject
<1> HIDE DEF p, a
<1>4. /\ stored'[p] = [rev |-> a, syncState |-> "pending"]
      /\ queue'[p] = [operation |-> "upsert", at |-> a]
      /\ \A q \in Projects \ {p} : stored'[q] = stored[q] /\ queue'[q] = queue[q]
  BY <1>1, <1>2 DEF IInv, TypeOK
<1>5. TypeOK' BY <1>1, <1>2, <1>3 DEF IInv, TypeOK, remote, PushCall
<1>6. \A m : Asked(m)' => Asked(m) \/ m = a BY <1>2, <1>4 DEF Asked, Busy, Pushing
<1>7. \A m : Put(m)' => Put(m)
  <2>1. \A u \in Tabs : save'[u].phase = "drop" => save'[u] = save[u] BY <1>3
  <2> QED BY <1>2, <2>1 DEF Put
<1>8. Fresh'
  <2>1. \A u \in Tabs : Unput(u)' => Unput(u) /\ save'[u].at = save[u].at
    BY <1>1, <1>3 DEF Unput, a
  <2>2. \A u \in Tabs : Called(u)' => Called(u) /\ save'[u].at = save[u].at
    BY <1>1, <1>3 DEF Called, a
  <2>3. \A u \in Tabs : save'[u].phase = "write" =>
          u # t /\ save'[u] = save[u] /\ save[u].at # a /\ ~Asked(save[u].at)
    BY <1>1, <1>3 DEF IInv, Fresh, Unput, a
  <2>4. \A m \in Moment : Asked(m)' \/ Put(m)' => m <= tick'
    BY <1>1, <1>2, <1>6, <1>7 DEF IInv, Fresh
  <2> QED BY <1>2, <1>6, <1>7, <2>1, <2>2, <2>3, <2>4 DEF IInv, Fresh
<1>9. QueueTellsState' BY <1>4 DEF IInv, QueueTellsState
<1>10. Current'
  <2>1. ~Asked(a) BY <1>1 DEF IInv, Fresh, a
  <2>2. SUFFICES ASSUME NEW f \in Flushes, Pushing(f), push[f].change.operation = "upsert",
                        ~push[f].fallback, Queued(push[f].change)'
                 PROVE  push[f].meta = push[f].change.at
    BY <1>2 DEF Current, Pushing
  <2>3. push[f].change \in Listing /\ push[f].change.at # a
    BY <2>1, <2>2, PushTypes DEF Asked, IInv
  <2>4. push[f].change.project # p BY <1>2, <1>4, <2>2, <2>3 DEF Queued
  <2>5. Queued(push[f].change) BY <1>2, <1>4, <2>2, <2>3, <2>4 DEF Queued, Listing
  <2> QED BY <2>2, <2>5 DEF IInv, Current
<1>11. Kept'
  <2>1. \A u \in Tabs : save'[u].phase = "drop" => save'[u] = save[u] BY <1>3
  <2> QED BY <1>2, <2>1 DEF IInv, Kept, Outdated, Newer
<1> QED BY <1>5, <1>8, <1>9, <1>10, <1>11 DEF IInv

\* A version is put under its own moment: no version bore it, and none waits to be dropped.
LEMMA PutKeeps ==
  ASSUME IInv, NEW t \in Tabs, PutVersion(t)
  PROVE  IInv'
<1> DEFINE p == save[t].project
           a == save[t].at
<1>1. /\ p \in Projects /\ a \in Moment /\ a \in 1 .. tick
      /\ save[t].phase = "version" /\ save[t].createVersion \in BOOLEAN
      /\ save[t] = [phase |-> save[t].phase, project |-> p, at |-> a,
                    createVersion |-> save[t].createVersion]
  BY SaveTypes DEF PutVersion, IInv, Fresh, Called
<1>2. /\ versions' = [versions EXCEPT ![p] = @ \cup {a}]
      /\ written' = [written EXCEPT ![p] = @ \cup {a}]
      /\ save' = [save EXCEPT ![t].phase = "trim"]
      /\ UNCHANGED <<tick, stored, queue, recovery, legacy, active, push, remote, timer>>
  BY DEF PutVersion, Continue
<1>3. /\ save' \in [Tabs -> SaveCall]
      /\ \A u \in Tabs \ {t} : save'[u] = save[u]
      /\ save'[t].phase = "trim" /\ save'[t].at = a
  <2>1. save'[t] = [phase |-> "trim", project |-> p, at |-> a,
                    createVersion |-> save[t].createVersion]
    BY <1>1, <1>2 DEF IInv, TypeOK
  <2> QED BY <2>1, <1>1, <1>2 DEF IInv, TypeOK, SaveCall
<1> HIDE DEF p, a
<1>4. /\ versions' \in [Projects -> SUBSET Moment] /\ written' \in [Projects -> SUBSET Moment]
      /\ versions'[p] = versions[p] \cup {a} /\ written'[p] = written[p] \cup {a}
      /\ \A q \in Projects \ {p} : versions'[q] = versions[q] /\ written'[q] = written[q]
  BY <1>1, <1>2 DEF IInv, TypeOK
<1>5. TypeOK' BY <1>2, <1>3, <1>4 DEF IInv, TypeOK, remote, PushCall
<1>6. \A m : Asked(m)' <=> Asked(m) BY <1>2 DEF Asked, Busy, Pushing
<1>7. \A m : Put(m)' => Put(m) \/ m = a
  <2>1. \A u \in Tabs : save'[u].phase = "drop" => save'[u] = save[u] BY <1>3
  <2> QED BY <1>4, <2>1 DEF Put
<1>8. Fresh'
  <2>1. \A u \in Tabs : Unput(u)' => u # t /\ Unput(u) /\ save'[u].at = save[u].at
                                      /\ save[u].at # a
    BY <1>1, <1>3 DEF IInv, Fresh, Unput, a
  <2>2. \A u \in Tabs : Called(u)' => Called(u) /\ save'[u].at = save[u].at
    BY <1>1, <1>3 DEF Called, a
  <2>3. \A u \in Tabs : save'[u].phase = "write" => save'[u] = save[u] BY <1>3
  <2>4. \A m \in Moment : Asked(m)' \/ Put(m)' => m <= tick'
    BY <1>1, <1>2, <1>6, <1>7 DEF IInv, Fresh
  <2> QED BY <1>2, <1>6, <1>7, <2>1, <2>2, <2>3, <2>4 DEF IInv, Fresh
<1>9. QueueTellsState' BY <1>2 DEF IInv, QueueTellsState
<1>10. Current' BY <1>2 DEF IInv, Current, Queued, Pushing
<1>11. Kept'
  <2>1. \A q \in Projects : \A v : Outdated(q, v) => Outdated(q, v)'
    <3> TAKE q \in Projects
    <3>1. written[q] \subseteq written'[q] /\ written'[q] \subseteq Moment BY <1>4
    <3> QED BY <3>1, NewerGrows DEF Outdated
  <2>2. ~Put(a) BY <1>1 DEF IInv, Fresh, Unput, a
  <2>3. \A q \in Projects : written'[q] \ versions'[q] \subseteq written[q] \ versions[q]
    BY <1>4
  <2>4. \A q \in Projects : versions'[q] \subseteq written'[q] BY <1>4 DEF IInv, Kept
  <2>5. \A u \in Tabs : save'[u].phase = "drop" =>
          /\ save'[u] = save[u] /\ save[u].project \in Projects
          /\ a \notin save[u].excess
          /\ save[u].excess \cap written'[save[u].project]
               \subseteq save[u].excess \cap written[save[u].project]
    <3> TAKE u \in Tabs
    <3> HAVE save'[u].phase = "drop"
    <3>1. u # t /\ save'[u] = save[u] /\ save[u].phase = "drop" BY <1>3
    <3>2. save[u].project \in Projects BY <3>1, SaveTypes DEF IInv
    <3>3. a \notin save[u].excess BY <2>2, <3>1 DEF Put
    <3>4. written'[save[u].project] \subseteq written[save[u].project] \cup {a}
      BY <1>4, <3>2
    <3> QED BY <3>1, <3>2, <3>3, <3>4
  <2> QED BY <2>1, <2>3, <2>4, <2>5 DEF IInv, Kept
<1> QED BY <1>5, <1>8, <1>9, <1>10, <1>11 DEF IInv

\* Trimming lists what is outdated, and deletes only that.
LEMMA ListKeeps ==
  ASSUME IInv, NEW t \in Tabs, ListExcess(t), Excess(versions[save[t].project]) # {}
  PROVE  IInv'
<1> DEFINE p == save[t].project
           x == Excess(versions[p])
<1>1. save[t].phase = "trim" /\ p \in Projects /\ versions[p] \subseteq written[p]
      /\ written[p] \subseteq Moment /\ x \subseteq versions[p]
  BY SaveTypes DEF ListExcess, IInv, Called, Kept, TypeOK, Excess
<1>2. /\ save' = [save EXCEPT ![t] = [phase |-> "drop", project |-> p, excess |-> x]]
      /\ UNCHANGED <<Core, recovery, legacy, active, timer, push, remote>>
  BY DEF ListExcess, device, Core
<1>3. save' \in [Tabs -> SaveCall] /\ \A u \in Tabs \ {t} : save'[u] = save[u]
  BY <1>1, <1>2 DEF IInv, TypeOK, SaveCall
<1>4. save'[t] = [phase |-> "drop", project |-> p, excess |-> x]
  BY <1>2 DEF IInv, TypeOK
<1>5. \A v \in x : Outdated(p, v)
  BY <1>1, NewerGrows DEF Excess, Outdated
<1> HIDE DEF p, x
<1>6. TypeOK' BY <1>2, <1>3 DEF Core, IInv, TypeOK, remote, PushCall
<1>7. \A m : Asked(m)' <=> Asked(m) BY <1>2 DEF Core, Asked, Busy, Pushing
<1>8. \A m : Put(m)' => Put(m) BY <1>1, <1>2, <1>3, <1>4 DEF Core, Put
<1>9. Fresh'
  <2>1. \A u \in Tabs : save'[u].phase # "drop" => save'[u] = save[u] BY <1>3, <1>4
  <2> QED BY <1>2, <1>7, <1>8, <2>1 DEF Core, IInv, Fresh, Called, Unput
<1>10. QueueTellsState' BY <1>2 DEF Core, IInv, QueueTellsState
<1>11. Current' BY <1>2 DEF Core, IInv, Current, Queued, Pushing
<1>12. Kept'
  <2>1. \A q, v : Outdated(q, v)' <=> Outdated(q, v) BY <1>2 DEF Core, Outdated, Newer
  <2>2. \A u \in Tabs \ {t} : save'[u] = save[u] BY <1>3
  <2> QED BY <1>2, <1>4, <1>5, <2>1, <2>2 DEF Core, IInv, Kept
<1> QED BY <1>6, <1>9, <1>10, <1>11, <1>12 DEF IInv

LEMMA DropKeeps ==
  ASSUME IInv, NEW t \in Tabs, DropExcess(t)
  PROVE  IInv'
<1> DEFINE p == save[t].project
<1>1. save[t].phase = "drop" /\ p \in Projects BY SaveTypes DEF DropExcess, IInv
<1>2. /\ versions' = [versions EXCEPT ![p] = @ \ save[t].excess]
      /\ save' = [save EXCEPT ![t] = NoSave] /\ timer' = [timer EXCEPT ![t] = TRUE]
      /\ UNCHANGED <<tick, stored, queue, recovery, legacy, active, push, remote, written>>
  BY DEF DropExcess, Saved
<1>3. /\ save' \in [Tabs -> SaveCall] /\ timer' \in [Tabs -> BOOLEAN]
      /\ \A u \in Tabs : save'[u].phase # "idle" => u # t /\ save'[u] = save[u]
  BY <1>2 DEF IInv, TypeOK, SaveCall, NoSave
<1>4. /\ versions' \in [Projects -> SUBSET Moment]
      /\ versions'[p] = versions[p] \ save[t].excess
      /\ \A q \in Projects \ {p} : versions'[q] = versions[q]
  BY <1>1, <1>2 DEF IInv, TypeOK
<1>5. TypeOK' BY <1>2, <1>3, <1>4 DEF IInv, TypeOK, remote, PushCall
<1>6. \A m : Asked(m)' <=> Asked(m) BY <1>2 DEF Asked, Busy, Pushing
<1>7. \A m : Put(m)' => Put(m) BY <1>2, <1>3 DEF Put
<1>8. Fresh' BY <1>2, <1>3, <1>6, <1>7 DEF IInv, Fresh, Called, Unput
<1>9. QueueTellsState' BY <1>2 DEF IInv, QueueTellsState
<1>10. Current' BY <1>2 DEF IInv, Current, Queued, Pushing
<1>11. Kept'
  <2>1. \A q, v : Outdated(q, v)' <=> Outdated(q, v) BY <1>2 DEF Outdated, Newer
  <2>2. \A v \in save[t].excess \cap written[p] : Outdated(p, v) BY <1>1 DEF IInv, Kept
  <2>3. \A q \in Projects : versions'[q] \subseteq written[q] BY <1>4 DEF IInv, Kept
  <2>4. \A q \in Projects : \A v \in written[q] \ versions'[q] : Outdated(q, v)
    BY <1>4, <2>2 DEF IInv, Kept
  <2> HIDE DEF p
  <2> QED BY <1>2, <1>3, <2>1, <2>3, <2>4 DEF IInv, Kept
<1> QED BY <1>5, <1>8, <1>9, <1>10, <1>11 DEF IInv

-----------------------------------------------------------------------------
(* Removal and the flushes *)

LEMMA RemoveKeeps ==
  ASSUME IInv, NEW p \in Projects, RemoveProject(p)
  PROVE  IInv'
<1>1. /\ tick \in Nat /\ tick' = tick + 1 /\ tick' \in Moment
  BY BoundsAssumption DEF RemoveProject, IInv, TypeOK, Moment
<1>2. /\ stored' = [stored EXCEPT ![p] = NoProject]
      /\ queue' = [queue EXCEPT ![p] = [operation |-> "delete", at |-> tick + 1]]
      /\ versions' = [versions EXCEPT ![p] = {}]
      /\ written' = [written EXCEPT ![p] = {}]
      /\ UNCHANGED <<active, save, timer, push, remote>>
  BY <1>1 DEF RemoveProject
<1>3. recovery' \in [Projects -> Moment] /\ legacy' \in Moment
  BY BoundsAssumption DEF RemoveProject, IInv, TypeOK, Moment
<1>4. /\ stored'[p] = NoProject /\ queue'[p] = [operation |-> "delete", at |-> tick + 1]
      /\ versions'[p] = {} /\ written'[p] = {}
      /\ \A q \in Projects \ {p} :
           /\ stored'[q] = stored[q] /\ queue'[q] = queue[q]
           /\ versions'[q] = versions[q] /\ written'[q] = written[q]
  BY <1>2 DEF IInv, TypeOK
<1>5. TypeOK'
  <2>1. /\ stored' \in [Projects -> [rev : Moment, syncState : {"none", "pending", "synced"}]]
        /\ queue' \in [Projects -> {NoChange} \cup [operation : {"upsert", "delete"}, at : Moment]]
        /\ {versions, written}' \subseteq [Projects -> SUBSET Moment]
    BY <1>1, <1>2, BoundsAssumption DEF IInv, TypeOK, Moment, NoProject
  <2> QED BY <1>1, <1>2, <1>3, <2>1 DEF IInv, TypeOK, remote, PushCall
<1>6. \A m : Asked(m)' => Asked(m) \/ m = tick + 1 BY <1>2, <1>4 DEF Asked, Busy, Pushing
<1>7. \A m : Put(m)' => Put(m) BY <1>2, <1>4 DEF Put
<1>8. Fresh'
  <2>1. \A t \in Tabs : Called(t) => save[t].at \in 1 .. tick' /\ save[t].at # tick + 1
    BY <1>1 DEF IInv, Fresh
  <2>2. \A t \in Tabs : save[t].phase = "write" => ~Asked(save[t].at)'
    <3> TAKE t \in Tabs
    <3> HAVE save[t].phase = "write"
    <3>1. ~Asked(save[t].at) /\ save[t].at # tick + 1 BY <2>1 DEF IInv, Fresh, Called
    <3> QED BY <1>2, <1>6, <3>1
  <2>3. \A m \in Moment : Asked(m)' \/ Put(m)' => m <= tick'
    BY <1>1, <1>6, <1>7, MomentFinite DEF IInv, Fresh
  <2> QED BY <1>2, <1>7, <2>1, <2>2, <2>3 DEF IInv, Fresh, Called, Unput
<1>9. QueueTellsState' BY <1>4 DEF IInv, QueueTellsState
<1>10. Current'
  <2>1. SUFFICES ASSUME NEW f \in Flushes, Pushing(f), push[f].change.operation = "upsert",
                        ~push[f].fallback, Queued(push[f].change)'
                 PROVE  push[f].meta = push[f].change.at
    BY <1>2 DEF Current, Pushing
  <2>2. push[f].change.project \in Projects \ {p}
    BY <1>2, <1>4, <2>1, PushTypes DEF Queued, IInv, Listing
  <2>3. Queued(push[f].change) BY <1>2, <1>4, <2>1, <2>2 DEF Queued
  <2> QED BY <2>1, <2>3 DEF IInv, Current
<1>11. Kept'
  <2>1. \A q \in Projects \ {p} : \A v : Outdated(q, v)' <=> Outdated(q, v)
    BY <1>4 DEF Outdated, Newer
  <2>2. \A t \in Tabs : save[t].phase = "drop" => save[t].project \in Projects
    BY SaveTypes DEF IInv
  <2> QED BY <1>2, <1>4, <2>1, <2>2 DEF IInv, Kept
<1> QED BY <1>5, <1>8, <1>9, <1>10, <1>11 DEF IInv

\* Pushes that list, read or end: no new moment is asked of, and what a push has read of
\* the queued change is what was stored.
PushesMove ==
  /\ DOMAIN push' = Flushes /\ \A f \in Flushes : PushCall(push'[f])
  /\ \A m : Asked(m)' => Asked(m)
  /\ Current'
  /\ UNCHANGED <<Core, recovery, legacy, active>>
  /\ timer' \in [Tabs -> BOOLEAN] /\ late' \subseteq Request
  /\ cloud' \in [Projects -> [operation : {"none", "upsert", "delete"},
                              meta : Moment, snapshot : Moment]]
  /\ save' \in [Tabs -> SaveCall]
  /\ \A t \in Tabs : save'[t] = save[t] \/ save'[t] = NoSave

LEMMA PushesKeep == ASSUME IInv, PushesMove PROVE IInv'
<1>1. TypeOK' BY DEF PushesMove, Core, IInv, TypeOK, PushCall
<1>2. \A t \in Tabs : save'[t].phase # "idle" => save'[t] = save[t]
  BY DEF PushesMove, NoSave
<1>3. \A m : Put(m)' => Put(m) BY <1>2 DEF PushesMove, Core, Put
<1>4. Fresh' BY <1>2, <1>3 DEF PushesMove, Core, IInv, Fresh, Called, Unput
<1>5. QueueTellsState' BY DEF PushesMove, Core, IInv, QueueTellsState
<1>6. Kept' BY <1>2 DEF PushesMove, Core, IInv, Kept, Outdated, Newer
<1> QED BY <1>1, <1>4, <1>5, <1>6 DEF PushesMove, IInv

LEMMA ListingKeeps ==
  ASSUME IInv, NEW t \in Tabs, NEW f \in Flushes, FlushSync(t, f)
  PROVE  IInv'
<1>1. UNCHANGED <<Core, recovery, legacy, active, save, late, cloud>>
      /\ timer' \in [Tabs -> BOOLEAN]
  BY DEF FlushSync, device, Core, remote, IInv, TypeOK
<1>2. CASE push' = push
  <2>1. PushesMove
    <3>1. \A m : Asked(m)' => Asked(m) BY <1>1, <1>2 DEF Core, Asked, Busy, Pushing
    <3>2. Current' BY <1>1, <1>2 DEF Core, IInv, Current, Queued, Pushing
    <3> QED BY <1>1, <1>2, <3>1, <3>2 DEF PushesMove, IInv, TypeOK
  <2> QED BY <2>1, PushesKeep
<1>3. CASE /\ Listed # {}
           /\ push' = [push EXCEPT ![f] = [phase |-> "next", tab |-> t, todo |-> Listed]]
  <2>1. Listed \in (SUBSET Listing) \ {{}}
        /\ \A c \in Listed : \E p \in Projects : queue[p].at = c.at
    <3>1. \A p \in Projects : queue[p] # NoChange =>
            queue[p].operation \in {"upsert", "delete"} /\ queue[p].at \in Moment
      BY DEF IInv, TypeOK
    <3>2. Listed \subseteq Listing BY <3>1 DEF Listed, Listing
    <3>3. \A c \in Listed : \E p \in Projects : queue[p].at = c.at BY DEF Listed
    <3> QED BY <1>3, <3>2, <3>3
  <2>2. /\ push'[f] = [phase |-> "next", tab |-> t, todo |-> Listed]
        /\ \A g \in Flushes \ {f} : push'[g] = push[g]
        /\ DOMAIN push' = Flushes
    BY <1>3 DEF IInv, TypeOK
  <2>3. \A g \in Flushes : PushCall(push'[g]) BY <2>1, <2>2 DEF PushCall, IInv, TypeOK
  <2>4. \A m : Asked(m)' => Asked(m) BY <1>1, <2>1, <2>2 DEF Core, Asked, Busy, Pushing
  <2>5. Current' BY <1>1, <2>2 DEF Core, IInv, Current, Queued, Pushing
  <2>6. PushesMove BY <1>1, <2>2, <2>3, <2>4, <2>5 DEF PushesMove, IInv, TypeOK
  <2> QED BY <2>6, PushesKeep
<1> QED BY <1>2, <1>3 DEF FlushSync

\* One push goes on with the same change, or ends; nothing else of the device changes.
Onward(f, call) ==
  /\ push' = [push EXCEPT ![f] = call]
  /\ PushCall(call)
  /\ UNCHANGED <<Core, recovery, legacy, active, save, timer>>
  /\ late' \subseteq Request
  /\ cloud' \in [Projects -> [operation : {"none", "upsert", "delete"},
                              meta : Moment, snapshot : Moment]]

LEMMA OnwardMoves ==
  ASSUME IInv, NEW f \in Flushes, NEW call, Onward(f, call),
         call.phase \in {"next", "read", "sent", "accepted"} =>
           Busy(f) /\ call.todo \subseteq push[f].todo,
         call.phase \in {"read", "sent", "accepted"} =>
           /\ call.change \in push[f].todo \/ (Pushing(f) /\ call.change = push[f].change)
           /\ call.change.operation = "upsert" /\ ~call.fallback /\ Queued(call.change)
                => call.meta = call.change.at
  PROVE  PushesMove
<1>1. push'[f] = call /\ DOMAIN push' = Flushes /\ \A g \in Flushes \ {f} : push'[g] = push[g]
  BY DEF Onward, IInv, TypeOK
<1>2. \A g \in Flushes : PushCall(push'[g]) BY <1>1 DEF Onward, IInv, TypeOK
<1>3. \A m : Asked(m)' => Asked(m)
  <2>1. SUFFICES ASSUME NEW m, Asked(m)' PROVE Asked(m) OBVIOUS
  <2>2. CASE \E p \in Projects : queue'[p].at = m BY <2>2 DEF Onward, Core, Asked
  <2>3. ASSUME NEW g \in Flushes,
               (Busy(g)' /\ \E c \in push'[g].todo : c.at = m)
                 \/ (Pushing(g)' /\ push'[g].change.at = m)
        PROVE  Asked(m)
    <3>1. CASE g # f BY <3>1, <2>3, <1>1 DEF Asked, Busy, Pushing
    <3>2. CASE g = f BY <3>2, <2>3, <1>1 DEF Asked, Busy, Pushing
    <3> QED BY <3>1, <3>2
  <2> QED BY <2>1, <2>2, <2>3 DEF Asked
<1>4. Current'
  <2>1. SUFFICES ASSUME NEW g \in Flushes, Pushing(g)',
                        push'[g].change.operation = "upsert", ~push'[g].fallback,
                        Queued(push'[g].change)
                 PROVE  push'[g].meta = push'[g].change.at
    BY DEF Current, Onward, Core, Queued
  <2>2. CASE g = f BY <2>1, <2>2, <1>1 DEF Pushing
  <2>3. CASE g # f BY <2>1, <2>3, <1>1 DEF Pushing, IInv, Current
  <2> QED BY <2>2, <2>3
<1>5. save' \in [Tabs -> SaveCall] /\ timer' \in [Tabs -> BOOLEAN] BY DEF Onward, IInv, TypeOK
<1> QED BY <1>1, <1>2, <1>3, <1>4, <1>5 DEF PushesMove, Onward

LEMMA QueuedRev ==
  ASSUME QueueTellsState, NEW p \in Projects, NEW at,
         queue[p] = [operation |-> "upsert", at |-> at]
  PROVE  stored[p].rev = at
<1>1. queue[p].operation = "upsert" /\ queue[p].at = at OBVIOUS
<1>2. stored[p] = [rev |-> queue[p].at, syncState |-> "pending"] BY <1>1 DEF QueueTellsState
<1> QED BY <1>1, <1>2

LEMMA ReadKeeps == ASSUME IInv, NEW f \in Flushes, ReadProject(f) PROVE IInv'
<1>1. PICK c \in Oldest(push[f].todo), fallback \in BOOLEAN : Reads(f, c, fallback)
  BY DEF ReadProject
<1> DEFINE call == [phase |-> "read", tab |-> push[f].tab, todo |-> push[f].todo, change |-> c,
                    fallback |-> fallback, meta |-> IF fallback THEN legacy ELSE CurrentRev(c)]
<1>2. /\ Busy(f) /\ push[f].tab \in Tabs /\ push[f].todo \subseteq Listing
      /\ c \in push[f].todo /\ c \in Listing
  BY <1>1, PushTypes DEF ReadProject, Busy, Oldest, IInv
<1>3. CurrentRev(c) \in Moment /\ legacy \in Moment
  <2>1. 0 \in Moment BY BoundsAssumption DEF Moment
  <2>2. stored[c.project].rev \in Moment BY <1>2 DEF IInv, TypeOK, Listing
  <2>3. legacy \in Moment BY DEF IInv, TypeOK
  <2> QED BY <2>1, <2>2, <2>3 DEF CurrentRev
<1>4. c.operation = "upsert" /\ Queued(c) => CurrentRev(c) = c.at
  <2>1. c.project \in Projects BY <1>2 DEF Listing
  <2>2. Queued(c) => stored[c.project].rev = c.at
    BY <2>1, QueuedRev DEF Queued, IInv
  <2> QED BY <2>2 DEF CurrentRev
<1>5. PushCall(call) BY <1>2, <1>3 DEF PushCall, Reading
<1>6. Onward(f, call)
  BY <1>1, <1>5 DEF Onward, Reads, ReadProject, device, Core, remote, IInv, TypeOK
<1>7. /\ call.phase = "read" /\ call.todo = push[f].todo /\ call.change = c
      /\ ~call.fallback => call.meta = CurrentRev(c)
  OBVIOUS
<1> HIDE DEF call
<1>8. PushesMove BY <1>2, <1>4, <1>6, <1>7, OnwardMoves
<1> QED BY <1>8, PushesKeep

LEMMA SendKeeps == ASSUME IInv, NEW f \in Flushes, Send(f) PROVE IInv'
<1> DEFINE call == [phase |-> "sent", tab |-> push[f].tab, todo |-> push[f].todo,
                    change |-> push[f].change, fallback |-> push[f].fallback,
                    meta |-> push[f].meta, body |-> Body(f)]
<1>1. /\ Busy(f) /\ Pushing(f) /\ push[f].tab \in Tabs /\ push[f].todo \subseteq Listing
      /\ push[f].change \in Listing /\ push[f].fallback \in BOOLEAN /\ push[f].meta \in Moment
  BY PushTypes DEF Send, Busy, Pushing, IInv
<1>2. Body(f) \in Request
  BY <1>1, BoundsAssumption DEF Body, Request, Listing, IInv, TypeOK, Moment
<1>3. PushCall(call) BY <1>1, <1>2 DEF PushCall, Waiting
<1>4. Onward(f, call) BY <1>3 DEF Onward, Send, device, Core, remote, IInv, TypeOK
<1>5. /\ call.phase = "sent" /\ call.todo = push[f].todo /\ call.change = push[f].change
      /\ call.fallback = push[f].fallback /\ call.meta = push[f].meta
  OBVIOUS
<1> HIDE DEF call
<1>6. PushesMove BY <1>1, <1>4, <1>5, OnwardMoves DEF IInv, Current
<1> QED BY <1>6, PushesKeep

LEMMA CommittedTypes ==
  ASSUME TypeOK, NEW body \in Request, Committed(body)
  PROVE  cloud' \in [Projects -> [operation : {"none", "upsert", "delete"},
                                  meta : Moment, snapshot : Moment]]
BY DEF TypeOK, Committed, Request

LEMMA AcceptKeeps == ASSUME IInv, NEW f \in Flushes, Accept(f) PROVE IInv'
<1> DEFINE call == [push[f] EXCEPT !.phase = "accepted"]
<1>1. /\ Busy(f) /\ Pushing(f) /\ push[f].body \in Request /\ push[f] \in Waiting
  <2>1. PushCall(push[f]) BY DEF IInv, TypeOK
  <2> QED BY <2>1, PushTypes
    DEF Accept, PushCall, NoPush, Reading, Busy, Pushing, IInv
<1>2. cloud' \in [Projects -> [operation : {"none", "upsert", "delete"},
                               meta : Moment, snapshot : Moment]]
  BY <1>1, CommittedTypes DEF Accept, IInv
<1>3. call \in Waiting /\ PushCall(call) BY <1>1 DEF PushCall, Waiting
<1>4. Onward(f, call) BY <1>2, <1>3 DEF Onward, Accept, device, Core, IInv, TypeOK
<1>5. /\ call.phase = "accepted" /\ call.todo = push[f].todo /\ call.change = push[f].change
      /\ call.fallback = push[f].fallback /\ call.meta = push[f].meta
  BY <1>1 DEF Waiting
<1> HIDE DEF call
<1>6. PushesMove BY <1>1, <1>4, <1>5, OnwardMoves DEF IInv, Current
<1> QED BY <1>6, PushesKeep

LEMMA QuitKeeps ==
  ASSUME IInv, NEW f \in Flushes, Refuse(f) \/ TimeOut(f) \/ AcknowledgeFails(f)
  PROVE  IInv'
<1>1. late' \subseteq Request
  BY PushTypes DEF Refuse, TimeOut, AcknowledgeFails, remote, IInv, TypeOK
<1>2. Onward(f, NoPush)
  BY <1>1 DEF Onward, Refuse, TimeOut, AcknowledgeFails, Quit, device, Core, remote, PushCall,
              IInv, TypeOK
<1>3. NoPush.phase = "idle" BY DEF NoPush
<1>4. PushesMove BY <1>2, <1>3, OnwardMoves
<1> QED BY <1>4, PushesKeep

LEMMA CloseKeeps == ASSUME IInv, NEW t \in Tabs, ClosePage(t) PROVE IInv'
<1>1. /\ DOMAIN push' = Flushes
      /\ \A f \in Flushes : push'[f] = push[f] \/ push'[f] = NoPush
  BY DEF ClosePage
<1>2. \A f \in Flushes : push'[f].phase # "idle" => push'[f] = push[f] BY <1>1 DEF NoPush
<1>3. \A f \in Flushes : PushCall(push'[f]) BY <1>1 DEF PushCall, IInv, TypeOK
<1>4. late' \subseteq Request
  <2>1. \A f \in Flushes : push[f].phase = "sent" => push[f].body \in Request
    BY PushTypes DEF IInv
  <2> QED BY <2>1 DEF ClosePage, IInv, TypeOK
<1>5. UNCHANGED <<Core, recovery, legacy, active, cloud>> BY DEF ClosePage, device, Core
<1>6. \A m : Asked(m)' => Asked(m) BY <1>2, <1>5 DEF Core, Asked, Busy, Pushing
<1>7. Current' BY <1>2, <1>5 DEF Core, IInv, Current, Queued, Pushing
<1>8. /\ save' \in [Tabs -> SaveCall] /\ timer' \in [Tabs -> BOOLEAN]
      /\ \A u \in Tabs : save'[u] = save[u] \/ save'[u] = NoSave
  BY DEF ClosePage, IInv, TypeOK, SaveCall
<1>9. PushesMove BY <1>1, <1>3, <1>4, <1>5, <1>6, <1>7, <1>8 DEF PushesMove, IInv, TypeOK
<1> QED BY <1>9, PushesKeep

\* The acknowledged change leaves the queue together with the pending mark.
LEMMA AcknowledgeKeeps == ASSUME IInv, NEW f \in Flushes, Acknowledge(f) PROVE IInv'
<1> DEFINE c == push[f].change
           p == push[f].change.project
<1>1. /\ Busy(f) /\ Pushing(f) /\ c \in Listing /\ p \in Projects
      /\ push[f].tab \in Tabs /\ push[f].todo \subseteq Listing
  BY PushTypes DEF Acknowledge, Busy, Pushing, IInv, Listing
<1>2. /\ queue' = [queue EXCEPT ![p] = NoChange]
      /\ stored' = stored \/ stored' = [stored EXCEPT ![p].syncState = "synced"]
      /\ UNCHANGED <<tick, versions, recovery, legacy, active, save, timer, remote, written>>
  BY DEF Acknowledge, Unqueued
<1>3. /\ DOMAIN push' = Flushes
      /\ \A g \in Flushes \ {f} : push'[g] = push[g]
      /\ \/ push'[f] = NoPush
         \/ \E todo \in (SUBSET push[f].todo) \ {{}} :
              push'[f] = [phase |-> "next", tab |-> push[f].tab, todo |-> todo]
  BY DEF Acknowledge, Pushed, IInv, TypeOK
<1> HIDE DEF c, p
<1>4. /\ queue'[p] = NoChange
      /\ \A q \in Projects \ {p} : queue'[q] = queue[q] /\ stored'[q] = stored[q]
  BY <1>1, <1>2 DEF IInv, TypeOK
<1>5. TypeOK'
  <2>1. \A g \in Flushes : PushCall(push'[g])
    <3>1. PushCall(push'[f]) BY <1>1, <1>3 DEF PushCall
    <3> QED BY <1>3, <3>1 DEF PushCall, IInv, TypeOK
  <2>2. /\ stored' \in [Projects -> [rev : Moment, syncState : {"none", "pending", "synced"}]]
        /\ queue' \in [Projects -> {NoChange} \cup [operation : {"upsert", "delete"}, at : Moment]]
    BY <1>1, <1>2 DEF IInv, TypeOK
  <2> QED BY <1>2, <1>3, <2>1, <2>2 DEF IInv, TypeOK, remote
<1>6. \A m : Asked(m)' => Asked(m) \/ m = 0
  <2>1. SUFFICES ASSUME NEW m, Asked(m)', m # 0 PROVE Asked(m) OBVIOUS
  <2>2. CASE \E q \in Projects : queue'[q].at = m
    BY <1>4, <2>1, <2>2 DEF NoChange, Asked
  <2>3. ASSUME NEW g \in Flushes,
               (Busy(g)' /\ \E d \in push'[g].todo : d.at = m)
                 \/ (Pushing(g)' /\ push'[g].change.at = m)
        PROVE  Asked(m)
    <3>1. CASE g # f BY <3>1, <2>3, <1>3 DEF Asked, Busy, Pushing
    <3>2. CASE g = f BY <3>2, <2>3, <1>1, <1>3 DEF Asked, Busy, Pushing, NoPush
    <3> QED BY <3>1, <3>2
  <2> QED BY <2>1, <2>2, <2>3 DEF Asked
<1>7. \A m : Put(m)' <=> Put(m) BY <1>2 DEF Put
<1>8. Fresh'
  <2>1. \A t \in Tabs : Called(t) => save[t].at \in 1 .. tick /\ save[t].at # 0
    BY DEF IInv, Fresh, TypeOK, Moment
  <2>2. \A t \in Tabs : save[t].phase = "write" => ~Asked(save[t].at)'
    <3> TAKE t \in Tabs
    <3> HAVE save[t].phase = "write"
    <3>1. ~Asked(save[t].at) /\ save[t].at # 0 BY <2>1 DEF IInv, Fresh, Called
    <3> QED BY <1>2, <1>6, <3>1
  <2>3. \A m \in Moment : Asked(m)' \/ Put(m)' => m <= tick'
    BY <1>2, <1>6, <1>7, BoundsAssumption DEF IInv, Fresh, TypeOK, Moment
  <2> QED BY <1>2, <1>7, <2>1, <2>2, <2>3 DEF IInv, Fresh, Called, Unput
<1>9. QueueTellsState' BY <1>4 DEF IInv, QueueTellsState, NoChange
<1>10. Current'
  <2>1. SUFFICES ASSUME NEW g \in Flushes, Pushing(g)', push'[g].change.operation = "upsert",
                        ~push'[g].fallback, Queued(push[g].change)'
                 PROVE  push'[g].meta = push'[g].change.at
    BY DEF Current, Pushing, Queued
  <2>2. g # f BY <2>1, <1>3 DEF Pushing, NoPush
  <2>3. push'[g] = push[g] /\ Pushing(g) BY <2>1, <2>2, <1>3 DEF Pushing
  <2>4. push[g].change \in Listing BY <2>3, PushTypes DEF IInv
  <2>5. push[g].change.project \in Projects BY <2>4 DEF Listing
  <2>6. queue'[push[g].change.project] = [operation |-> "upsert", at |-> push[g].change.at]
    BY <2>1, <2>3 DEF Queued
  <2>7. push[g].change.project # p BY <1>4, <2>6 DEF NoChange
  <2>8. Queued(push[g].change) BY <1>4, <2>5, <2>6, <2>7 DEF Queued
  <2> QED BY <2>1, <2>3, <2>8 DEF IInv, Current
<1>11. Kept' BY <1>2 DEF IInv, Kept, Outdated, Newer
<1> QED BY <1>5, <1>8, <1>9, <1>10, <1>11 DEF IInv

-----------------------------------------------------------------------------
(* Every step, and the theorems *)

LEMMA Initially == Init => IInv
<1> SUFFICES ASSUME Init PROVE IInv OBVIOUS
<1>1. 0 \in Moment BY BoundsAssumption DEF Moment
<1>2. TypeOK
  BY <1>1 DEF Init, TypeOK, NoProject, NoChange, NoSave, NoPush, SaveCall, PushCall
<1>3. /\ \A m : Asked(m) => m = 0
      /\ \A m : ~Put(m)
  BY DEF Init, Asked, Put, NoChange, NoSave, NoPush, Busy, Pushing
<1>4. Fresh BY <1>3 DEF Init, Fresh, Called, Unput, NoSave
<1>5. QueueTellsState BY DEF Init, QueueTellsState, NoChange
<1>6. Current BY DEF Init, Current, Pushing, NoPush
<1>7. Kept BY DEF Init, Kept, NoSave
<1> QED BY <1>2, <1>4, <1>5, <1>6, <1>7 DEF IInv

LEMMA SaveKeeps == ASSUME IInv, NEW t \in Tabs, Save(t) PROVE IInv'
<1>1. ASSUME NEW p \in Projects, SaveProject(t, p) PROVE IInv'
  <2>1. Begins(t, p, TRUE)
    BY <1>1, BoundsAssumption DEF SaveProject, Begins, IInv, TypeOK, Moment
  <2> QED BY <2>1, BeginsKeeps
<1>2. CASE MigrateLegacy(t)
  <2>1. active \in Projects /\ Begins(t, active, FALSE)
    BY <1>2 DEF MigrateLegacy, Begins, device, IInv, TypeOK
  <2> QED BY <2>1, BeginsKeeps
<1>3. CASE StoreProject(t) BY <1>3, StoreKeeps
<1>4. CASE StoreFails(t) \/ SkipVersion(t) \/ (ListExcess(t) /\ Excess(versions[save[t].project]) = {})
  <2>1. save[t].phase = "write" => save[t].at \in Moment BY SaveTypes DEF IInv, Called
  <2>2. Ends(t)
    BY <1>4, <2>1 DEF Ends, StoreFails, SkipVersion, ListExcess, Saved, device, Core, IInv, TypeOK
  <2> QED BY <2>2, EndsKeeps
<1>5. CASE PutVersion(t) BY <1>5, PutKeeps
<1>6. CASE ListExcess(t) /\ Excess(versions[save[t].project]) # {} BY <1>6, ListKeeps
<1>7. CASE DropExcess(t) BY <1>7, DropKeeps
<1> QED BY <1>1, <1>2, <1>3, <1>4, <1>5, <1>6, <1>7 DEF Save

LEMMA LibraryKeeps == ASSUME IInv, NEW p \in Projects, Library(p) PROVE IInv'
<1>1. CASE RemoveProject(p) BY <1>1, RemoveKeeps
<1>2. CASE RestoreVersion(p) \/ SetActiveProjectId(p)
  <2>1. /\ recovery' \in [Projects -> Moment] /\ active' \in Projects
        /\ UNCHANGED <<Core, legacy, save, timer, push, remote>>
    BY <1>2 DEF RestoreVersion, SetActiveProjectId, Core, IInv, TypeOK
  <2>2. TypeOK' BY <2>1 DEF Core, remote, IInv, TypeOK, PushCall
  <2> QED BY <2>1, <2>2, ElsewhereKeeps
<1> QED BY <1>1, <1>2 DEF Library

LEMMA ScheduleKeeps == ASSUME IInv, NEW t \in Tabs, ScheduleFlush(t) PROVE IInv'
<1>1. UNCHANGED <<Core, save, push>> BY DEF ScheduleFlush, device, Core
<1>2. TypeOK' BY DEF ScheduleFlush, device, remote, IInv, TypeOK, PushCall
<1> QED BY <1>1, <1>2, ElsewhereKeeps

LEMMA LandKeeps == ASSUME IInv, NEW body \in late, Land(body) PROVE IInv'
<1>1. UNCHANGED <<Core, save, push>> BY DEF Land, device, Core
<1>2. body \in Request /\ Committed(body) BY DEF Land, IInv, TypeOK
<1>3. cloud' \in [Projects -> [operation : {"none", "upsert", "delete"},
                               meta : Moment, snapshot : Moment]]
  BY <1>2, CommittedTypes DEF IInv
<1>4. TypeOK' BY <1>3 DEF Land, device, IInv, TypeOK, PushCall
<1> QED BY <1>1, <1>4, ElsewhereKeeps

LEMMA PushKeeps == ASSUME IInv, NEW f \in Flushes, Push(f) PROVE IInv'
BY ListingKeeps, ReadKeeps, SendKeeps, AcceptKeeps, QuitKeeps, AcknowledgeKeeps DEF Push

LEMMA StutterKeeps == ASSUME IInv, UNCHANGED vars PROVE IInv'
<1>1. UNCHANGED <<Core, save, push>> BY DEF vars, device, Core
<1>2. TypeOK' BY DEF vars, device, remote, IInv, TypeOK, PushCall
<1> QED BY <1>1, <1>2, ElsewhereKeeps

LEMMA Invariance == Spec => []IInv
<1>1. IInv /\ [Next]_vars => IInv'
  BY SaveKeeps, LibraryKeeps, ScheduleKeeps, CloseKeeps, LandKeeps, PushKeeps, StutterKeeps
    DEF Next, Page
<1> QED BY Initially, <1>1, PTL DEF Spec

\* The calls, the device's records and the backend's copies keep their types.
THEOREM TypeCorrect == Spec => []TypeOK
<1>1. IInv => TypeOK BY DEF IInv
<1> QED BY Invariance, <1>1, PTL

\* However saves, removals and acknowledgements cross, the state the library shows of a
\* project agrees with its queued change.
THEOREM QueueAndStateAgree == Spec => []QueueTellsState
<1>1. IInv => QueueTellsState BY DEF IInv
<1> QED BY Invariance, <1>1, PTL

\* A push whose listed change is still the queued one carries what the store holds.
THEOREM UndisturbedIsCurrent == Spec => []UndisturbedPushIsCurrent
<1>1. ASSUME IInv PROVE UndisturbedPushIsCurrent
  <2>1. SUFFICES ASSUME NEW f \in Flushes, Pushing(f), push[f].change.operation = "upsert",
                        ~push[f].fallback,
                        queue[push[f].change.project]
                          = [operation |-> "upsert", at |-> push[f].change.at]
                 PROVE  push[f].meta = stored[push[f].change.project].rev
    BY DEF UndisturbedPushIsCurrent, Pushing
  <2>2. push[f].change \in Listing BY <1>1, <2>1, PushTypes DEF IInv
  <2>3. push[f].meta = push[f].change.at BY <1>1, <2>1 DEF IInv, Current, Queued
  <2>4. stored[push[f].change.project].rev = push[f].change.at
    <3>1. push[f].change.project \in Projects BY <2>2 DEF Listing
    <3> QED BY <1>1, <2>1, <3>1, QueuedRev DEF IInv
  <2> QED BY <2>3, <2>4
<1> QED BY Invariance, <1>1, PTL

\* Concurrent trims never drop one of the MaxVersions newest versions of a project.
THEOREM NewestAreKept == Spec => []NewestVersionsKept
<1>1. IInv => NewestVersionsKept BY DEF IInv, Kept, Outdated, NewestVersionsKept
<1> QED BY Invariance, <1>1, PTL

==============================================================================
