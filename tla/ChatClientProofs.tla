--------------------------- MODULE ChatClientProofs ---------------------------
(***************************************************************************)
(* Proofs about ChatClient, and through it AuthClient, for any tabs,       *)
(* accounts and request keys, and for a chat open in any number of tabs.   *)
(*                                                                         *)
(* A sign-out: a tab that has heard of it has nobody signed in and no      *)
(* refresh whose answer it would still accept.  A reply: whatever a tab    *)
(* holds for an account, in memory or on disk, was asked by that account,  *)
(* and an operation that has a key has the account that asked.  A paid     *)
(* request, with the chat open in at most one tab: whatever was or may yet *)
(* be dispatched has its key pending on disk and in memory.                *)
(***************************************************************************)
EXTENDS ChatClient, SequenceTheorems, TLAPS

Account == Users \cup {Guest}
SigningCall == [user : Users, fresh : BOOLEAN]
RefreshCall == [stage : {"waiting", "called", "served"}, user : Account, fresh : BOOLEAN]
PageRecord ==
  [user : Account, signing : SigningCall \cup {NoCall},
   refreshing : RefreshCall \cup {NoCall}, halted : BOOLEAN]
Event == {"logout", "unblocked"}

AuthTypes ==
  /\ open \subseteq Tabs
  /\ page \in [Tabs -> PageRecord]
  /\ blocked \in BOOLEAN
  /\ told \in [Tabs -> Seq(Event)]
  /\ cookie \in Account

NoLogout(s) == \A i \in DOMAIN s : s[i] # "logout"

\* Nobody is signed in on the page, and it will not accept the answer of a refresh.
Out(p) == p.user = Guest /\ (p.refreshing # NoCall => ~p.refreshing.fresh)

AuthInv ==
  /\ AuthTypes
  /\ \A t \in Tabs : t \notin open => page[t] = NewPage /\ told[t] = <<>>
  /\ \A t \in Tabs : blocked /\ NoLogout(told[t]) => Out(page[t])

-----------------------------------------------------------------------------
(* Pages *)

LEMMA NewPageIsOut == NewPage \in PageRecord /\ Out(NewPage)
BY DEF NewPage, PageRecord, Account, Out

LEMMA ClearedIsOut ==
  ASSUME NEW p \in PageRecord
  PROVE  Cleared(p) \in PageRecord /\ Out(Cleared(p)) /\ Cleared(p).signing \in SigningCall \cup {NoCall}
<1>1. \A c \in SigningCall \cup {NoCall} : Stale(c) \in SigningCall \cup {NoCall}
  BY DEF Stale, SigningCall
<1>2. \A c \in RefreshCall \cup {NoCall} :
        Stale(c) \in RefreshCall \cup {NoCall} /\ (Stale(c) # NoCall => ~Stale(c).fresh)
  BY DEF Stale, RefreshCall
<1> QED BY <1>1, <1>2 DEF Cleared, PageRecord, Out, Account

\* A step of tab t that leaves the events and localStorage alone.
LEMMA PageMoves ==
  ASSUME AuthInv, NEW t \in open, NEW q \in PageRecord,
         page' = [page EXCEPT ![t] = q],
         UNCHANGED <<open, blocked, told>>, cookie' \in Account,
         blocked /\ NoLogout(told[t]) => Out(q)
  PROVE  AuthInv'
BY DEF AuthInv, AuthTypes

LEMMA AuthInitially == Init => AuthInv
<1> SUFFICES ASSUME Init PROVE AuthInv OBVIOUS
<1>1. <<>> \in Seq(Event) OBVIOUS
<1>2. /\ open = Tabs /\ page = [t \in Tabs |-> NewPage] /\ blocked = FALSE
      /\ told = [t \in Tabs |-> <<>>] /\ cookie \in Account
  BY DEF Init, AuthInit, Account
<1> QED BY <1>1, <1>2, NewPageIsOut DEF AuthInv, AuthTypes

LEMMA TellTypes ==
  ASSUME AuthInv, NEW t \in Tabs, NEW e \in Event, Tell(t, e)
  PROVE  /\ told' \in [Tabs -> Seq(Event)]
         /\ told'[t] = told[t]
         /\ \A o \in Tabs \ open : told'[o] = told[o]
         /\ \A o \in open \ {t} : e = "logout" => ~NoLogout(told'[o])
<1>1. told' = [o \in Tabs |-> IF o \in open \ {t} THEN Append(told[o], e) ELSE told[o]]
  BY DEF Tell
<1>2. \A o \in Tabs : Append(told[o], e) \in Seq(Event) BY DEF AuthInv, AuthTypes
<1>3. ASSUME NEW o \in open \ {t}, e = "logout" PROVE ~NoLogout(told'[o])
  <2>1. told'[o] = Append(told[o], "logout") /\ told[o] \in Seq(Event)
    BY <1>1, <1>3 DEF AuthInv, AuthTypes
  <2>2. /\ Len(told[o]) + 1 \in DOMAIN told'[o]
        /\ told'[o][Len(told[o]) + 1] = "logout"
    BY <2>1
  <2> QED BY <2>2 DEF NoLogout
<1> QED BY <1>1, <1>2, <1>3 DEF AuthInv, AuthTypes

LEMMA HearKeeps == ASSUME AuthInv, NEW t \in open, Hear(t) PROVE AuthInv'
<1>1. t \in Tabs /\ page[t] \in PageRecord /\ told[t] \in Seq(Event) /\ told[t] # <<>>
  BY DEF Hear, AuthInv, AuthTypes
<1>2. /\ Tail(told[t]) \in Seq(Event) /\ Head(told[t]) \in Event
      /\ Head(told[t]) # "logout" => (NoLogout(Tail(told[t])) => NoLogout(told[t]))
  <2>1. /\ Len(told[t]) \in Nat \ {0} /\ DOMAIN told[t] = 1 .. Len(told[t])
        /\ DOMAIN Tail(told[t]) = 1 .. (Len(told[t]) - 1)
        /\ \A i \in 1 .. (Len(told[t]) - 1) : Tail(told[t])[i] = told[t][i + 1]
        /\ Head(told[t]) = told[t][1] /\ Tail(told[t]) \in Seq(Event) /\ told[t][1] \in Event
    BY <1>1
  <2>2. ASSUME Head(told[t]) # "logout", NoLogout(Tail(told[t])), NEW i \in DOMAIN told[t]
        PROVE  told[t][i] # "logout"
    <3>1. CASE i = 1 BY <2>1, <2>2, <3>1
    <3>2. CASE i - 1 \in 1 .. (Len(told[t]) - 1)
      BY <2>1, <2>2, <3>2 DEF NoLogout
    <3> QED BY <2>1, <2>2, <3>1, <3>2
  <2> QED BY <2>1, <2>2 DEF NoLogout
<1>3. /\ told' = [told EXCEPT ![t] = Tail(@)]
      /\ UNCHANGED <<open, blocked, cookie>>
      /\ \A o \in Tabs \ {t} : page'[o] = page[o]
      /\ page' = [page EXCEPT ![t] = page'[t]]
  BY <1>1 DEF Hear, AuthInv, AuthTypes
<1>4. CASE Head(told[t]) = "logout"
  <2>1. page'[t] = [Cleared(page[t]) EXCEPT !.halted = TRUE]
    BY <1>1, <1>4 DEF Hear, AuthInv, AuthTypes
  <2>2. page'[t] \in PageRecord /\ Out(page'[t])
    BY <1>1, <2>1, ClearedIsOut DEF PageRecord, Out
  <2> QED BY <1>1, <1>2, <1>3, <2>2 DEF AuthInv, AuthTypes
<1>5. CASE Head(told[t]) # "logout"
  <2>1. page'[t] = [page[t] EXCEPT !.halted = FALSE]
    BY <1>1, <1>5 DEF Hear, AuthInv, AuthTypes
  <2>2. page'[t] \in PageRecord /\ (Out(page[t]) => Out(page'[t]))
    BY <1>1, <2>1 DEF PageRecord, Out
  <2>3. blocked /\ NoLogout(Tail(told[t])) => Out(page'[t])
    BY <1>1, <1>2, <1>5, <2>2 DEF AuthInv
  <2> QED BY <1>1, <1>2, <1>3, <2>2, <2>3 DEF AuthInv, AuthTypes
<1> QED BY <1>4, <1>5

LEMMA SigningKeeps ==
  ASSUME AuthInv, NEW t \in open,
         (\E u \in Users : BeginSignIn(t, u)) \/ SignedIn(t) \/ SignInTooLate(t) \/ SignInFails(t)
  PROVE  AuthInv'
<1>1. t \in Tabs /\ page[t] \in PageRecord BY DEF AuthInv, AuthTypes
<1>2. ASSUME NEW u \in Users, BeginSignIn(t, u) PROVE AuthInv'
  <2> DEFINE q == [Cleared(page[t]) EXCEPT !.signing = [user |-> u, fresh |-> TRUE]]
  <2>1. q \in PageRecord /\ Out(q)
    BY <1>1, ClearedIsOut DEF PageRecord, Out, SigningCall
  <2>2. /\ page' = [page EXCEPT ![t] = q] /\ UNCHANGED <<open, blocked, told, cookie>>
    BY <1>2 DEF BeginSignIn
  <2> HIDE DEF q
  <2> QED BY <2>1, <2>2, PageMoves DEF AuthInv, AuthTypes
<1>3. CASE SignedIn(t)
  <2>1. page[t].signing \in SigningCall BY <1>1, <1>3 DEF SignedIn, PageRecord
  <2>2. PICK u \in Users :
          /\ page' = [page EXCEPT ![t] = [@ EXCEPT !.user = u, !.signing = NoCall, !.halted = FALSE]]
          /\ cookie' = u
    BY <1>3, <2>1 DEF SignedIn, SigningCall
  <2>3. /\ blocked' = FALSE /\ UNCHANGED open
        /\ Tell(t, "unblocked") \/ UNCHANGED told
    BY <1>3 DEF SignedIn
  <2>4. page' \in [Tabs -> PageRecord] /\ cookie' \in Account
    BY <1>1, <2>2 DEF AuthInv, AuthTypes, PageRecord, Account
  <2>5. \A o \in Tabs \ open : page'[o] = page[o]
    BY <1>1, <2>2 DEF AuthInv, AuthTypes
  <2>6. told' \in [Tabs -> Seq(Event)] /\ \A o \in Tabs \ open : told'[o] = told[o]
    BY <1>1, <2>3, TellTypes DEF AuthInv, AuthTypes, Event
  <2> QED BY <2>3, <2>4, <2>5, <2>6 DEF AuthInv, AuthTypes
<1>4. CASE SignInTooLate(t) \/ SignInFails(t)
  <2> DEFINE q == [page[t] EXCEPT !.signing = NoCall]
  <2>1. q \in PageRecord /\ (Out(page[t]) => Out(q)) BY <1>1 DEF PageRecord, Out
  <2>2. page' = [page EXCEPT ![t] = q] /\ UNCHANGED <<open, blocked, told>>
    BY <1>4 DEF SignInTooLate, SignInFails
  <2>3. cookie' \in Account
    BY <1>1, <1>4
    DEF SignInTooLate, SignInFails, AuthInv, AuthTypes, PageRecord, SigningCall, Account
  <2> HIDE DEF q
  <2> QED BY <1>1, <2>1, <2>2, <2>3, PageMoves DEF AuthInv
<1> QED BY <1>2, <1>3, <1>4

LEMMA RefreshingKeeps ==
  ASSUME AuthInv, NEW t \in open,
         \/ BeginRefresh(t) \/ CallRefresh(t) \/ RefreshServed(t)
         \/ Refreshed(t) \/ RefreshRefused(t) \/ RefreshFails(t)
  PROVE  AuthInv'
<1>1. t \in Tabs /\ page[t] \in PageRecord /\ cookie \in Account
  BY DEF AuthInv, AuthTypes
<1>2. blocked /\ NoLogout(told[t]) => Out(page[t]) BY <1>1 DEF AuthInv
<1>3. CASE BeginRefresh(t)
  <2> DEFINE q == [page[t] EXCEPT !.refreshing = [stage |-> "waiting", user |-> Guest, fresh |-> TRUE]]
  <2>1. q \in PageRecord BY <1>1 DEF PageRecord, RefreshCall, Account
  <2>2. /\ page' = [page EXCEPT ![t] = q] /\ UNCHANGED <<open, blocked, told, cookie>>
        /\ ~blocked
    BY <1>3 DEF BeginRefresh, Blocked
  <2> HIDE DEF q
  <2> QED BY <1>1, <2>1, <2>2, PageMoves
<1>4. CASE CallRefresh(t)
  <2> DEFINE q == [page[t] EXCEPT !.refreshing = [@ EXCEPT !.stage = "called", !.user = cookie]]
  <2>1. page[t].refreshing \in RefreshCall /\ page[t].refreshing # NoCall
    BY <1>1, <1>4 DEF CallRefresh, PageRecord
  <2>2. q \in PageRecord /\ (Out(page[t]) => Out(q))
    BY <1>1, <2>1 DEF PageRecord, RefreshCall, Out
  <2>3. page' = [page EXCEPT ![t] = q] /\ UNCHANGED <<open, blocked, told, cookie>>
    BY <1>4 DEF CallRefresh
  <2> HIDE DEF q
  <2> QED BY <1>1, <1>2, <2>2, <2>3, PageMoves
<1>5. CASE RefreshServed(t)
  <2> DEFINE u == ServedTo(page[t].refreshing.user)
             q == [page[t] EXCEPT !.refreshing = [@ EXCEPT !.stage = "served", !.user = u]]
  <2>1. page[t].refreshing \in RefreshCall /\ page[t].refreshing # NoCall
    BY <1>1, <1>5 DEF RefreshServed, PageRecord
  <2>2. u \in Account BY <2>1 DEF RefreshCall, Account, ServedTo
  <2>3. page' = [page EXCEPT ![t] = q] /\ UNCHANGED <<open, blocked, told, cookie>>
    BY <1>5 DEF RefreshServed
  <2> HIDE DEF u
  <2>4. q \in PageRecord /\ (Out(page[t]) => Out(q))
    BY <1>1, <2>1, <2>2 DEF PageRecord, RefreshCall, Out
  <2> HIDE DEF q
  <2> QED BY <1>1, <1>2, <2>3, <2>4, PageMoves
<1>6. CASE Refreshed(t)
  <2> DEFINE u == page[t].refreshing.user
             q == [Accepted(page[t], u) EXCEPT !.refreshing = NoCall]
  <2>1. page[t].refreshing \in RefreshCall /\ page[t].refreshing # NoCall
    BY <1>1, <1>6 DEF Refreshed, PageRecord
  <2>2. u \in Account BY <2>1 DEF RefreshCall
  <2>3. q \in PageRecord /\ (Out(page[t]) => Out(q))
    BY <1>1, <2>1, <2>2 DEF Accepted, PageRecord, Out
  <2>4. page' = [page EXCEPT ![t] = q] /\ UNCHANGED <<open, blocked, told>> /\ cookie' = u
    BY <1>6 DEF Refreshed
  <2> HIDE DEF q, u
  <2> QED BY <1>1, <1>2, <2>2, <2>3, <2>4, PageMoves
<1>7. CASE RefreshRefused(t) \/ RefreshFails(t)
  <2> DEFINE p == IF RefreshRefused(t) /\ page[t].refreshing.fresh THEN Cleared(page[t]) ELSE page[t]
             q == [p EXCEPT !.refreshing = NoCall]
  <2>1. p \in PageRecord /\ (Out(page[t]) => Out(p)) BY <1>1, ClearedIsOut
  <2>2. /\ page' = [page EXCEPT ![t] = q] \/ page' = [page EXCEPT ![t].refreshing = NoCall]
        /\ UNCHANGED <<open, blocked, told, cookie>>
    BY <1>7 DEF RefreshRefused, RefreshFails
  <2> HIDE DEF p
  <2>3. \A r \in PageRecord : /\ [r EXCEPT !.refreshing = NoCall] \in PageRecord
                              /\ Out(r) => Out([r EXCEPT !.refreshing = NoCall])
    BY DEF PageRecord, Out
  <2>4. \E r \in PageRecord : page' = [page EXCEPT ![t] = r] /\ (Out(page[t]) => Out(r))
    <3>1. CASE page' = [page EXCEPT ![t] = q] BY <2>1, <2>3, <3>1
    <3>2. CASE page' = [page EXCEPT ![t] = [page[t] EXCEPT !.refreshing = NoCall]]
      BY <1>1, <2>3, <3>2
    <3> QED BY <2>2, <3>1, <3>2
  <2> QED BY <1>1, <1>2, <2>2, <2>4, PageMoves
<1> QED BY <1>3, <1>4, <1>5, <1>6, <1>7

LEMMA EndingKeeps ==
  ASSUME AuthInv, NEW t \in open, SignOut(t) \/ CallRefused(t)
  PROVE  AuthInv'
<1>1. t \in Tabs /\ page[t] \in PageRecord BY DEF AuthInv, AuthTypes
<1>2. CASE SignOut(t)
  <2> DEFINE q == [Cleared(page[t]) EXCEPT !.halted = TRUE]
  <2>1. q \in PageRecord /\ Out(q) BY <1>1, ClearedIsOut DEF PageRecord, Out
  <2>2. /\ page' = [page EXCEPT ![t] = q] /\ blocked' = TRUE
        /\ Tell(t, "logout") /\ UNCHANGED <<open, cookie>>
    BY <1>2 DEF SignOut
  <2> HIDE DEF q
  <2>3. /\ told' \in [Tabs -> Seq(Event)]
        /\ \A o \in Tabs \ open : told'[o] = told[o]
        /\ \A o \in open \ {t} : ~NoLogout(told'[o])
    BY <1>1, <2>2, TellTypes DEF Event
  <2>4. /\ page'[t] = q /\ page' \in [Tabs -> PageRecord]
        /\ \A o \in Tabs \ {t} : page'[o] = page[o]
    BY <1>1, <2>1, <2>2 DEF AuthInv, AuthTypes
  <2>5. AuthTypes' BY <2>2, <2>3, <2>4 DEF AuthInv, AuthTypes
  <2>6. \A o \in Tabs : o \notin open' => page'[o] = NewPage /\ told'[o] = <<>>
    BY <2>2, <2>3, <2>4 DEF AuthInv
  <2>7. \A o \in Tabs : NoLogout(told'[o]) => Out(page'[o])
    BY <2>1, <2>3, <2>4, NewPageIsOut DEF AuthInv
  <2> QED BY <2>5, <2>6, <2>7 DEF AuthInv
<1>3. CASE CallRefused(t)
  BY <1>1, <1>3, ClearedIsOut, PageMoves DEF CallRefused, AuthInv, AuthTypes
<1> QED BY <1>2, <1>3

LEMMA SignsKeep ==
  ASSUME AuthInv, AccountStep \/ \E t \in Tabs : AuthStep(t)
  PROVE  AuthInv'
<1>1. CASE AccountStep
  <2>1. UNCHANGED <<open, page, blocked, told>> /\ cookie' \in Account
    BY <1>1
    DEF AccountStep, SignOutServed, SignOutLost, SessionEnds, Account, AuthInv, AuthTypes
  <2> QED BY <2>1 DEF AuthInv, AuthTypes
<1>2. ASSUME NEW t \in Tabs, AuthStep(t) PROVE AuthInv'
  BY <1>2, HearKeeps, SigningKeeps, RefreshingKeeps, EndingKeeps DEF AuthStep
<1> QED BY <1>1, <1>2

LEMMA LoadKeeps == ASSUME AuthInv, NEW t \in Tabs, LoadPage(t) PROVE AuthInv'
<1>1. /\ page' = [page EXCEPT ![t] = NewPage] /\ told' = [told EXCEPT ![t] = <<>>]
      /\ open' \in {open \cup {t}, open \ {t}} /\ UNCHANGED <<blocked, cookie>>
  BY DEF LoadPage
<1>2. <<>> \in Seq(Event) OBVIOUS
<1>3. AuthTypes' BY <1>1, <1>2, NewPageIsOut DEF AuthInv, AuthTypes
<1>4. \A o \in Tabs : o \notin open' => page'[o] = NewPage /\ told'[o] = <<>>
  BY <1>1 DEF AuthInv, AuthTypes
<1>5. \A o \in Tabs : blocked /\ NoLogout(told'[o]) => Out(page'[o])
  BY <1>1, NewPageIsOut DEF AuthInv, AuthTypes
<1> QED BY <1>1, <1>3, <1>4, <1>5 DEF AuthInv

\* Every other step leaves the sign-in alone.
ChatOnly ==
  \/ \E t \in ChatTabs : ChatStep(t)
  \/ \E k \in Keys : ServeOrphan(k) \/ Dispatch(k) \/ Execute(k) \/ CloseLater(k)

LEMMA ChatLeavesAuth == ChatOnly => UNCHANGED authVars
BY DEF ChatOnly, ChatStep, Start, Compose, Resume, NothingToDo, Transmit, TokenMissing,
       StopWaiting, Abandon, Clear, ReceiveReply, ReceiveRefusal, ReceiveReceipt,
       ReceiveNothing, ServePost, ServeReceipt, ServeOrphan, Dispatch, Execute, CloseLater

LEMMA AuthStepKeeps == AuthInv /\ [Next]_vars => AuthInv'
<1> SUFFICES ASSUME AuthInv, [Next]_vars PROVE AuthInv' OBVIOUS
<1>1. ASSUME UNCHANGED authVars PROVE AuthInv'
  BY <1>1 DEF authVars, AuthInv, AuthTypes
<1>2. CASE Signing BY <1>2, SignsKeep DEF Signing
<1>3. ASSUME NEW t \in Tabs, Reload(t) PROVE AuthInv' BY <1>3, LoadKeeps DEF Reload
<1>4. CASE ChatOnly BY <1>1, <1>4, ChatLeavesAuth
<1>5. CASE UNCHANGED vars BY <1>1, <1>5 DEF vars
<1> QED BY <1>2, <1>3, <1>4, <1>5 DEF Next, ChatOnly

\* A sign-out in one tab ends the sign-in of the browser: a tab that has heard of it shows
\* nobody until somebody signs in again, whatever answers still arrive (auth.js).
THEOREM SignOutHolds == Spec => []SignedOutStaysOut
<1>1. AuthInv => SignedOutStaysOut BY DEF AuthInv, SignedOutStaysOut, NoLogout, Out
<1> QED BY AuthInitially, AuthStepKeeps, <1>1, PTL DEF Spec

-----------------------------------------------------------------------------
(* Replies *)

Answers == {"none", "output", "refused", "closed", "missing", "open", "vague"}

Operation ==
  [kind : {"send", "retry", "receipt"},
   stage : {"restoring", "token", "posted", "executing", "asked", "answered"},
   key : Keys \cup {NoKey}, answer : Answers, owner : Owners \cup {Nobody}, same : BOOLEAN]

Disk == [pending : Keys \cup {NoKey}, replies : SUBSET Keys]
Copy == [owner : Owners, pending : Keys \cup {NoKey}, replies : SUBSET Keys]

\* Everything a store of u holds was asked by u.
Asked(s, u) ==
  (s.pending # NoKey => asker[s.pending] = u) /\ \A k \in s.replies : asker[k] = u

CopyOk(c) == c \in Copy /\ Asked(c, c.owner)

\* An operation runs for the account signed in since it began; once it has a key, that is
\* the account that asked, and the copy in memory is of its store.
OpOk(o, u, c) ==
  /\ o \in Operation /\ o.same
  /\ o.owner \in {Nobody, u}
  /\ IF o.stage = "restoring" THEN o.key = NoKey
     ELSE o.key \in Keys /\ asker[o.key] = o.owner /\ o.owner = u /\ CopyOk(c) /\ c.owner = u

ReplyInv ==
  /\ asker \in [Keys -> Owners \cup {Nobody}]
  /\ disk \in [Owners -> Disk] /\ \A u \in Owners : Asked(disk[u], u)
  /\ op \in [ChatTabs -> Operation \cup {NoOp, Void}]
  /\ current \in [ChatTabs -> Copy \cup {NotLoaded}]
  /\ \A t \in ChatTabs : current[t] # NotLoaded => CopyOk(current[t])
  /\ \A t \in ChatTabs : Active(t) => OpOk(op[t], page[t].user, current[t])

\* store() is of the account signed in.
LEMMA StoreIsOwn ==
  ASSUME AuthInv, ReplyInv, NEW t \in ChatTabs
  PROVE  CopyOk(Store(t)) /\ Store(t).owner = page[t].user
<1>1. page[t].user \in Owners
  BY ChatTabsAssumption DEF AuthInv, AuthTypes, PageRecord, Account, Owners
<1>2. disk[page[t].user] \in Disk /\ Asked(disk[page[t].user], page[t].user)
  BY <1>1 DEF ReplyInv
<1> QED BY <1>1, <1>2 DEF Store, ReplyInv, CopyOk, Copy, Disk, Asked

LEMMA KeptIsOwn ==
  ASSUME NEW c, CopyOk(c) PROVE Kept(c) \in Disk /\ Asked(Kept(c), c.owner)
BY DEF CopyOk, Copy, Kept, Disk, Asked

\* Asking for a key does not change who asked for another.
LEMMA AskerGrows ==
  ASSUME ReplyInv, asker' \in [Keys -> Owners \cup {Nobody}],
         \A k \in Keys : asker[k] # Nobody => asker'[k] = asker[k],
         NEW u \in Owners
  PROVE  /\ \A d \in Disk : Asked(d, u) => Asked(d, u)'
         /\ \A c \in Copy : Asked(c, u) => Asked(c, u)'
BY NobodyAssumption DEF Asked, Disk, Copy, Owners

\* A step of tab t: its copy becomes c, its operation o, and the disk takes a store at most.
LEMMA TabMoves ==
  ASSUME AuthInv, ReplyInv, NEW t \in ChatTabs, UNCHANGED page,
         asker' \in [Keys -> Owners \cup {Nobody}],
         \A k \in Keys : asker[k] # Nobody => asker'[k] = asker[k],
         NEW c, current' = [current EXCEPT ![t] = c], c # NotLoaded => CopyOk(c)',
         NEW o, op' = [op EXCEPT ![t] = o],
         o \notin {NoOp, Void} => OpOk(o, page[t].user, c)',
         \/ disk' = disk
         \/ \E d \in Copy : CopyOk(d)' /\ disk' = [disk EXCEPT ![d.owner] = Kept(d)]
  PROVE  ReplyInv'
<1>1. disk' \in [Owners -> Disk] /\ \A u \in Owners : Asked(disk[u], u)'
  <2>1. CASE disk' = disk
    BY <2>1, AskerGrows DEF ReplyInv
  <2>2. ASSUME NEW d \in Copy, CopyOk(d)', disk' = [disk EXCEPT ![d.owner] = Kept(d)]
        PROVE  disk' \in [Owners -> Disk] /\ \A u \in Owners : Asked(disk[u], u)'
    <3>1. d.owner \in Owners /\ Kept(d) \in Disk /\ Asked(Kept(d), d.owner)'
      BY <2>2 DEF CopyOk, Copy, Kept, Disk, Asked
    <3>2. disk' \in [Owners -> Disk] BY <2>2, <3>1 DEF ReplyInv
    <3>3. disk'[d.owner] = Kept(d) /\ \A u \in Owners \ {d.owner} : disk'[u] = disk[u]
      BY <2>2, <3>1 DEF ReplyInv
    <3>4. \A u \in Owners \ {d.owner} : Asked(disk[u], u)'
      BY <3>3, AskerGrows DEF ReplyInv
    <3> QED BY <3>1, <3>2, <3>3, <3>4
  <2> QED BY <2>1, <2>2
<1>2. /\ op' \in [ChatTabs -> Operation \cup {NoOp, Void}]
      /\ current' \in [ChatTabs -> Copy \cup {NotLoaded}]
      /\ op'[t] = o /\ current'[t] = c
      /\ \A x \in ChatTabs \ {t} : op'[x] = op[x] /\ current'[x] = current[x]
  BY DEF ReplyInv, CopyOk, OpOk
<1>3. \A x \in ChatTabs \ {t} : current[x] # NotLoaded => CopyOk(current[x])'
  BY AskerGrows DEF ReplyInv, CopyOk, Copy
<1>4. ASSUME NEW x \in ChatTabs \ {t}, Active(x)
      PROVE  OpOk(op[x], page[x].user, current[x])'
  <2>1. OpOk(op[x], page[x].user, current[x]) /\ op[x] \in Operation
    BY <1>4 DEF ReplyInv, OpOk
  <2>2. page[x].user \in Owners
    BY ChatTabsAssumption DEF AuthInv, AuthTypes, PageRecord, Account, Owners
  <2>3. CASE op[x].stage = "restoring"
    BY <1>2, <2>1, <2>3 DEF OpOk
  <2>4. CASE op[x].stage # "restoring"
    <3>1. /\ op[x].key \in Keys /\ asker[op[x].key] = op[x].owner
          /\ op[x].owner = page[x].user /\ CopyOk(current[x]) /\ current[x].owner = page[x].user
      BY <2>1, <2>4 DEF OpOk
    <3>2. asker'[op[x].key] = op[x].owner BY <2>2, <3>1, NobodyAssumption DEF Owners
    <3>3. CopyOk(current[x])' BY <1>2, <3>1, AskerGrows DEF CopyOk, Copy
    <3> QED BY <1>2, <2>1, <2>4, <3>1, <3>2, <3>3 DEF OpOk
  <2> QED BY <2>3, <2>4
<1>5. \A x \in ChatTabs : current'[x] # NotLoaded => CopyOk(current[x])'
  BY <1>2, <1>3
<1>6. \A x \in ChatTabs : Active(x)' => OpOk(op[x], page[x].user, current[x])'
  BY <1>2, <1>4 DEF Active
<1> QED BY <1>1, <1>2, <1>5, <1>6 DEF ReplyInv

\* A step that only moves the operation of t on, or ends it.
LEMMA OpMoves ==
  ASSUME AuthInv, ReplyInv, NEW t \in ChatTabs, UNCHANGED <<page, asker, current>>,
         NEW o, op' = [op EXCEPT ![t] = o],
         o \notin {NoOp, Void} => OpOk(o, page[t].user, current[t]),
         \/ disk' = disk
         \/ CopyOk(current[t]) /\ disk' = [disk EXCEPT ![current[t].owner] = Kept(current[t])]
  PROVE  ReplyInv'
<1>1. current' = [current EXCEPT ![t] = current[t]] BY DEF ReplyInv
<1>2. \A c : CopyOk(c) => CopyOk(c)' BY DEF CopyOk, Asked
<1>3. current[t] # NotLoaded => CopyOk(current[t]) BY DEF ReplyInv
<1>4. \A x, u, c : OpOk(x, u, c) => OpOk(x, u, c)' BY DEF OpOk, CopyOk, Asked
<1>5. asker' \in [Keys -> Owners \cup {Nobody}] BY DEF ReplyInv
<1>6. \/ disk' = disk
      \/ \E d \in Copy : CopyOk(d)' /\ disk' = [disk EXCEPT ![d.owner] = Kept(d)]
  BY <1>2 DEF CopyOk
<1> QED BY <1>1, <1>2, <1>3, <1>4, <1>5, <1>6, TabMoves

LEMMA ReplyInitially == Init => ReplyInv
<1> SUFFICES ASSUME Init PROVE ReplyInv OBVIOUS
<1>1. /\ disk = [u \in Owners |-> [pending |-> NoKey, replies |-> {}]]
      /\ current = [t \in ChatTabs |-> NotLoaded] /\ op = [t \in ChatTabs |-> NoOp]
      /\ asker = [k \in Keys |-> Nobody]
  BY DEF Init, ChatInit
<1> QED BY <1>1 DEF ReplyInv, Disk, Asked, Active

\* Steps up to the moment the request is sent.
LEMMA StartKeeps ==
  ASSUME AuthInv, ReplyInv, NEW t \in ChatTabs, NEW kind \in {"send", "retry", "receipt"},
         Start(t, kind)
  PROVE  ReplyInv'
<1>1. PICK u \in Owners : u = page[t].user
  BY ChatTabsAssumption DEF AuthInv, AuthTypes, PageRecord, Account, Owners
<1>2. PICK o : o = [kind |-> kind, stage |-> "restoring", key |-> NoKey, answer |-> "none",
                    owner |-> IF u = Guest THEN Nobody ELSE u, same |-> TRUE]
  OBVIOUS
<1>3. OpOk(o, u, current[t])
  <2>1. PICK w \in {u, Nobody} : w = IF u = Guest THEN Nobody ELSE u OBVIOUS
  <2>2. o = [kind |-> kind, stage |-> "restoring", key |-> NoKey, answer |-> "none",
             owner |-> w, same |-> TRUE]
    BY <1>2, <2>1
  <2>3. o \in Operation BY <1>1, <2>1, <2>2 DEF Operation, Answers
  <2>4. o.stage = "restoring" /\ o.key = NoKey /\ o.owner = w /\ o.same BY <2>2
  <2> QED BY <2>1, <2>3, <2>4 DEF OpOk
<1>4. op' = [op EXCEPT ![t] = o] /\ UNCHANGED <<page, asker, current, disk>>
  BY <1>1, <1>2 DEF Start, authVars
<1> QED BY <1>1, <1>3, <1>4, OpMoves

LEMMA ComposeKeeps ==
  ASSUME AuthInv, ReplyInv, NEW t \in ChatTabs, NEW k \in Keys, Compose(t, k)
  PROVE  ReplyInv'
<1>1. PICK u \in Owners : u = page[t].user
  BY ChatTabsAssumption DEF AuthInv, AuthTypes, PageRecord, Account, Owners
<1>2. PICK c : c = [Store(t) EXCEPT !.pending = k] OBVIOUS
<1>3. PICK o : o = [op[t] EXCEPT !.stage = "token", !.key = k, !.owner = u] OBVIOUS
<1>4. /\ asker[k] = Nobody /\ Active(t) /\ UNCHANGED page
      /\ asker' = [asker EXCEPT ![k] = u]
      /\ current' = [current EXCEPT ![t] = c] /\ current'[t] = c
  BY <1>1, <1>2 DEF Compose, Restored, Current, authVars, ReplyInv
<1>5. /\ asker' \in [Keys -> Owners \cup {Nobody}] /\ asker'[k] = u
      /\ \A x \in Keys : asker[x] # Nobody => asker'[x] = asker[x]
  BY <1>4 DEF ReplyInv
<1>6. CopyOk(c)' /\ c \in Copy /\ c.owner = u
  <2>1. CopyOk(Store(t)) /\ Store(t).owner = u BY <1>1, StoreIsOwn
  <2>2. c \in Copy /\ c.owner = u /\ c.pending = k /\ c.replies = Store(t).replies
    BY <1>2, <2>1 DEF CopyOk, Copy
  <2>3. \A x \in c.replies : asker'[x] = u
    BY <1>4, <1>5, <2>1, <2>2, NobodyAssumption DEF CopyOk, Copy, Asked, Owners
  <2> QED BY <1>5, <2>2, <2>3 DEF CopyOk, Asked
<1>7. OpOk(o, u, c)'
  <2>1. op[t] \in Operation /\ op[t].same BY <1>4 DEF ReplyInv, OpOk
  <2>2. o \in Operation /\ o.same /\ o.owner = u /\ o.key = k /\ o.stage = "token"
    BY <1>3, <2>1 DEF Operation
  <2> QED BY <1>5, <1>6, <2>2 DEF OpOk
<1>8. CASE disk' = disk /\ op' = [op EXCEPT ![t] = NoOp]
  BY <1>4, <1>5, <1>6, <1>8, TabMoves
<1>9. CASE disk' = [disk EXCEPT ![u] = Kept(c)] /\ op' = [op EXCEPT ![t] = o]
  <2>1. \E d \in Copy : CopyOk(d)' /\ disk' = [disk EXCEPT ![d.owner] = Kept(d)]
    <3>1. disk' = [disk EXCEPT ![c.owner] = Kept(c)] BY <1>6, <1>9
    <3> QED BY <1>6, <3>1
  <2>2. OpOk(o, page[t].user, c)' BY <1>1, <1>4, <1>7 DEF OpOk
  <2> QED BY <1>4, <1>5, <1>6, <1>9, <2>1, <2>2, TabMoves
<1> QED BY <1>1, <1>3, <1>4, <1>8, <1>9 DEF Compose

\* Steps that read the store without asking for a key.
LEMMA ReadingKeeps ==
  ASSUME AuthInv, ReplyInv, NEW t \in ChatTabs, Resume(t) \/ NothingToDo(t) \/ Clear(t)
  PROVE  ReplyInv'
<1>1. CopyOk(Store(t)) /\ Store(t).owner = page[t].user BY StoreIsOwn
<1>2. PICK s \in Copy : s = Store(t) BY <1>1 DEF CopyOk
<1>3. /\ UNCHANGED <<page, asker>> /\ asker' \in [Keys -> Owners \cup {Nobody}]
      /\ \A k \in Keys : asker[k] # Nobody => asker'[k] = asker[k]
      /\ \A c : CopyOk(c) => CopyOk(c)'
  BY DEF Resume, NothingToDo, Clear, authVars, ReplyInv, CopyOk, Asked
<1>4. CASE Resume(t)
  <2>1. PICK o : o = [op[t] EXCEPT !.stage = "token", !.key = s.pending, !.owner = page[t].user]
    OBVIOUS
  <2>2. /\ current' = [current EXCEPT ![t] = s] /\ op' = [op EXCEPT ![t] = o] /\ disk' = disk
        /\ Active(t) /\ s.pending # NoKey
    BY <1>2, <1>4, <2>1 DEF Resume, Restored, Current
  <2>3. op[t] \in Operation /\ op[t].same /\ s.pending \in Keys /\ page[t].user \in Owners
    BY <1>1, <1>2, <2>2 DEF ReplyInv, OpOk, CopyOk, Copy
  <2>4. /\ o \in Operation /\ o.same /\ o.owner = page[t].user
        /\ o.key = s.pending /\ o.stage = "token"
    BY <2>1, <2>3 DEF Operation
  <2>5. asker[s.pending] = page[t].user BY <1>1, <1>2, <2>2 DEF CopyOk, Asked
  <2>6. OpOk(o, page[t].user, s)' BY <1>1, <1>2, <1>3, <2>3, <2>4, <2>5 DEF OpOk
  <2>7. CopyOk(s)' BY <1>1, <1>2, <1>3
  <2> QED BY <1>3, <2>2, <2>6, <2>7, TabMoves
<1>5. CASE NothingToDo(t)
  <2>1. current' = [current EXCEPT ![t] = s] /\ op' = [op EXCEPT ![t] = NoOp] /\ disk' = disk
    BY <1>2, <1>5 DEF NothingToDo
  <2>2. CopyOk(s)' BY <1>1, <1>2, <1>3
  <2> QED BY <1>3, <2>1, <2>2, TabMoves
<1>6. CASE Clear(t)
  <2>1. PICK c : c = [s EXCEPT !.replies = {}] OBVIOUS
  <2>2. CopyOk(c) /\ c \in Copy /\ c.owner = page[t].user
    BY <1>1, <1>2, <2>1 DEF CopyOk, Copy, Asked
  <2>3. CopyOk(c)' BY <1>3, <2>2
  <2>4. /\ current' = [current EXCEPT ![t] = c] /\ current'[t] = c
        /\ op' = [op EXCEPT ![t] = NoOp]
        /\ disk' = disk \/ disk' = [disk EXCEPT ![c.owner] = Kept(c)]
    BY <1>2, <1>6, <2>1, <2>2 DEF Clear, Save, ReplyInv
  <2>5. \/ disk' = disk
        \/ \E d \in Copy : CopyOk(d)' /\ disk' = [disk EXCEPT ![d.owner] = Kept(d)]
    BY <2>2, <2>3, <2>4
  <2> QED BY <1>3, <2>3, <2>4, <2>5, TabMoves
<1> QED BY <1>4, <1>5, <1>6

\* The request is sent, given up, or comes to nothing.
LEMMA OpKeeps ==
  ASSUME AuthInv, ReplyInv, NEW t \in ChatTabs,
         \/ Transmit(t) \/ TokenMissing(t) \/ StopWaiting(t) \/ Abandon(t) \/ ReceiveNothing(t)
  PROVE  ReplyInv'
<1>1. UNCHANGED <<page, asker, current>>
  BY DEF Transmit, TokenMissing, StopWaiting, Abandon, ReceiveNothing, authVars
<1>2. CASE Transmit(t)
  <2>1. /\ OpOk(op[t], page[t].user, current[t]) /\ op[t].stage = "token"
        /\ op[t].owner = page[t].user /\ current[t].owner = op[t].owner /\ CopyOk(current[t])
    BY <1>2 DEF Transmit, Current, ReplyInv, OpOk
  <2>2. ASSUME NEW s \in {"asked", "posted"}, NEW o, o = [op[t] EXCEPT !.stage = s]
        PROVE  OpOk(o, page[t].user, current[t])
    BY <2>1, <2>2 DEF OpOk, Operation
  <2>3. \E o : /\ op' = [op EXCEPT ![t] = o]
               /\ o \notin {NoOp, Void} => OpOk(o, page[t].user, current[t])
    <3>1. CASE op' = [op EXCEPT ![t] = NoOp] BY <3>1
    <3>2. ASSUME NEW s \in {"asked", "posted"}, op' = [op EXCEPT ![t].stage = s]
          PROVE \E o : /\ op' = [op EXCEPT ![t] = o]
                       /\ o \notin {NoOp, Void} => OpOk(o, page[t].user, current[t])
      <4>1. PICK o : o = [op[t] EXCEPT !.stage = s] OBVIOUS
      <4> QED BY <2>2, <3>2, <4>1
    <3> QED BY <1>2, <3>1, <3>2 DEF Transmit
  <2>4. disk' = disk \/ disk' = [disk EXCEPT ![current[t].owner] = Kept(current[t])]
    BY <1>2, <2>1 DEF Transmit
  <2> QED BY <1>1, <2>1, <2>3, <2>4, OpMoves
<1>3. CASE TokenMissing(t) \/ StopWaiting(t) \/ Abandon(t) \/ ReceiveNothing(t)
  <2>1. disk' = disk /\ (op' = [op EXCEPT ![t] = NoOp] \/ op' = [op EXCEPT ![t] = Void])
    BY <1>3 DEF TokenMissing, StopWaiting, Abandon, ReceiveNothing
  <2> QED BY <1>1, <2>1, OpMoves
<1> QED BY <1>2, <1>3

\* The outcome of a request is known: its reply, if any, goes to the account that asked.
LEMMA OutcomeKeeps ==
  ASSUME AuthInv, ReplyInv, NEW t \in ChatTabs,
         ReceiveReply(t) \/ ReceiveRefusal(t) \/ ReceiveReceipt(t)
  PROVE  ReplyInv'
<1>1. /\ Active(t) /\ op[t].stage = "answered" /\ UNCHANGED <<page, asker>>
      /\ Forget(t, {op[t].key}) \/ Forget(t, {})
  BY DEF ReceiveReply, ReceiveRefusal, ReceiveReceipt, Answer, Current, authVars
<1>2. /\ op[t].key \in Keys /\ asker[op[t].key] = op[t].owner
      /\ CopyOk(current[t]) /\ current[t].owner = op[t].owner
  BY <1>1 DEF ReplyInv, OpOk
<1>3. PICK replies \in {{op[t].key}, {}} : Forget(t, replies) BY <1>1
<1>4. PICK c : c = Settled(current[t], replies) OBVIOUS
<1>5. CopyOk(c) /\ c \in Copy /\ c.owner = op[t].owner
  BY <1>2, <1>3, <1>4 DEF CopyOk, Copy, Asked, Settled
<1>6. CopyOk(c)' BY <1>1, <1>5 DEF CopyOk, Asked
<1>7. /\ current' = [current EXCEPT ![t] = c] /\ current'[t] = c
      /\ op' = [op EXCEPT ![t] = NoOp]
      /\ disk' = disk \/ disk' = [disk EXCEPT ![c.owner] = Kept(c)]
  <2>1. current' = [current EXCEPT ![t] = c] BY <1>3, <1>4 DEF Forget
  <2>2. current'[t] = c BY <2>1 DEF ReplyInv
  <2>3. Save(Kept(current'[t]), op[t].owner) /\ op' = [op EXCEPT ![t] = NoOp]
    BY <1>3 DEF Forget
  <2> QED BY <1>5, <2>1, <2>2, <2>3 DEF Save
<1>8. \/ disk' = disk
      \/ \E d \in Copy : CopyOk(d)' /\ disk' = [disk EXCEPT ![d.owner] = Kept(d)]
  BY <1>5, <1>6, <1>7
<1>9. /\ asker' \in [Keys -> Owners \cup {Nobody}]
      /\ \A k \in Keys : asker[k] # Nobody => asker'[k] = asker[k]
  BY <1>1 DEF ReplyInv
<1> QED BY <1>1, <1>6, <1>7, <1>8, <1>9, TabMoves

\* The server takes a request on or answers it.
LEMMA ToldOk ==
  ASSUME AuthInv, ReplyInv, NEW t \in ChatTabs, Active(t), op[t].stage # "restoring",
         NEW stage \in {"executing", "answered"}, NEW a \in Answers,
         UNCHANGED <<page, asker, current, disk>>,
         \/ op' = [op EXCEPT ![t].stage = stage]
         \/ op' = [op EXCEPT ![t] = [@ EXCEPT !.stage = stage, !.answer = a]]
  PROVE  ReplyInv'
<1>1. OpOk(op[t], page[t].user, current[t]) BY DEF ReplyInv
<1>2. PICK o : /\ op' = [op EXCEPT ![t] = o]
               /\ \/ o = [op[t] EXCEPT !.stage = stage]
                  \/ o = [op[t] EXCEPT !.stage = stage, !.answer = a]
  <2>1. CASE op' = [op EXCEPT ![t].stage = stage]
    <3>1. op' = [op EXCEPT ![t] = [op[t] EXCEPT !.stage = stage]] BY <2>1
    <3> QED BY <3>1
  <2>2. CASE op' = [op EXCEPT ![t] = [@ EXCEPT !.stage = stage, !.answer = a]] BY <2>2
  <2> QED BY <2>1, <2>2
<1>3. /\ o \in Operation /\ o.same = op[t].same /\ o.owner = op[t].owner /\ o.key = op[t].key
      /\ o.stage # "restoring"
  BY <1>1, <1>2 DEF OpOk, Operation
<1>4. OpOk(o, page[t].user, current[t]) BY <1>1, <1>3 DEF OpOk
<1> QED BY <1>2, <1>4, OpMoves

LEMMA Unmoved ==
  ASSUME ReplyInv, UNCHANGED <<page, asker, current, disk, op>> PROVE ReplyInv'
BY DEF ReplyInv, Active, OpOk, CopyOk, Asked

LEMMA ServerKeeps ==
  ASSUME AuthInv, ReplyInv,
         \/ \E t \in ChatTabs : ServePost(t) \/ ServeReceipt(t)
         \/ \E k \in Keys : ServeOrphan(k) \/ Dispatch(k) \/ Execute(k) \/ CloseLater(k)
  PROVE  ReplyInv'
<1>1. UNCHANGED <<page, asker, current, disk>>
  BY DEF ServePost, ServeReceipt, ServeOrphan, Dispatch, Execute, CloseLater, authVars
<1>2. ASSUME NEW t \in ChatTabs, ServePost(t) \/ ServeReceipt(t) PROVE ReplyInv'
  <2>1. Active(t) /\ op[t].stage \in {"posted", "asked"}
    BY <1>2 DEF ServePost, ServeReceipt
  <2>2. \/ op' = [op EXCEPT ![t].stage = "executing"]
        \/ \E a \in Answers : Told(t, a)
    BY <1>2 DEF ServePost, ServeReceipt, Answers
  <2> QED BY <1>1, <2>1, <2>2, ToldOk DEF Told, Answers
<1>3. ASSUME NEW k \in Keys, NEW answers \in SUBSET Answers, AnswerCall(k, answers)
      PROVE  ReplyInv'
  <2>1. ASSUME NEW t \in Waiting(k, "executing"), NEW a \in answers, Told(t, a)
        PROVE  ReplyInv'
    BY <1>1, <2>1, ToldOk DEF Told, Waiting
  <2> QED BY <1>1, <1>3, <2>1, Unmoved DEF AnswerCall
<1>4. ASSUME NEW k \in Keys, ServeOrphan(k) \/ Dispatch(k) \/ Execute(k) \/ CloseLater(k)
      PROVE  ReplyInv'
  <2>1. op' = op \/ \E answers \in SUBSET Answers : AnswerCall(k, answers)
    <3>1. /\ {"refused", "vague"} \in SUBSET Answers /\ {"vague"} \in SUBSET Answers
          /\ {"output", "vague"} \in SUBSET Answers
      BY DEF Answers
    <3> QED BY <1>4, <3>1 DEF ServeOrphan, Dispatch, Execute, CloseLater
  <2> QED BY <1>1, <1>3, <2>1, Unmoved
<1> QED BY <1>2, <1>4

\* A change of account voids the operations bound to another one.
LEMMA SigningIsHeard ==
  ASSUME AuthInv', ReplyInv, Signing PROVE ReplyInv'
<1>1. /\ UNCHANGED <<asker, current, disk>>
      /\ op' = [t \in ChatTabs |-> Heard(op[t], page'[t].user)]
  BY DEF Signing, AuthChange
<1>2. ASSUME NEW t \in ChatTabs, op'[t] \notin {NoOp, Void}
      PROVE  OpOk(op[t], page[t].user, current[t])'
  <2>1. op'[t] = op[t] /\ Active(t) /\ op[t].owner \in {Nobody, page'[t].user}
    BY <1>1, <1>2 DEF Heard, Active
  <2>2. OpOk(op[t], page[t].user, current[t]) BY <2>1 DEF ReplyInv
  <2>3. op[t].stage # "restoring" => op[t].owner = current[t].owner /\ current[t].owner \in Owners
    BY <2>2 DEF OpOk, CopyOk, Copy
  <2>4. op[t].stage # "restoring" => op[t].owner = page'[t].user
    BY <2>1, <2>3, NobodyAssumption DEF Owners
  <2> QED BY <1>1, <2>1, <2>2, <2>4 DEF OpOk, CopyOk, Asked
<1>3. op' \in [ChatTabs -> Operation \cup {NoOp, Void}]
  BY <1>1 DEF Heard, ReplyInv
<1>4. \A t \in ChatTabs : Active(t)' => OpOk(op[t], page[t].user, current[t])'
  BY <1>2 DEF Active
<1> QED BY <1>1, <1>3, <1>4 DEF ReplyInv, CopyOk, Asked

LEMMA ReloadKeeps == ASSUME AuthInv, ReplyInv, NEW t \in Tabs, Reload(t) PROVE ReplyInv'
<1>1. UNCHANGED <<asker, disk>> /\ page' = [page EXCEPT ![t] = NewPage]
  BY DEF Reload, LoadPage
<1>2. \A x \in Tabs \ {t} : page'[x] = page[x] BY <1>1 DEF AuthInv, AuthTypes
<1>3. /\ op' \in [ChatTabs -> Operation \cup {NoOp, Void}]
      /\ current' \in [ChatTabs -> Copy \cup {NotLoaded}]
      /\ \A x \in ChatTabs \ {t} : op'[x] = op[x] /\ current'[x] = current[x]
      /\ t \in ChatTabs => op'[t] = NoOp /\ current'[t] = NotLoaded
  BY DEF Reload, ReplyInv
<1>4. \A x \in ChatTabs : current'[x] # NotLoaded => CopyOk(current[x])'
  BY <1>1, <1>3 DEF ReplyInv, CopyOk, Asked
<1>5. ASSUME NEW x \in ChatTabs, Active(x)' PROVE OpOk(op[x], page[x].user, current[x])'
  <2>1. x # t /\ Active(x) /\ op'[x] = op[x] /\ current'[x] = current[x] /\ page'[x] = page[x]
    BY <1>2, <1>3, <1>5, ChatTabsAssumption DEF Active
  <2>2. OpOk(op[x], page[x].user, current[x]) BY <2>1 DEF ReplyInv
  <2> QED BY <1>1, <2>1, <2>2 DEF OpOk, CopyOk, Asked
<1> QED BY <1>1, <1>3, <1>4, <1>5 DEF ReplyInv, Asked

LEMMA ReplyStep == AuthInv /\ AuthInv' /\ ReplyInv /\ [Next]_vars => ReplyInv'
<1> SUFFICES ASSUME AuthInv, AuthInv', ReplyInv, [Next]_vars PROVE ReplyInv' OBVIOUS
<1>1. CASE Signing BY <1>1, SigningIsHeard
<1>2. ASSUME NEW t \in Tabs, Reload(t) PROVE ReplyInv' BY <1>2, ReloadKeeps
<1>3. ASSUME NEW t \in ChatTabs, ChatStep(t) PROVE ReplyInv'
  BY <1>3, StartKeeps, ComposeKeeps, ReadingKeeps, OpKeeps, OutcomeKeeps, ServerKeeps
  DEF ChatStep
<1>4. ASSUME NEW k \in Keys, ServeOrphan(k) \/ Dispatch(k) \/ Execute(k) \/ CloseLater(k)
      PROVE  ReplyInv'
  BY <1>4, ServerKeeps
<1>5. CASE UNCHANGED vars
  BY <1>5, Unmoved DEF vars, authVars, chatVars
<1> QED BY <1>1, <1>2, <1>3, <1>4, <1>5 DEF Next

\* Only a new text asks for a key.
LEMMA AskerMoves ==
  ASSUME [Next]_vars, asker' # asker
  PROVE  \E t \in ChatTabs, k \in Keys : Compose(t, k)
<1>1. ASSUME NEW t \in ChatTabs, ChatStep(t) PROVE \E k \in Keys : Compose(t, k)
  BY <1>1
  DEF ChatStep, Start, Resume, NothingToDo, Transmit, TokenMissing, StopWaiting, Abandon,
      Clear, ReceiveReply, ReceiveRefusal, ReceiveReceipt, ReceiveNothing, ServePost, ServeReceipt
<1> QED
  BY <1>1
  DEF Next, Signing, Reload, ServeOrphan, Dispatch, Execute, CloseLater, vars, chatVars

\* Every reply a step writes was asked by the account it is written for, before the step.
LEMMA WritesAreOwn ==
  ASSUME AuthInv, ReplyInv, ReplyInv', [Next]_vars,
         NEW u \in Owners, NEW k \in disk'[u].replies \ disk[u].replies
  PROVE  k \in Keys /\ asker[k] = u
<1>1. k \in Keys /\ asker'[k] = u BY DEF ReplyInv, Disk, Asked
<1>2. ASSUME NEW t \in ChatTabs, NEW j \in Keys, Compose(t, j) PROVE asker[k] = u
  <2>1. PICK s : s = Store(t) OBVIOUS
  <2>2. CopyOk(s) /\ s \in Copy /\ s.owner = page[t].user
    BY <2>1, StoreIsOwn DEF CopyOk
  <2>3. /\ disk' = [disk EXCEPT ![page[t].user] = Kept(current'[t])] \/ disk' = disk
        /\ current' = [current EXCEPT ![t] = [s EXCEPT !.pending = j]]
    BY <1>2, <2>1 DEF Compose
  <2>4. Kept(current'[t]).replies = s.replies
    BY <2>2, <2>3 DEF Kept, Copy, ReplyInv
  <2>5. u = s.owner /\ k \in s.replies BY <2>2, <2>3, <2>4 DEF ReplyInv
  <2> QED BY <2>2, <2>5 DEF CopyOk, Asked
<1>3. CASE asker' = asker BY <1>1, <1>3
<1> QED BY <1>1, <1>2, <1>3, AskerMoves

\* A reply is stored only for the account that asked, and only if that account has stayed
\* signed in in the tab since (chat-core.js assertCurrent and the uvenaro:auth-change
\* listener).
THEOREM RepliesHome == Spec => RepliesStayHome
<1>1. AuthInv /\ ReplyInv /\ ReplyInv' /\ [Next]_vars =>
        [\A u \in Owners : disk'[u] # disk[u] => \A k \in disk'[u].replies \ disk[u].replies :
           asker[k] = u /\ \A t \in ChatTabs :
             Active(t) /\ op[t].key = k => op[t].same /\ page[t].user = u]_vars
  <2> SUFFICES ASSUME AuthInv, ReplyInv, ReplyInv', [Next]_vars,
                      NEW u \in Owners, NEW k \in disk'[u].replies \ disk[u].replies
               PROVE  asker[k] = u /\ \A t \in ChatTabs :
                        Active(t) /\ op[t].key = k => op[t].same /\ page[t].user = u
    OBVIOUS
  <2>1. k \in Keys /\ asker[k] = u BY WritesAreOwn
  <2>2. ASSUME NEW t \in ChatTabs, Active(t), op[t].key = k
        PROVE  op[t].same /\ page[t].user = u
    BY <2>1, <2>2, NobodyAssumption DEF ReplyInv, OpOk
  <2> QED BY <2>1, <2>2
<1>2. Spec => [](AuthInv /\ ReplyInv)
  BY AuthInitially, AuthStepKeeps, ReplyInitially, ReplyStep, PTL DEF Spec
<1> QED BY <1>1, <1>2, PTL DEF Spec, RepliesStayHome

-----------------------------------------------------------------------------
(* Requests that may cost money, with the chat open in one tab *)

OneChatTab == \A s, t \in ChatTabs : s = t

Posted(k) == \E t \in ChatTabs : Active(t) /\ op[t].stage = "posted" /\ op[t].key = k

\* The request was dispatched, or may yet be without the page doing anything.
MayCost(k) ==
  \/ row[k] \in {"started", "settled"}
  \/ row[k] = "held" /\ k \in working
  \/ row[k] = "none" /\ (orphans[k] > 0 \/ Posted(k))

\* The key is pending on disk, and in memory if the store in memory is the asker's.
Remembered(k) ==
  \/ k \in known \cup overtaken
  \/ /\ asker[k] \in Owners /\ disk[asker[k]].pending = k
     /\ \A t \in ChatTabs :
          current[t] # NotLoaded /\ current[t].owner = asker[k] => current[t].pending = k

ServerTypes ==
  /\ row \in [Keys -> {"none", "held", "started", "settled", "released"}]
  /\ orphans \in [Keys -> Nat]

\* The key of an operation is the one pending in memory.
KeyIsPending(t) ==
  Active(t) /\ op[t].stage # "restoring" => current[t].pending = op[t].key

\* A request that was refused will not cost anything.
RefusedIsFree(t) ==
  Active(t) /\ op[t].stage = "answered" /\ op[t].answer = "refused" =>
    op[t].key \in overtaken \/ ~MayCost(op[t].key)

PaidInv ==
  /\ ServerTypes
  /\ \A t \in ChatTabs : KeyIsPending(t) /\ RefusedIsFree(t)
  /\ \A k \in Keys : MayCost(k) => Remembered(k)

LEMMA LoadedIsNot == \A c \in Copy : c # NotLoaded
BY NotLoadedAssumption DEF Copy, Owners

\* No operation is newly posted in the step.
NoNewPost ==
  \A x \in ChatTabs : op'[x] = op[x] \/ op'[x] \in {NoOp, Void} \/ op'[x].stage # "posted"

LEMMA PostedBefore ==
  ASSUME NoNewPost, NEW k, Posted(k)' PROVE Posted(k)
BY DEF NoNewPost, Posted, Active

\* A transmission whose page gives up may have cost money before.
LEMMA DriftIsFree ==
  ASSUME ServerTypes, Drift, NoNewPost, UNCHANGED server, NEW k \in Keys, MayCost(k)'
  PROVE  MayCost(k)
<1>1. orphans'[k] > 0 => orphans[k] > 0 \/ Posted(k)
  BY DEF Drift, Posted, ServerTypes
<1>2. row' = row /\ working' = working BY DEF server
<1>3. Posted(k)' => Posted(k) BY PostedBefore
<1> QED BY <1>1, <1>2, <1>3 DEF MayCost

LEMMA DriftTypes == ASSUME ServerTypes, Drift, UNCHANGED server PROVE ServerTypes'
BY DEF ServerTypes, Drift, server

LEMMA StillIsFree ==
  ASSUME UNCHANGED <<server, orphans>>, NoNewPost, NEW k \in Keys, MayCost(k)'
  PROVE  MayCost(k)
<1>1. row' = row /\ working' = working /\ orphans' = orphans BY DEF server
<1>2. Posted(k)' => Posted(k) BY PostedBefore
<1> QED BY <1>1, <1>2 DEF MayCost

\* The store of an account remembers what the device does.
LEMMA StoreRemembers ==
  ASSUME NEW t \in ChatTabs, NEW k \in Keys, Remembered(k), k \notin known \cup overtaken,
         asker[k] = page[t].user
  PROVE  Store(t).pending = k
BY DEF Remembered, Store

\* The device does not forget k in a step of tab t that leaves it a copy c.
LEMMA DeviceRemembers ==
  ASSUME ReplyInv, NEW t \in ChatTabs, NEW k \in Keys, Remembered(k),
         asker[k] # Nobody => asker'[k] = asker[k],
         known \subseteq known', overtaken \subseteq overtaken',
         NEW c, current' = [current EXCEPT ![t] = c],
         c # NotLoaded => c \in Copy,
         c # NotLoaded /\ c.owner = asker[k] /\ k \notin known' \cup overtaken' => c.pending = k,
         \/ disk' = disk
         \/ c # NotLoaded /\ disk' = [disk EXCEPT ![c.owner] = Kept(c)]
  PROVE  Remembered(k)'
<1>1. CASE k \in known' \cup overtaken' BY <1>1 DEF Remembered
<1>2. CASE k \notin known' \cup overtaken'
  <2>1. /\ asker[k] \in Owners /\ disk[asker[k]].pending = k
        /\ \A x \in ChatTabs :
             current[x] # NotLoaded /\ current[x].owner = asker[k] => current[x].pending = k
    BY <1>2 DEF Remembered
  <2>2. asker'[k] = asker[k] BY <2>1, NobodyAssumption DEF Owners
  <2>3. \A x \in ChatTabs :
          current'[x] # NotLoaded /\ current'[x].owner = asker[k] => current'[x].pending = k
    BY <1>2, <2>1 DEF ReplyInv
  <2>4. disk'[asker[k]].pending = k
    <3>1. CASE disk' = disk BY <2>1, <3>1
    <3>2. CASE c # NotLoaded /\ disk' = [disk EXCEPT ![c.owner] = Kept(c)] /\ c.owner = asker[k]
      BY <1>2, <2>1, <3>2 DEF ReplyInv, Kept
    <3>3. CASE c # NotLoaded /\ disk' = [disk EXCEPT ![c.owner] = Kept(c)] /\ c.owner # asker[k]
      BY <2>1, <3>3 DEF ReplyInv
    <3> QED BY <3>1, <3>2, <3>3
  <2> QED BY <2>1, <2>2, <2>3, <2>4 DEF Remembered
<1> QED BY <1>1, <1>2

\* Nor in a step that leaves the device alone.
LEMMA RestRemembers ==
  ASSUME UNCHANGED <<disk, current, asker>>, known \subseteq known', overtaken \subseteq overtaken',
         NEW k, Remembered(k)
  PROVE  Remembered(k)'
BY DEF Remembered

\* With one tab the invariant is about that tab.
LEMMA OneTabMoves ==
  ASSUME OneChatTab, NEW t \in ChatTabs, ServerTypes', KeyIsPending(t)', RefusedIsFree(t)',
         \A k \in Keys : MayCost(k)' => Remembered(k)'
  PROVE  PaidInv'
<1>1. \A x \in ChatTabs : x = t BY DEF OneChatTab
<1>2. \A x \in ChatTabs : KeyIsPending(x)' /\ RefusedIsFree(x)' BY <1>1
<1> QED BY <1>2 DEF PaidInv

LEMMA OpIsNotPosted ==
  ASSUME ReplyInv, NEW t \in ChatTabs, NEW o, op' = [op EXCEPT ![t] = o],
         o \in {NoOp, Void} \/ o.stage # "posted"
  PROVE  NoNewPost /\ op'[t] = o
BY DEF NoNewPost, ReplyInv

\* A step of a tab that moves its operation and no more.
LEMMA Quiet ==
  ASSUME OneChatTab, ReplyInv, PaidInv, NEW t \in ChatTabs,
         UNCHANGED <<disk, current, asker, server, known, overtaken>>,
         UNCHANGED orphans \/ Drift,
         NEW o, op' = [op EXCEPT ![t] = o],
         o \notin {NoOp, Void} =>
           /\ o.stage \notin {"posted", "answered"}
           /\ o.stage = "restoring" \/ o.key = current[t].pending
  PROVE  PaidInv'
<1>1. NoNewPost /\ op'[t] = o BY OpIsNotPosted
<1>2. ServerTypes' BY DriftTypes DEF PaidInv, ServerTypes, server
<1>3. \A k \in Keys : MayCost(k)' => MayCost(k) BY <1>1, DriftIsFree, StillIsFree DEF PaidInv
<1>4. \A k \in Keys : MayCost(k)' => Remembered(k)'
  BY <1>3, RestRemembers DEF PaidInv
<1>5. KeyIsPending(t)' /\ RefusedIsFree(t)' BY <1>1 DEF KeyIsPending, RefusedIsFree, Active
<1> QED BY <1>2, <1>4, <1>5, OneTabMoves

LEMMA QuietKeeps ==
  ASSUME OneChatTab, ReplyInv, PaidInv, NEW t \in ChatTabs,
         \/ \E kind \in {"send", "retry", "receipt"} : Start(t, kind)
         \/ TokenMissing(t) \/ StopWaiting(t) \/ Abandon(t) \/ ReceiveNothing(t)
         \/ Transmit(t) /\ disk' = disk /\ op[t].kind = "receipt"
         \/ Transmit(t) /\ op' = [op EXCEPT ![t] = NoOp] /\ disk' = disk
  PROVE  PaidInv'
<1>1. /\ UNCHANGED <<disk, current, asker, server, known, overtaken>>
      /\ UNCHANGED orphans \/ Drift
  BY DEF Start, TokenMissing, StopWaiting, Abandon, ReceiveNothing, Transmit
<1>2. ASSUME NEW kind \in {"send", "retry", "receipt"}, Start(t, kind) PROVE PaidInv'
  <2>1. PICK o : o = [kind |-> kind, stage |-> "restoring", key |-> NoKey, answer |-> "none",
                      owner |-> IF page[t].user = Guest THEN Nobody ELSE page[t].user,
                      same |-> TRUE]
    OBVIOUS
  <2>2. op' = [op EXCEPT ![t] = o] /\ o.stage = "restoring" BY <1>2, <2>1 DEF Start
  <2> QED BY <1>1, <2>2, Quiet
<1>3. CASE op' = [op EXCEPT ![t] = NoOp] \/ op' = [op EXCEPT ![t] = Void]
  BY <1>1, <1>3, Quiet
<1>4. CASE Transmit(t) /\ disk' = disk /\ op[t].kind = "receipt"
  <2>1. PICK o : o = [op[t] EXCEPT !.stage = "asked"] OBVIOUS
  <2>2. op' = [op EXCEPT ![t] = o] BY <1>4, <2>1 DEF Transmit
  <2>3. Active(t) /\ op[t].stage = "token" /\ op[t] \in Operation
    BY <1>4 DEF Transmit, Current, ReplyInv, OpOk
  <2>4. o.stage = "asked" /\ o.key = op[t].key BY <2>1, <2>3 DEF Operation
  <2>5. current[t].pending = op[t].key BY <2>3 DEF PaidInv, KeyIsPending
  <2> QED BY <1>1, <2>2, <2>4, <2>5, Quiet
<1> QED
  BY <1>2, <1>3, <1>4 DEF TokenMissing, StopWaiting, Abandon, ReceiveNothing

\* The request is posted once its key is on disk.
LEMMA PostKeeps ==
  ASSUME OneChatTab, ReplyInv, PaidInv, NEW t \in ChatTabs, Transmit(t),
         disk' = [disk EXCEPT ![op[t].owner] = Kept(current[t])],
         op' = [op EXCEPT ![t].stage = "posted"]
  PROVE  PaidInv'
<1>1. /\ Active(t) /\ op[t].stage = "token" /\ UNCHANGED <<current, asker, server, known, overtaken, orphans>>
  BY DEF Transmit, Current
<1>2. /\ op[t] \in Operation /\ op[t].key \in Keys /\ asker[op[t].key] = op[t].owner
      /\ current[t] \in Copy /\ current[t].owner = op[t].owner
      /\ current[t].pending = op[t].key
  BY <1>1 DEF ReplyInv, OpOk, CopyOk, PaidInv, KeyIsPending
<1>3. PICK k \in Keys : k = op[t].key BY <1>2
<1>4. PICK o : o = [op[t] EXCEPT !.stage = "posted"] OBVIOUS
<1>5. /\ op'[t] = o /\ o.stage = "posted" /\ o.key = k
      /\ \A x \in ChatTabs \ {t} : op'[x] = op[x]
  BY <1>2, <1>3, <1>4 DEF ReplyInv, Operation
<1>6. \A j \in Keys \ {k} : MayCost(j)' => MayCost(j)
  <2>1. \A j \in Keys \ {k} : Posted(j)' => Posted(j) BY <1>5 DEF Posted, Active
  <2>2. row' = row /\ working' = working /\ orphans' = orphans BY <1>1 DEF server
  <2> QED BY <2>1, <2>2 DEF MayCost
<1>7. ASSUME NEW j \in Keys \ {k}, MayCost(j)' PROVE Remembered(j)'
  <2>1. Remembered(j) BY <1>6, <1>7 DEF PaidInv
  <2>2. current[t].owner = asker[j] => j \in known \cup overtaken
    BY <1>2, <1>3, <2>1, LoadedIsNot DEF Remembered
  <2>3. PICK c : c = current[t] OBVIOUS
  <2>4. c \in Copy /\ c # NotLoaded BY <1>2, <2>3, LoadedIsNot
  <2>5. current' = [current EXCEPT ![t] = c] BY <1>1, <2>3 DEF ReplyInv
  <2> QED BY <1>1, <1>2, <2>1, <2>2, <2>3, <2>4, <2>5, DeviceRemembers
<1>8. Remembered(k)'
  <2>1. asker[k] \in Owners /\ disk'[asker[k]] = Kept(current[t])
    BY <1>2, <1>3 DEF ReplyInv, Copy
  <2>2. disk'[asker[k]].pending = k BY <1>2, <1>3, <2>1 DEF Kept
  <2>3. \A x \in ChatTabs : x = t BY DEF OneChatTab
  <2> QED BY <1>1, <1>2, <1>3, <2>1, <2>2, <2>3 DEF Remembered
<1>9. KeyIsPending(t)' /\ RefusedIsFree(t)'
  BY <1>1, <1>2, <1>3, <1>5 DEF KeyIsPending, RefusedIsFree
<1>10. ServerTypes' BY <1>1 DEF PaidInv, ServerTypes, server
<1> QED BY <1>7, <1>8, <1>9, <1>10, OneTabMoves

\* Steps that take the store of the account signed in into memory.
LEMMA StoringKeeps ==
  ASSUME OneChatTab, AuthInv, ReplyInv, PaidInv, NEW t \in ChatTabs,
         Resume(t) \/ NothingToDo(t) \/ Clear(t) \/ \E k \in Keys : Compose(t, k)
  PROVE  PaidInv'
<1>1. PICK s : s = Store(t) OBVIOUS
<1>2. CopyOk(s) /\ s \in Copy /\ s.owner = page[t].user BY <1>1, StoreIsOwn DEF CopyOk
<1>3. UNCHANGED <<server, orphans, known, overtaken>>
  BY DEF Resume, NothingToDo, Clear, Compose
<1>4. \A j \in Keys : MayCost(j) /\ j \notin known \cup overtaken /\ asker[j] = s.owner =>
        s.pending = j
  BY <1>1, <1>2, StoreRemembers DEF PaidInv
<1>5. ServerTypes' BY <1>3 DEF PaidInv, ServerTypes, server
<1>6. ASSUME NEW c, c \in Copy, c.owner = s.owner, current' = [current EXCEPT ![t] = c],
             s.pending # NoKey => c.pending = s.pending,
             disk' = disk \/ disk' = [disk EXCEPT ![c.owner] = Kept(c)],
             \A j \in Keys : asker[j] # Nobody => asker'[j] = asker[j],
             NEW o, op' = [op EXCEPT ![t] = o],
             o # NoOp => o.stage = "token" /\ o.key = c.pending
      PROVE  PaidInv'
  <2>1. NoNewPost /\ op'[t] = o BY <1>6, OpIsNotPosted
  <2>2. \A j \in Keys : MayCost(j)' => MayCost(j) BY <1>3, <2>1, StillIsFree
  <2>3. ASSUME NEW j \in Keys, MayCost(j)' PROVE Remembered(j)'
    <3>1. MayCost(j) /\ Remembered(j) BY <2>2, <2>3 DEF PaidInv
    <3>2. c.owner = asker[j] /\ j \notin known' \cup overtaken' => c.pending = j
      <4>1. c.owner = asker[j] /\ j \notin known \cup overtaken => s.pending = j
        BY <1>4, <1>6, <3>1
      <4> QED BY <1>3, <1>6, <4>1, NobodyAssumption
    <3>3. c # NotLoaded BY <1>6, LoadedIsNot
    <3> QED BY <1>3, <1>6, <3>1, <3>2, <3>3, DeviceRemembers
  <2>4. current'[t] = c BY <1>6 DEF ReplyInv
  <2>5. KeyIsPending(t)' /\ RefusedIsFree(t)'
    BY <1>6, <2>1, <2>4 DEF KeyIsPending, RefusedIsFree, Active
  <2> QED BY <1>5, <2>3, <2>5, OneTabMoves
<1>7. CASE Resume(t)
  <2>1. PICK o : o = [op[t] EXCEPT !.stage = "token", !.key = s.pending, !.owner = page[t].user]
    OBVIOUS
  <2>2. /\ current' = [current EXCEPT ![t] = s] /\ op' = [op EXCEPT ![t] = o]
        /\ UNCHANGED <<disk, asker>> /\ Active(t)
    BY <1>1, <1>7, <2>1 DEF Resume, Restored, Current
  <2>3. o.stage = "token" /\ o.key = s.pending
    BY <2>1, <2>2 DEF ReplyInv, OpOk, Operation
  <2> QED BY <1>2, <1>6, <2>2, <2>3
<1>8. CASE NothingToDo(t)
  <2>1. /\ current' = [current EXCEPT ![t] = s] /\ op' = [op EXCEPT ![t] = NoOp]
        /\ UNCHANGED <<disk, asker>>
    BY <1>1, <1>8 DEF NothingToDo
  <2> QED BY <1>2, <1>6, <2>1
<1>9. CASE Clear(t)
  <2>1. PICK c : c = [s EXCEPT !.replies = {}] OBVIOUS
  <2>2. c \in Copy /\ c.owner = s.owner /\ c.pending = s.pending BY <1>2, <2>1 DEF Copy
  <2>3. /\ current' = [current EXCEPT ![t] = c] /\ current'[t] = c
        /\ op' = [op EXCEPT ![t] = NoOp] /\ UNCHANGED asker
        /\ disk' = disk \/ disk' = [disk EXCEPT ![c.owner] = Kept(c)]
    BY <1>1, <1>2, <1>9, <2>1, <2>2 DEF Clear, Save, ReplyInv
  <2> QED BY <1>6, <2>2, <2>3
<1>10. ASSUME NEW k \in Keys, Compose(t, k) PROVE PaidInv'
  <2>1. PICK c : c = [s EXCEPT !.pending = k] OBVIOUS
  <2>2. PICK o : o = [op[t] EXCEPT !.stage = "token", !.key = k, !.owner = page[t].user] OBVIOUS
  <2>3. c \in Copy /\ c.owner = s.owner /\ c.pending = k BY <1>2, <2>1 DEF Copy
  <2>4. /\ Active(t) /\ s.pending = NoKey
        /\ \A j \in Keys : asker[j] # Nobody => asker'[j] = asker[j]
    BY <1>1, <1>10 DEF Compose, Restored, Current, ReplyInv
  <2>5. o.stage = "token" /\ o.key = c.pending
    BY <2>2, <2>3, <2>4 DEF ReplyInv, OpOk, Operation
  <2>6. current' = [current EXCEPT ![t] = c] /\ current'[t] = c
    BY <1>1, <1>10, <2>1 DEF Compose, ReplyInv
  <2>7. \/ disk' = [disk EXCEPT ![c.owner] = Kept(c)] /\ op' = [op EXCEPT ![t] = o]
        \/ disk' = disk /\ op' = [op EXCEPT ![t] = NoOp]
    BY <1>2, <1>10, <2>2, <2>3, <2>6 DEF Compose
  <2> QED BY <1>6, <2>3, <2>4, <2>5, <2>6, <2>7
<1> QED BY <1>7, <1>8, <1>9, <1>10

\* An outcome is forgotten by the device when the page has been told it.
LEMMA OutcomeRemembers ==
  ASSUME OneChatTab, ReplyInv, PaidInv, NEW t \in ChatTabs,
         ReceiveReply(t) \/ ReceiveRefusal(t) \/ ReceiveReceipt(t)
  PROVE  PaidInv'
<1>1. /\ Active(t) /\ op[t].stage = "answered" /\ UNCHANGED <<asker, server, orphans, overtaken>>
      /\ \E replies \in {{op[t].key}, {}} : Forget(t, replies)
      /\ \/ known' = known \cup {op[t].key}
         \/ known' = known /\ op[t].answer = "refused"
  <2>1. CASE ReceiveReply(t) BY <2>1 DEF ReceiveReply, Answer, Current
  <2>2. CASE ReceiveRefusal(t) BY <2>2 DEF ReceiveRefusal, Answer, Current
  <2>3. CASE ReceiveReceipt(t) BY <2>3 DEF ReceiveReceipt, Answer, Current
  <2> QED BY <2>1, <2>2, <2>3
<1>2. /\ op[t].key \in Keys /\ current[t] \in Copy /\ current[t].owner = op[t].owner
      /\ current[t].pending = op[t].key
  BY <1>1 DEF ReplyInv, OpOk, CopyOk, PaidInv, KeyIsPending
<1>3. PICK replies \in {{op[t].key}, {}} : Forget(t, replies) BY <1>1
<1>4. PICK c : c = Settled(current[t], replies) OBVIOUS
<1>5. c \in Copy /\ c # NotLoaded /\ c.owner = op[t].owner
  BY <1>2, <1>3, <1>4, LoadedIsNot DEF Copy, Settled
<1>6. /\ current' = [current EXCEPT ![t] = c] /\ op' = [op EXCEPT ![t] = NoOp]
      /\ disk' = disk \/ disk' = [disk EXCEPT ![c.owner] = Kept(c)]
  <2>1. current' = [current EXCEPT ![t] = c] BY <1>3, <1>4 DEF Forget
  <2>2. current'[t] = c BY <2>1 DEF ReplyInv
  <2>3. Save(Kept(current'[t]), op[t].owner) /\ op' = [op EXCEPT ![t] = NoOp]
    BY <1>3 DEF Forget
  <2> QED BY <1>5, <2>1, <2>2, <2>3 DEF Save
<1>7. NoNewPost /\ op'[t] = NoOp BY <1>6, OpIsNotPosted
<1>8. ASSUME NEW j \in Keys, MayCost(j)' PROVE Remembered(j)'
  <2>1. MayCost(j) /\ Remembered(j) BY <1>1, <1>7, <1>8, StillIsFree DEF PaidInv
  <2>2. c.owner = asker[j] /\ j \notin known' \cup overtaken' => c.pending = j
    <3>1. SUFFICES ASSUME c.owner = asker[j], j \notin known' \cup overtaken' PROVE FALSE
      OBVIOUS
    <3>2. j \notin known \cup overtaken BY <1>1, <3>1
    <3>3. current[t].pending = j
      BY <1>2, <1>5, <2>1, <3>1, <3>2, LoadedIsNot DEF Remembered
    <3>4. j = op[t].key /\ op[t].answer = "refused" BY <1>1, <1>2, <3>1, <3>3
    <3> QED BY <1>1, <2>1, <3>2, <3>4 DEF PaidInv, RefusedIsFree
  <2> QED BY <1>1, <1>5, <1>6, <2>1, <2>2, DeviceRemembers
<1>9. KeyIsPending(t)' /\ RefusedIsFree(t)'
  BY <1>7 DEF KeyIsPending, RefusedIsFree, Active
<1>10. ServerTypes' BY <1>1 DEF PaidInv, ServerTypes, server
<1> QED BY <1>8, <1>9, <1>10, OneTabMoves

\* The calls of the server move one request on, and may answer its page.
LEMMA ServerMoves ==
  ASSUME OneChatTab, ReplyInv, PaidInv, NEW t \in ChatTabs,
         UNCHANGED <<disk, current, asker, known>>, overtaken \subseteq overtaken', ServerTypes',
         \A j \in Keys : MayCost(j)' => MayCost(j),
         NEW k \in Keys,
         \/ op'[t] = op[t]
         \/ /\ Active(t) /\ op[t].stage # "restoring" /\ op[t].key = k /\ op'[t].key = k
            /\ \/ op'[t].stage # "answered" \/ op'[t].answer # "refused"
               \/ k \in overtaken' \/ ~MayCost(k)'
  PROVE  PaidInv'
<1>1. \A j \in Keys : MayCost(j)' => Remembered(j)' BY RestRemembers DEF PaidInv
<1>2. KeyIsPending(t)' BY DEF PaidInv, KeyIsPending, Active
<1>3. RefusedIsFree(t)'
  <2>1. CASE op'[t] = op[t]
    <3>1. Active(t) /\ op[t].stage = "answered" => op[t].key \in Keys BY DEF ReplyInv, OpOk
    <3> QED BY <2>1, <3>1 DEF PaidInv, RefusedIsFree, Active
  <2>2. CASE op'[t] # op[t] BY <2>2 DEF RefusedIsFree
  <2> QED BY <2>1, <2>2
<1> QED BY <1>1, <1>2, <1>3, OneTabMoves

LEMMA ServerRests ==
  ASSUME ReplyInv, PaidInv,
         UNCHANGED <<disk, current, op, asker, known, overtaken>>, ServerTypes',
         \A j \in Keys : MayCost(j)' => MayCost(j)
  PROVE  PaidInv'
<1>1. \A j \in Keys : MayCost(j)' => Remembered(j)' BY RestRemembers DEF PaidInv
<1>2. ASSUME NEW x \in ChatTabs PROVE KeyIsPending(x)' /\ RefusedIsFree(x)'
  <2>1. Active(x) /\ op[x].stage = "answered" => op[x].key \in Keys BY DEF ReplyInv, OpOk
  <2> QED BY <2>1 DEF PaidInv, KeyIsPending, RefusedIsFree, Active
<1> QED BY <1>1, <1>2 DEF PaidInv

\* A tab is told an answer.
LEMMA ToldIs ==
  ASSUME ReplyInv, NEW t \in ChatTabs, Active(t), NEW a, Told(t, a)
  PROVE  /\ NoNewPost
         /\ op'[t].stage = "answered" /\ op'[t].key = op[t].key /\ op'[t].answer = a
         /\ \A x \in ChatTabs \ {t} : op'[x] = op[x]
<1>1. op[t] \in Operation BY DEF ReplyInv, OpOk, Active
<1>2. PICK o : o = [op[t] EXCEPT !.stage = "answered", !.answer = a] OBVIOUS
<1>3. o.stage = "answered" /\ o.key = op[t].key /\ o.answer = a BY <1>1, <1>2 DEF Operation
<1>4. op'[t] = o /\ \A x \in ChatTabs \ {t} : op'[x] = op[x] BY <1>2 DEF Told, ReplyInv
<1> QED BY <1>3, <1>4 DEF NoNewPost

\* A page that posted is answered, or its request is reserved.
LEMMA PostServedKeeps ==
  ASSUME OneChatTab, ReplyInv, PaidInv, NEW t \in ChatTabs, ServePost(t)
  PROVE  PaidInv'
<1>1. /\ Active(t) /\ op[t].stage = "posted" /\ op[t].key \in Keys /\ op[t] \in Operation
      /\ UNCHANGED <<disk, current, asker, orphans, known>>
  BY DEF ServePost, ReplyInv, OpOk
<1>2. PICK k \in Keys : k = op[t].key BY <1>1
<1>3. Posted(k) BY <1>1, <1>2 DEF Posted
<1>4. CASE Reserve(k) /\ op' = [op EXCEPT ![t].stage = "executing"] /\ UNCHANGED overtaken
  <2>1. PICK o : o = [op[t] EXCEPT !.stage = "executing"] OBVIOUS
  <2>2. o.stage = "executing" /\ o.key = k BY <1>1, <1>2, <2>1 DEF Operation
  <2>3. op' = [op EXCEPT ![t] = o] BY <1>4, <2>1
  <2>4. NoNewPost /\ op'[t] = o BY <2>2, <2>3, OpIsNotPosted
  <2>5. ServerTypes' BY <1>1, <1>4 DEF PaidInv, ServerTypes, Reserve
  <2>6. \A j \in Keys : MayCost(j)' => MayCost(j)
    <3>1. MayCost(k) BY <1>3, <1>4 DEF MayCost, Reserve
    <3>2. ASSUME NEW j \in Keys, j # k, MayCost(j)' PROVE MayCost(j)
      <4>1. row'[j] = row[j] /\ (j \in working' <=> j \in working) /\ orphans'[j] = orphans[j]
        BY <1>1, <1>4, <3>2 DEF Reserve, PaidInv, ServerTypes
      <4>2. Posted(j)' => Posted(j) BY <2>4, PostedBefore
      <4> QED BY <3>2, <4>1, <4>2 DEF MayCost
    <3> QED BY <3>1, <3>2
  <2> QED BY <1>1, <1>2, <1>4, <2>2, <2>4, <2>5, <2>6, ServerMoves
<1>5. ASSUME NEW a \in {"refused", "vague"}, Told(t, a), UNCHANGED server,
             overtaken \subseteq overtaken',
             a = "refused" => row[k] = "none" /\ (orphans[k] > 0 => k \in overtaken')
      PROVE  PaidInv'
  <2>1. /\ NoNewPost /\ op'[t].stage = "answered" /\ op'[t].key = k /\ op'[t].answer = a
        /\ \A x \in ChatTabs \ {t} : op'[x] = op[x]
    BY <1>1, <1>2, <1>5, ToldIs
  <2>2. \A j \in Keys : MayCost(j)' => MayCost(j) BY <1>1, <1>5, <2>1, StillIsFree
  <2>3. ServerTypes' BY <1>1, <1>5 DEF PaidInv, ServerTypes, server
  <2>4. a = "refused" => k \in overtaken' \/ ~MayCost(k)'
    <3>1. ~Posted(k)' BY <2>1 DEF Posted, OneChatTab
    <3>2. orphans[k] \in Nat BY DEF PaidInv, ServerTypes
    <3> QED BY <1>1, <1>5, <3>1, <3>2 DEF MayCost, server
  <2> QED BY <1>1, <1>2, <1>5, <2>1, <2>2, <2>3, <2>4, ServerMoves
<1> QED BY <1>2, <1>4, <1>5 DEF ServePost

LEMMA ReceiptServedKeeps ==
  ASSUME OneChatTab, ReplyInv, PaidInv, NEW t \in ChatTabs, ServeReceipt(t)
  PROVE  PaidInv'
<1>1. /\ Active(t) /\ op[t].stage = "asked" /\ op[t].key \in Keys
      /\ UNCHANGED <<disk, current, asker, server, orphans, known, overtaken>>
  BY DEF ServeReceipt, ReplyInv, OpOk
<1>2. PICK k \in Keys : k = op[t].key BY <1>1
<1>3. PICK a \in {"missing", "open", "closed", "vague"} : Told(t, a) BY DEF ServeReceipt
<1>4. NoNewPost /\ op'[t].stage = "answered" /\ op'[t].key = k /\ op'[t].answer = a
  BY <1>1, <1>2, <1>3, ToldIs
<1>5. \A j \in Keys : MayCost(j)' => MayCost(j) BY <1>1, <1>4, StillIsFree
<1>6. ServerTypes' BY <1>1 DEF PaidInv, ServerTypes, server
<1> QED BY <1>1, <1>2, <1>3, <1>4, <1>5, <1>6, ServerMoves

LEMMA OrphanServedKeeps ==
  ASSUME ReplyInv, PaidInv, NEW k \in Keys, ServeOrphan(k)
  PROVE  PaidInv'
<1>1. /\ orphans[k] > 0 /\ orphans' = [orphans EXCEPT ![k] = orphans[k] - 1]
      /\ UNCHANGED <<disk, current, op, asker, known, overtaken>>
      /\ Reserve(k) \/ UNCHANGED server
  BY DEF ServeOrphan
<1>2. ServerTypes'
  <2>1. orphans' \in [Keys -> Nat] BY <1>1 DEF PaidInv, ServerTypes
  <2>2. row' = row \/ row' = [row EXCEPT ![k] = "held"] BY <1>1 DEF Reserve, server
  <2> QED BY <2>1, <2>2 DEF PaidInv, ServerTypes
<1>3. ASSUME NEW j \in Keys, MayCost(j)' PROVE MayCost(j)
  <2>1. Posted(j)' <=> Posted(j) BY <1>1 DEF Posted, Active
  <2>2. CASE j # k
    <3>1. row'[j] = row[j] /\ (j \in working' <=> j \in working) /\ orphans'[j] = orphans[j]
      BY <1>1, <2>2 DEF Reserve, PaidInv, ServerTypes, server
    <3> QED BY <1>3, <2>1, <3>1 DEF MayCost
  <2>3. CASE j = k
    <3>1. row[k] = "none" => MayCost(k) BY <1>1 DEF MayCost
    <3>2. row[k] # "none" => row' = row /\ working' = working BY <1>1 DEF Reserve, server
    <3>3. row'[k] = "none" => row[k] = "none" BY <1>1 DEF Reserve, PaidInv, ServerTypes, server
    <3> QED BY <1>3, <2>3, <3>1, <3>2, <3>3 DEF MayCost
  <2> QED BY <2>2, <2>3
<1> QED BY <1>1, <1>2, <1>3, ServerRests

\* The call that executes k answers the page or nobody.
LEMMA AnswerKeeps ==
  ASSUME OneChatTab, ReplyInv, PaidInv, NEW k \in Keys,
         UNCHANGED <<disk, current, asker, orphans, known, overtaken>>,
         NEW s \in {"held", "started", "settled", "released"}, row' = [row EXCEPT ![k] = s],
         row[k] # "none", s \in {"started", "settled"} => MayCost(k), k \in working,
         NEW answers, AnswerCall(k, answers),
         "refused" \in answers => s \notin {"started", "settled"}
  PROVE  PaidInv'
<1>1. working' = working \ {k} BY DEF AnswerCall
<1>2. ServerTypes' BY DEF PaidInv, ServerTypes
<1>3. row'[k] = s /\ \A j \in Keys \ {k} : row'[j] = row[j] BY DEF PaidInv, ServerTypes
<1>4. ASSUME NoNewPost, NEW j \in Keys, MayCost(j)' PROVE MayCost(j)
  <2>1. Posted(j)' => Posted(j) BY <1>4, PostedBefore
  <2>2. CASE j # k BY <1>1, <1>3, <1>4, <2>1, <2>2 DEF MayCost
  <2>3. CASE j = k BY <1>1, <1>3, <1>4, <2>3 DEF MayCost
  <2> QED BY <2>2, <2>3
<1>5. CASE Waiting(k, "executing") = {}
  <2>1. op' = op BY <1>5 DEF AnswerCall
  <2>2. NoNewPost BY <2>1 DEF NoNewPost
  <2> QED BY <1>2, <1>4, <2>1, <2>2, ServerRests
<1>6. CASE Waiting(k, "executing") # {}
  <2>1. PICK t \in Waiting(k, "executing"), a \in answers : Told(t, a) BY <1>6 DEF AnswerCall
  <2>2. t \in ChatTabs /\ Active(t) /\ op[t].key = k /\ op[t].stage = "executing"
    BY <2>1 DEF Waiting
  <2>3. NoNewPost /\ op'[t].stage = "answered" /\ op'[t].key = k /\ op'[t].answer = a
    BY <2>1, <2>2, ToldIs
  <2>4. a = "refused" => ~MayCost(k)' BY <1>1, <1>3, <2>1 DEF MayCost
  <2> QED BY <1>2, <1>4, <2>2, <2>3, <2>4, ServerMoves
<1> QED BY <1>5, <1>6

\* A reservation that moves on without an answer to the page.
LEMMA RowMoves ==
  ASSUME ReplyInv, PaidInv, NEW k \in Keys,
         UNCHANGED <<disk, current, op, asker, working, orphans, known, overtaken>>,
         NEW s \in {"started", "settled", "released"}, row' = [row EXCEPT ![k] = s],
         s \in {"started", "settled"} => MayCost(k)
  PROVE  PaidInv'
<1>1. ServerTypes' BY DEF PaidInv, ServerTypes
<1>2. row'[k] = s /\ \A j \in Keys \ {k} : row'[j] = row[j] BY DEF PaidInv, ServerTypes
<1>3. ASSUME NEW j \in Keys, MayCost(j)' PROVE MayCost(j)
  <2>1. Posted(j)' <=> Posted(j) BY DEF Posted, Active
  <2>2. CASE j # k BY <1>2, <1>3, <2>1, <2>2 DEF MayCost
  <2>3. CASE j = k BY <1>2, <1>3, <2>3 DEF MayCost
  <2> QED BY <2>2, <2>3
<1> QED BY <1>1, <1>3, ServerRests

LEMMA CallKeeps ==
  ASSUME OneChatTab, ReplyInv, PaidInv, NEW k \in Keys,
         Dispatch(k) \/ Execute(k) \/ CloseLater(k)
  PROVE  PaidInv'
<1>1. UNCHANGED <<disk, current, asker, orphans, known, overtaken>>
  BY DEF Dispatch, Execute, CloseLater
<1>2. row[k] \in {"started", "settled"} => MayCost(k) BY DEF MayCost
<1>3. row[k] = "held" /\ k \in working => MayCost(k) BY DEF MayCost
<1>4. row = [row EXCEPT ![k] = row[k]] BY DEF PaidInv, ServerTypes
<1>5. CASE Dispatch(k)
  <2>1. CASE row[k] = "held" /\ row' = [row EXCEPT ![k] = "started"] /\ UNCHANGED <<working, op>>
    BY <1>1, <1>3, <1>5, <2>1, RowMoves DEF Dispatch
  <2>2. CASE /\ row[k] = "held" /\ row' \in {row, [row EXCEPT ![k] = "released"]}
             /\ AnswerCall(k, {"refused", "vague"})
    <3>1. PICK s \in {"held", "released"} : row' = [row EXCEPT ![k] = s] BY <1>4, <2>2
    <3> QED BY <1>1, <1>5, <2>2, <3>1, AnswerKeeps DEF Dispatch
  <2>3. CASE row[k] = "released" /\ row' = row /\ AnswerCall(k, {"vague"})
    BY <1>1, <1>4, <1>5, <2>3, AnswerKeeps DEF Dispatch
  <2> QED BY <1>5, <2>1, <2>2, <2>3 DEF Dispatch
<1>6. CASE Execute(k)
  <2>1. k \in working /\ row[k] \in {"started", "settled"} BY <1>6 DEF Execute
  <2>2. CASE row' = [row EXCEPT ![k] = "settled"] /\ AnswerCall(k, {"output", "vague"})
    BY <1>1, <1>2, <2>1, <2>2, AnswerKeeps
  <2>3. CASE row' = [row EXCEPT ![k] = "released"] /\ AnswerCall(k, {"refused", "vague"})
    BY <1>1, <2>1, <2>3, AnswerKeeps
  <2>4. CASE row' = row /\ AnswerCall(k, {"vague"})
    <3>1. PICK s \in {"started", "settled"} : s = row[k] BY <2>1
    <3> QED BY <1>1, <1>2, <1>4, <2>1, <2>4, <3>1, AnswerKeeps
  <2> QED BY <1>6, <2>2, <2>3, <2>4 DEF Execute
<1>7. CASE CloseLater(k)
  <2>1. PICK s \in {"settled", "released"} :
          row' = [row EXCEPT ![k] = s] /\ (s = "settled" => row[k] = "started")
    BY <1>7 DEF CloseLater
  <2> QED BY <1>1, <1>2, <1>7, <2>1, RowMoves DEF CloseLater
<1> QED BY <1>5, <1>6, <1>7

\* A change of account, or a page that goes, leaves the device as it is.
LEMMA SigningRemembers ==
  ASSUME OneChatTab, ReplyInv, PaidInv, Signing PROVE PaidInv'
<1>1. /\ UNCHANGED <<disk, current, asker, server, known, overtaken>> /\ Drift
      /\ op' = [t \in ChatTabs |-> Heard(op[t], page'[t].user)]
  BY DEF Signing, AuthChange
<1>2. \A t \in ChatTabs : op'[t] = op[t] \/ op'[t] \in {NoOp, Void} BY <1>1 DEF Heard
<1>3. NoNewPost BY <1>2 DEF NoNewPost
<1>4. \A k \in Keys : MayCost(k)' => MayCost(k) BY <1>1, <1>3, DriftIsFree DEF PaidInv
<1>5. ServerTypes' BY <1>1, DriftTypes DEF PaidInv
<1>6. \A k \in Keys : MayCost(k)' => Remembered(k)' BY <1>1, <1>4, RestRemembers DEF PaidInv
<1>7. ASSUME NEW t \in ChatTabs PROVE KeyIsPending(t)' /\ RefusedIsFree(t)'
  <2>1. CASE op'[t] \in {NoOp, Void} BY <2>1 DEF KeyIsPending, RefusedIsFree, Active
  <2>2. CASE op'[t] = op[t] /\ Active(t)
    <3>1. op[t].stage = "answered" => op[t].key \in Keys BY <2>2 DEF ReplyInv, OpOk
    <3> QED BY <1>1, <1>4, <2>2, <3>1 DEF PaidInv, KeyIsPending, RefusedIsFree, Active
  <2> QED BY <1>2, <2>1, <2>2 DEF Active
<1> QED BY <1>5, <1>6, <1>7 DEF PaidInv

LEMMA ReloadRemembers ==
  ASSUME OneChatTab, ReplyInv, PaidInv, NEW t \in Tabs, Reload(t) PROVE PaidInv'
<1>1. UNCHANGED <<disk, asker, server, known, overtaken>> BY DEF Reload
<1>2. CASE t \in ChatTabs
  <2>1. op' = [op EXCEPT ![t] = NoOp] /\ Drift /\ current' = [current EXCEPT ![t] = NotLoaded]
    BY <1>2 DEF Reload
  <2>2. NoNewPost /\ op'[t] = NoOp BY <1>2, <2>1, OpIsNotPosted
  <2>3. \A k \in Keys : MayCost(k)' => MayCost(k)
    BY <1>1, <2>1, <2>2, DriftIsFree DEF PaidInv
  <2>4. ServerTypes' BY <1>1, <2>1, DriftTypes DEF PaidInv
  <2>5. ASSUME NEW k \in Keys, MayCost(k)' PROVE Remembered(k)'
    <3>1. Remembered(k) BY <2>3, <2>5 DEF PaidInv
    <3> QED BY <1>1, <1>2, <2>1, <3>1, DeviceRemembers
  <2>6. KeyIsPending(t)' /\ RefusedIsFree(t)'
    BY <2>2 DEF KeyIsPending, RefusedIsFree, Active
  <2> QED BY <1>2, <2>4, <2>5, <2>6, OneTabMoves
<1>3. CASE t \notin ChatTabs
  <2>1. UNCHANGED <<op, orphans, current>> BY <1>3 DEF Reload
  <2> QED BY <1>1, <2>1
      DEF PaidInv, ServerTypes, KeyIsPending, RefusedIsFree, MayCost, Posted, Remembered,
          Active, server
<1> QED BY <1>2, <1>3

LEMMA TransmitRemembers ==
  ASSUME OneChatTab, ReplyInv, PaidInv, NEW t \in ChatTabs, Transmit(t) PROVE PaidInv'
<1>1. CASE op[t].kind = "receipt" /\ disk' = disk BY <1>1, QuietKeeps
<1>2. CASE disk' = disk /\ op' = [op EXCEPT ![t] = NoOp] BY <1>2, QuietKeeps
<1>3. CASE /\ disk' = [disk EXCEPT ![op[t].owner] = Kept(current[t])]
           /\ op' = [op EXCEPT ![t].stage = "posted"]
  BY <1>3, PostKeeps
<1> QED BY <1>1, <1>2, <1>3 DEF Transmit

LEMMA PaidInitially == Init => PaidInv
<1> SUFFICES ASSUME Init PROVE PaidInv OBVIOUS
<1>1. \A t \in ChatTabs : ~Active(t) BY DEF Init, ChatInit, Active
<1>2. \A k \in Keys : row[k] = "none" /\ orphans[k] = 0 BY DEF Init, ChatInit
<1>3. \A k \in Keys : ~MayCost(k) BY <1>1, <1>2 DEF MayCost, Posted
<1>4. ServerTypes BY DEF Init, ChatInit, ServerTypes
<1> QED BY <1>1, <1>3, <1>4 DEF PaidInv, KeyIsPending, RefusedIsFree

LEMMA PaidStep ==
  ASSUME OneChatTab, AuthInv, ReplyInv, PaidInv, [Next]_vars PROVE PaidInv'
<1>1. CASE Signing BY <1>1, SigningRemembers
<1>2. ASSUME NEW t \in Tabs, Reload(t) PROVE PaidInv' BY <1>2, ReloadRemembers
<1>3. ASSUME NEW t \in ChatTabs, ChatStep(t) PROVE PaidInv'
  BY <1>3, QuietKeeps, StoringKeeps, TransmitRemembers, OutcomeRemembers, PostServedKeeps,
     ReceiptServedKeeps
  DEF ChatStep
<1>4. ASSUME NEW k \in Keys, ServeOrphan(k) PROVE PaidInv' BY <1>4, OrphanServedKeeps
<1>5. ASSUME NEW k \in Keys, Dispatch(k) \/ Execute(k) \/ CloseLater(k) PROVE PaidInv'
  BY <1>5, CallKeeps
<1>6. CASE UNCHANGED vars
  BY <1>6
  DEF vars, chatVars, PaidInv, ServerTypes, KeyIsPending, RefusedIsFree, MayCost, Posted,
      Remembered, Active, server
<1> QED BY <1>1, <1>2, <1>3, <1>4, <1>5, <1>6 DEF Next

\* A request that may cost money is never forgotten, with the chat open in one tab
\* (chat-core.js transmit saves the key before it posts, and only an outcome forgets it).
THEOREM PaidRemembered == ASSUME OneChatTab PROVE Spec => []PaidIsRemembered
<1>1. AuthInv /\ ReplyInv /\ PaidInv /\ [Next]_vars => PaidInv' BY PaidStep
<1>2. PaidInv => PaidIsRemembered
  <2>1. ASSUME NEW k \in Keys, row[k] \in {"started", "settled"}, PaidInv
        PROVE  k \in known \cup overtaken \/ disk[asker[k]].pending = k
    BY <2>1 DEF PaidInv, MayCost, Remembered
  <2> QED BY <2>1 DEF PaidIsRemembered
<1>3. Spec => [](AuthInv /\ ReplyInv)
  BY AuthInitially, AuthStepKeeps, ReplyInitially, ReplyStep, PTL DEF Spec
<1> QED BY <1>1, <1>2, <1>3, PaidInitially, PTL DEF Spec
=============================================================================
