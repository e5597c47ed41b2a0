------------------------------ MODULE AuthClient ------------------------------
(***************************************************************************)
(* The sign-in state of the browser's tabs (assets/js/auth.js).  A tab     *)
(* keeps who is signed in in memory only; the tabs share one refresh       *)
(* cookie, the BLOCKED entry of localStorage and its storage events.       *)
(* Every call remembers the epoch it began in; here it remembers whether   *)
(* the epoch has moved on since.  One user has one session in the browser. *)
(***************************************************************************)
EXTENDS Naturals, Sequences, FiniteSets

CONSTANTS
  Tabs, Users,
  Guest,      \* nobody is signed in
  NoCall,     \* no call of this kind is under way
  MaxTold     \* bound: storage events on their way to one tab

ASSUME GuestAssumption == Guest \notin Users
ASSUME ToldAssumption == MaxTold \in Nat \ {0}

VARIABLES
  open,      \* the tabs that are open
  page,      \* per tab: state.user, the sign-in and the refresh under way, localLogout
  blocked,   \* localStorage[BLOCKED]
  told,      \* per tab: storage events not yet handled
  cookie,    \* whose refresh cookie the browser holds
  alive,     \* users whose session is open at the server
  leaving    \* sign-out calls on their way, by the session they name

authVars == <<open, page, blocked, told, cookie, alive, leaving>>

NewPage == [user |-> Guest, signing |-> NoCall, refreshing |-> NoCall, halted |-> FALSE]

AuthInit ==
  /\ open = Tabs
  /\ page = [t \in Tabs |-> NewPage]
  /\ blocked = FALSE
  /\ told = [t \in Tabs |-> <<>>]
  /\ cookie \in Users \cup {Guest}
  /\ alive = {cookie} \ {Guest}
  /\ leaving = {}

Stale(call) == IF call = NoCall THEN NoCall ELSE [call EXCEPT !.fresh = FALSE]

\* epoch++ with the user forgotten: what began before it is out of date.
Cleared(p) ==
  [p EXCEPT !.user = Guest, !.signing = Stale(@), !.refreshing = Stale(@)]

\* blocked()
Blocked(t) == blocked \/ page[t].halted

\* A change of localStorage is an event in every other open tab.
Tell(t, event) ==
  /\ \A o \in open \ {t} : Len(told[o]) < MaxTold
  /\ told' = [o \in Tabs |-> IF o \in open \ {t} THEN Append(told[o], event) ELSE told[o]]

-----------------------------------------------------------------------------
(* authOperation: sign-in, registration and the second factor *)

BeginSignIn(t, u) ==
  /\ page[t].signing = NoCall
  /\ page' = [page EXCEPT ![t] =
       [Cleared(@) EXCEPT !.signing = [user |-> u, fresh |-> TRUE]]]
  /\ UNCHANGED <<open, blocked, told, cookie, alive, leaving>>

\* The answer opens a session and sets the cookie, whatever the page does with it.
SignedIn(t) ==
  /\ page[t].signing # NoCall /\ page[t].signing.fresh
  /\ LET u == page[t].signing.user IN
     /\ page' = [page EXCEPT ![t] = [@ EXCEPT !.user = u, !.signing = NoCall, !.halted = FALSE]]
     /\ cookie' = u
     /\ alive' = alive \cup {u}
  /\ blocked' = FALSE
  /\ UNCHANGED <<open, leaving>>
  /\ IF blocked THEN Tell(t, "unblocked") ELSE UNCHANGED told

\* Cancelled meanwhile: the page signs the new session out again.
SignInTooLate(t) ==
  /\ page[t].signing # NoCall /\ ~page[t].signing.fresh
  /\ LET u == page[t].signing.user IN
     /\ cookie' = u
     /\ alive' = alive \cup {u}
     /\ leaving' = leaving \cup {u}
  /\ page' = [page EXCEPT ![t].signing = NoCall]
  /\ UNCHANGED <<open, blocked, told>>

SignInFails(t) ==
  /\ page[t].signing # NoCall
  /\ page' = [page EXCEPT ![t].signing = NoCall]
  /\ UNCHANGED <<open, blocked, told, cookie, alive, leaving>>

-----------------------------------------------------------------------------
(* refresh, from restore or getAccessToken *)

BeginRefresh(t) ==
  /\ ~Blocked(t) /\ page[t].signing = NoCall /\ page[t].refreshing = NoCall
  /\ page' = [page EXCEPT ![t].refreshing =
       [stage |-> "waiting", user |-> Guest, fresh |-> TRUE]]
  /\ UNCHANGED <<open, blocked, told, cookie, alive, leaving>>

\* navigator.locks lets one tab at a time call; the cookie goes with the call.
CallRefresh(t) ==
  /\ page[t].refreshing # NoCall /\ page[t].refreshing.stage = "waiting"
  /\ \A o \in Tabs : page[o].refreshing # NoCall => page[o].refreshing.stage = "waiting"
  /\ page' = [page EXCEPT ![t].refreshing = [@ EXCEPT !.stage = "called", !.user = cookie]]
  /\ UNCHANGED <<open, blocked, told, cookie, alive, leaving>>

\* What the server answers to the cookie of u: a new one, or a refusal.
ServedTo(u) == IF u \in alive THEN u ELSE Guest

RefreshServed(t) ==
  /\ page[t].refreshing # NoCall /\ page[t].refreshing.stage = "called"
  /\ LET u == ServedTo(page[t].refreshing.user) IN
     page' = [page EXCEPT ![t].refreshing = [@ EXCEPT !.stage = "served", !.user = u]]
  /\ UNCHANGED <<open, blocked, told, cookie, alive, leaving>>

\* Seeded fault of accept: the answer counts in any epoch.
AcceptsLate(p, u) == [p EXCEPT !.user = u]

\* accept, only in the epoch the refresh began in
Accepted(p, u) == IF p.refreshing.fresh THEN [p EXCEPT !.user = u] ELSE p

\* The new cookie is set even when the page drops the answer.
Refreshed(t) ==
  /\ page[t].refreshing # NoCall /\ page[t].refreshing.stage = "served"
  /\ page[t].refreshing.user # Guest
  /\ page' = [page EXCEPT ![t] =
       [Accepted(@, @.refreshing.user) EXCEPT !.refreshing = NoCall]]
  /\ cookie' = page[t].refreshing.user
  /\ UNCHANGED <<open, blocked, told, alive, leaving>>

\* UNAUTHORIZED, SESSION_EXPIRED or SESSION_CONTEXT_MISMATCH
RefreshRefused(t) ==
  /\ page[t].refreshing # NoCall /\ page[t].refreshing.stage = "served"
  /\ page[t].refreshing.user = Guest
  /\ page' = [page EXCEPT ![t] =
       [(IF @.refreshing.fresh THEN Cleared(@) ELSE @) EXCEPT !.refreshing = NoCall]]
  /\ UNCHANGED <<open, blocked, told, cookie, alive, leaving>>

\* Network error or SESSION_REFRESH_BUSY: nothing is concluded.
RefreshFails(t) ==
  /\ page[t].refreshing # NoCall
  /\ page' = [page EXCEPT ![t].refreshing = NoCall]
  /\ UNCHANGED <<open, blocked, told, cookie, alive, leaving>>

-----------------------------------------------------------------------------
(* The end of a sign-in *)

\* The page forgets at once and then calls the server, with its token or the cookie.
SignOut(t) ==
  /\ page' = [page EXCEPT ![t] = [Cleared(@) EXCEPT !.halted = TRUE]]
  /\ blocked' = TRUE
  /\ Tell(t, "logout")
  /\ leaving' = (leaving \cup {IF page[t].user # Guest THEN page[t].user ELSE cookie}) \ {Guest}
  /\ UNCHANGED <<open, cookie, alive>>

\* The server revokes the session the call names, which may no longer be the user's
\* present one, and its answer empties the cookie, whosever it is by then.
SignOutServed(u) ==
  /\ u \in leaving
  /\ leaving' = leaving \ {u}
  /\ alive' \in {alive, alive \ {u}}
  /\ cookie' = Guest
  /\ UNCHANGED <<open, page, blocked, told>>

SignOutLost(u) ==
  /\ u \in leaving
  /\ leaving' = leaving \ {u}
  /\ UNCHANGED <<open, page, blocked, told, cookie, alive>>

\* window.addEventListener('storage', ...)
Hear(t) ==
  /\ told[t] # <<>>
  /\ told' = [told EXCEPT ![t] = Tail(@)]
  /\ page' = [page EXCEPT ![t] =
       IF Head(told[t]) = "logout"
       THEN [Cleared(@) EXCEPT !.halted = TRUE]
       ELSE [@ EXCEPT !.halted = FALSE]]
  /\ UNCHANGED <<open, blocked, cookie, alive, leaving>>

\* The session expires, or is revoked from another device.
SessionEnds(u) ==
  /\ u \in alive
  /\ alive' = alive \ {u}
  /\ UNCHANGED <<open, page, blocked, told, cookie, leaving>>

\* A protected call of this epoch is answered UNAUTHORIZED or SESSION_EXPIRED.
CallRefused(t) ==
  /\ page[t].user \notin alive \cup {Guest}
  /\ page' = [page EXCEPT ![t] = Cleared(@)]
  /\ UNCHANGED <<open, blocked, told, cookie, alive, leaving>>

\* The tab is loaded anew, or closed: what the page held in memory is gone.
LoadPage(t) ==
  /\ open' \in {open \cup {t}, open \ {t}}
  /\ page' = [page EXCEPT ![t] = NewPage]
  /\ told' = [told EXCEPT ![t] = <<>>]
  /\ UNCHANGED <<blocked, cookie, alive, leaving>>

\* What the server and the network do of themselves
AccountStep == \E u \in Users : SignOutServed(u) \/ SignOutLost(u) \/ SessionEnds(u)

AuthStep(t) ==
  /\ t \in open
  /\ \/ \E u \in Users : BeginSignIn(t, u)
     \/ SignedIn(t) \/ SignInTooLate(t) \/ SignInFails(t)
     \/ BeginRefresh(t) \/ CallRefresh(t) \/ RefreshServed(t)
     \/ Refreshed(t) \/ RefreshRefused(t) \/ RefreshFails(t)
     \/ SignOut(t) \/ Hear(t) \/ CallRefused(t)

-----------------------------------------------------------------------------
\* A sign-out in one tab ends the sign-in of the browser: a tab that has heard of it
\* shows nobody until somebody signs in again, whatever answers of refreshes and
\* sign-ins begun before still arrive.
SignedOutStaysOut ==
  \A t \in Tabs :
    blocked /\ (\A i \in DOMAIN told[t] : told[t][i] # "logout") => page[t].user = Guest
=============================================================================
