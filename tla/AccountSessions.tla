--------------------------- MODULE AccountSessions ---------------------------
(***************************************************************************)
(* The sessions of one account (backend/account-sessions.mjs): sign-in     *)
(* under a cap, the rotation of refresh tokens with its lock and its grace *)
(* period, revocation and clean-up.  No statement touches a session of     *)
(* another account.                                                        *)
(*                                                                         *)
(* The refresh tokens of a session are numbered as they are issued.  Every *)
(* await of a refresh is a step boundary, a write may be refused or lose   *)
(* its acknowledgement, and a call that died takes no more steps.          *)
(***************************************************************************)
EXTENDS FiniteSets, Integers

CONSTANTS
  Sessions, Refreshes,
  NoCall,
  SessionOf, SerialOf,  \* the token a refresh presents
  Acks,                 \* outcomes of a database write
  MaxSessions           \* live sessions of an account (twenty, in the code)

ASSUME SessionsAssumption ==
  /\ IsFiniteSet(Sessions)
  /\ SessionOf \in [Refreshes -> Sessions]
  /\ SerialOf \in [Refreshes -> Nat \ {0}]
  /\ NoCall \notin Refreshes
  /\ Acks \subseteq {"done", "lost", "failed"}
  /\ MaxSessions \in Nat \ {0}

VARIABLES
  session,  \* revoked_at and revoke_reason of account_sessions
  holds,    \* credentials_cipher is there
  lock,     \* refresh_lock
  overdue,  \* the lock was taken more than two minutes ago
  age,      \* idle_expires_at or expires_at has passed
  issued, spent,  \* account_refresh_tokens, and those with consumed_at
  past,     \* consumed more than ten seconds ago
  refresh,  \* refreshSession's calls
  granted   \* the tokens a call is about to hand out were inserted

locks == <<lock, overdue>>
tokens == <<issued, spent, past>>
calls == <<refresh, granted>>
sessionVars == <<session, holds, locks, age, tokens, calls>>

-----------------------------------------------------------------------------
Live == {s \in Sessions : session[s] = "live"}
Tokens(s) == 1 .. issued[s]

Written(ack) == ack # "failed"
Confirmed(matched, ack) == matched /\ ack = "done"

ClearsCredentials(ended) == holds' = [s \in Sessions |-> holds[s] /\ s \notin ended]

\* revoke and revokeAll; the lock of a session that ended is never read.
Ends(ended) ==
  /\ session' = [s \in Sessions |-> IF s \in ended \cap Live THEN "revoked" ELSE session[s]]
  /\ ClearsCredentials(ended \cap Live)

-----------------------------------------------------------------------------
(* issueSession *)

\* Seeded fault: off by one, the session being added is not counted.
Surplus(drop) == Cardinality(Live \ drop) <= MaxSessions

\* Of the sessions already there, all but the newest are dropped to make room.
\* Their order is that of created_at, which every call reads before its batch.
MakesRoom(drop) ==
  Cardinality(Live \ drop) = IF Cardinality(Live) < MaxSessions
                             THEN Cardinality(Live) ELSE MaxSessions - 1

SignIn(s) ==
  /\ session[s] = "absent"
  /\ \E drop \in SUBSET Live :
       /\ MakesRoom(drop)
       /\ session' = [e \in Sessions |->
            IF e = s THEN "live" ELSE IF e \in drop THEN "revoked" ELSE session[e]]
       /\ holds' = [e \in Sessions |-> e = s \/ (holds[e] /\ e \notin drop)]
  /\ issued' = [issued EXCEPT ![s] = 1]
  /\ UNCHANGED <<locks, age, spent, past, calls>>

-----------------------------------------------------------------------------
(* refreshSession *)

At(r, pc) == refresh[r] = pc
Goes(r, pc) == refresh' = [refresh EXCEPT ![r] = pc]

\* The session and the token are read once; a token still being exchanged, or exchanged
\* a moment ago, is told to wait, and one presented again later ends its session.
Present(r) ==
  LET s == SessionOf[r]  k == SerialOf[r] IN
  /\ At(r, "idle") /\ k \in Tokens(s)
  /\ Goes(r, CASE session[s] # "live" -> "ended"
               [] session[s] = "live" /\ age[s] # "fresh" -> "refused"
               [] session[s] = "live" /\ age[s] = "fresh" ->
                    IF lock[s] # NoCall /\ overdue[s] THEN "revoking"
                    ELSE IF k \notin spent[s] THEN "claiming"
                    ELSE IF k \in past[s] THEN "revoking" ELSE "refused")
  /\ UNCHANGED <<session, holds, locks, age, tokens, granted>>

\* Seeded fault: the claim relies on the token as it was read.
UnlockedLive(r) == session[SessionOf[r]] = "live" /\ lock[SessionOf[r]] = NoCall

Claimable(r) ==
  /\ session[SessionOf[r]] = "live" /\ lock[SessionOf[r]] = NoCall
  /\ SerialOf[r] \notin spent[SessionOf[r]]

\* refresh_started_at is the time the call began, which may be long ago.
Claim(r, ack) ==
  LET s == SessionOf[r] IN
  /\ At(r, "claiming")
  /\ IF Claimable(r) /\ Written(ack)
     THEN /\ lock' = [lock EXCEPT ![s] = r]
          /\ \E late \in BOOLEAN : overdue' = [overdue EXCEPT ![s] = late]
     ELSE UNCHANGED locks
  /\ Goes(r, CASE Confirmed(Claimable(r), ack) -> "consuming"
               [] OTHER -> "refused")
  /\ UNCHANGED <<session, holds, age, tokens, granted>>

\* Seeded fault: what fails after the claim is answered as expired and nothing more.
JustAnswers == "ended"

\* refreshSession's catch.
OnError == "revoking"

Consume(r, ack) ==
  LET s == SessionOf[r] IN
  /\ At(r, "consuming")
  /\ spent' = IF Written(ack) THEN [spent EXCEPT ![s] = @ \cup {SerialOf[r]}] ELSE spent
  /\ Goes(r, IF ack = "done" THEN "exchanging" ELSE OnError)
  /\ UNCHANGED <<session, holds, locks, age, issued, past, granted>>

\* The identity provider renews the credentials, and they are verified; or not.
Exchange(r) ==
  /\ At(r, "exchanging")
  /\ Goes(r, "committing") \/ Goes(r, OnError)
  /\ UNCHANGED <<session, holds, locks, age, tokens, granted>>

\* The batch: release the lock if it is still this call's, and if then the session
\* is live and unlocked, insert the next refresh token and its access token.
Commit(r, ack) ==
  LET s == SessionOf[r]
      mine == session[s] = "live" /\ lock[s] = r
      inserts == session[s] = "live" /\ (mine \/ lock[s] = NoCall) IN
  /\ At(r, "committing")
  /\ lock' = IF mine /\ Written(ack) THEN [lock EXCEPT ![s] = NoCall] ELSE lock
  /\ overdue' = IF mine /\ Written(ack) THEN [overdue EXCEPT ![s] = FALSE] ELSE overdue
  /\ holds' = IF mine /\ Written(ack) THEN [holds EXCEPT ![s] = TRUE] ELSE holds
  /\ age' = IF mine /\ Written(ack)
            THEN [age EXCEPT ![s] = IF @ = "idle" THEN "fresh" ELSE @] ELSE age
  /\ issued' = IF inserts /\ Written(ack) THEN [issued EXCEPT ![s] = @ + 1] ELSE issued
  /\ granted' = [granted EXCEPT ![r] = inserts /\ ack = "done"]
  /\ Goes(r, IF ack = "done" THEN "checking" ELSE OnError)
  /\ UNCHANGED <<session, spent, past>>

\* The access token is looked up, and the profile is read for the answer.
Check(r) ==
  /\ At(r, "checking")
  /\ (granted[r] /\ Goes(r, "answered")) \/ Goes(r, OnError)
  /\ granted' = [granted EXCEPT ![r] = FALSE]
  /\ UNCHANGED <<session, holds, locks, age, tokens>>

GiveUp(r, ack) ==
  /\ At(r, "revoking")
  /\ Ends(IF Written(ack) THEN {SessionOf[r]} ELSE {})
  /\ Goes(r, IF ack = "done" THEN "ended" ELSE "refused")
  /\ UNCHANGED <<locks, age, tokens, granted>>

-----------------------------------------------------------------------------
(* Revocation, clean-up and time *)

\* A sign-out, a session ended from another device, an identity no longer valid.
Revoke(s) ==
  /\ s \in Live
  /\ Ends({s})
  /\ UNCHANGED <<locks, age, tokens, calls>>

\* All sessions, for a changed password; or all but the caller's.
RevokeAll(keep) ==
  /\ Live \ keep # {}
  /\ Ends(Sessions \ keep)
  /\ UNCHANGED <<locks, age, tokens, calls>>

\* cleanupAccounts, a bounded number at a time.
CleanSessions(ended) ==
  /\ ended # {} /\ \A s \in ended : s \in Live /\ age[s] # "fresh"
  /\ Ends(ended)
  /\ UNCHANGED <<locks, age, tokens, calls>>

Expire(s, to) ==
  /\ s \in Live /\ age[s] # to /\ age[s] # "over"
  /\ age' = [age EXCEPT ![s] = to]
  /\ UNCHANGED <<session, holds, locks, tokens, calls>>

OutlastLock(s) ==
  /\ s \in Live /\ lock[s] # NoCall /\ ~overdue[s]
  /\ overdue' = [overdue EXCEPT ![s] = TRUE]
  /\ UNCHANGED <<session, holds, lock, age, tokens, calls>>

OutlastGrace(s, k) ==
  /\ s \in Live /\ k \in spent[s] \ past[s]
  /\ past' = [past EXCEPT ![s] = @ \cup {k}]
  /\ UNCHANGED <<session, holds, locks, age, issued, spent, calls>>

-----------------------------------------------------------------------------
SessionInit ==
  /\ session = [s \in Sessions |-> "absent"]
  /\ holds = [s \in Sessions |-> FALSE]
  /\ lock = [s \in Sessions |-> NoCall]
  /\ overdue = [s \in Sessions |-> FALSE]
  /\ age = [s \in Sessions |-> "fresh"]
  /\ issued = [s \in Sessions |-> 0]
  /\ spent = [s \in Sessions |-> {}]
  /\ past = [s \in Sessions |-> {}]
  /\ refresh = [r \in Refreshes |-> "idle"]
  /\ granted = [r \in Refreshes |-> FALSE]

RefreshStep(r) ==
  \/ Present(r) \/ Exchange(r) \/ Check(r)
  \/ \E ack \in Acks : Claim(r, ack) \/ Consume(r, ack) \/ Commit(r, ack) \/ GiveUp(r, ack)

Revocation ==
  \/ \E s \in Sessions : Revoke(s) \/ RevokeAll({s})
  \/ RevokeAll({})
  \/ \E ended \in SUBSET Sessions : CleanSessions(ended)

TimePasses(s) ==
  \/ OutlastLock(s) \/ \E to \in {"idle", "over"} : Expire(s, to)
  \/ \E k \in spent[s] : OutlastGrace(s, k)

SessionNext ==
  \/ \E s \in Sessions : SignIn(s) \/ TimePasses(s)
  \/ \E r \in Refreshes : RefreshStep(r)
  \/ Revocation

-----------------------------------------------------------------------------
(* Properties *)

RefreshSteps == {"idle", "claiming", "consuming", "exchanging", "committing", "checking",
                 "revoking", "answered", "refused", "ended"}

SessionTypeOK ==
  /\ session \in [Sessions -> {"absent", "live", "revoked"}]
  /\ holds \in [Sessions -> BOOLEAN]
  /\ lock \in [Sessions -> Refreshes \cup {NoCall}]
  /\ overdue \in [Sessions -> BOOLEAN]
  /\ age \in [Sessions -> {"fresh", "idle", "over"}]
  /\ issued \in [Sessions -> Nat]
  /\ spent \in [Sessions -> SUBSET Nat] /\ \A s \in Sessions : spent[s] \subseteq Tokens(s)
  /\ past \in [Sessions -> SUBSET Nat]
  /\ refresh \in [Refreshes -> RefreshSteps]
  /\ granted \in [Refreshes -> BOOLEAN]

\* Sign-ins, however many arrive together, never leave an account with more live
\* sessions than the cap.
SessionsBounded == Cardinality(Live) <= MaxSessions

\* Whatever writes credentials last, a refresh or a new proof of identity, a session
\* that was revoked meanwhile keeps none.
RevokedHoldsNothing == \A s \in Sessions : holds[s] => session[s] = "live"

\* A device that is told its session expired because a refresh failed or a token was
\* reused can rely on it: the session has been revoked, and nobody else keeps it.
ExpiryIsTrue ==
  \A r \in Refreshes : refresh[r] = "ended" => session[SessionOf[r]] = "revoked"

StateOf(s) ==
  CASE session[s] = "absent" -> "none"
    [] session[s] = "live" -> IF Tokens(s) \subseteq spent[s] THEN "spent" ELSE "ready"
    [] session[s] = "revoked" -> "ended"

Chain == INSTANCE TokenChain WITH
  state <- [s \in Sessions |-> StateOf(s)], length <- issued

\* Racing refreshes, lost acknowledgements and late commits never fork a session: its
\* tokens stay one chain, each exchanged once, and none is issued after a revocation.
ImplementsTokenChain == Chain!ChainSpec
==============================================================================
