--------------------------- MODULE AccountSecurity ---------------------------
(***************************************************************************)
(* Second-factor challenges (backend/account-mfa.mjs) together with the    *)
(* sessions they act on: a challenge that is answered begins a session,    *)
(* renews the proof of identity of one, or ends them all when a factor is  *)
(* enrolled.                                                               *)
(***************************************************************************)
EXTENDS AccountSessions

CONSTANTS
  Challenges, Submissions,
  ChallengeOf,  \* the challenge a submitted code answers
  ActorOf,      \* the session that asked for a challenge, unless it is for signing in
  EntryOf,      \* the session a submission begins if it signs in
  Kinds,
  MaxAttempts   \* codes tried for one challenge (five, in the code)

ASSUME ChallengesAssumption ==
  /\ IsFiniteSet(Submissions)
  /\ ChallengeOf \in [Submissions -> Challenges]
  /\ ActorOf \in [Challenges -> Sessions]
  /\ EntryOf \in [Submissions -> Sessions]
  /\ Kinds \subseteq {"mfa_signin", "reauth_mfa", "mfa_enroll"}
  /\ MaxAttempts \in Nat

VARIABLES
  challenge,  \* rows of account_challenges; gone: consumed or deleted
  kind,
  attempts,
  submit      \* finishMfa's and finishEnrollment's calls

rows == <<challenge, kind, attempts>>
vars == <<sessionVars, rows, submit>>

-----------------------------------------------------------------------------
(* saveChallenge *)

Inserted(c) == challenge[c] \notin {"absent", "opening"}

\* The older challenges of the operation are superseded in a write of its own.
Open(c, k) ==
  /\ challenge[c] = "absent"
  /\ k # "mfa_signin" => session[ActorOf[c]] # "absent"
  /\ challenge' = [e \in Challenges |->
       IF e = c THEN "opening"
       ELSE IF k # "mfa_signin" /\ challenge[e] = "live" /\ kind[e] = k
            THEN "gone" ELSE challenge[e]]
  /\ kind' = [kind EXCEPT ![c] = k]
  /\ UNCHANGED <<sessionVars, attempts, submit>>

InsertChallenge(c) ==
  /\ challenge[c] = "opening"
  /\ challenge' = [challenge EXCEPT ![c] = "live"]
  /\ UNCHANGED <<sessionVars, kind, attempts, submit>>

-----------------------------------------------------------------------------
(* finishMfa and finishEnrollment *)

Does(m, pc) == submit' = [submit EXCEPT ![m] = pc]

\* Seeded fault: the attempts are counted and never compared.
Untallied(c) == challenge[c] = "live"

Attemptable(c) == challenge[c] = "live" /\ attempts[c] < MaxAttempts

Attempt(m, ack) ==
  LET c == ChallengeOf[m] IN
  /\ submit[m] = "idle" /\ Inserted(c)
  /\ attempts' = IF Attemptable(c) /\ Written(ack) THEN [attempts EXCEPT ![c] = @ + 1] ELSE attempts
  /\ Does(m, CASE ~Confirmed(Attemptable(c), ack) -> "invalid"
               [] Confirmed(Attemptable(c), ack) ->
                    IF attempts[c] + 1 >= MaxAttempts THEN "verifying_last" ELSE "verifying")
  /\ UNCHANGED <<sessionVars, challenge, kind>>

\* The identity provider takes the code, or rejects it, or cannot be reached.
Verify(m) ==
  /\ \/ submit[m] \in {"verifying", "verifying_last"} /\ (Does(m, "redeeming") \/ Does(m, "denied"))
     \/ submit[m] = "verifying_last" /\ Does(m, "exhausting")
  /\ UNCHANGED <<sessionVars, rows>>

\* Seeded fault: the challenge is not looked at again once its code was verified.
Unexamined(c) == TRUE

\* The row is there and not consumed; whether it has lapsed meanwhile is not asked.
Redeemable(c) == challenge[c] \in {"live", "lapsed"}

Exhaust(m, ack) ==
  LET c == ChallengeOf[m] IN
  /\ submit[m] = "exhausting"
  /\ challenge' = [challenge EXCEPT ![c] = IF Redeemable(c) /\ Written(ack) THEN "gone" ELSE @]
  /\ Does(m, "denied")
  /\ UNCHANGED <<sessionVars, kind, attempts>>

Redeem(m, ack) ==
  LET c == ChallengeOf[m] IN
  /\ submit[m] = "redeeming"
  /\ challenge' = IF Redeemable(c) /\ Written(ack) THEN [challenge EXCEPT ![c] = "gone"]
                  ELSE challenge
  /\ Does(m, IF Confirmed(Redeemable(c), ack) THEN "entering" ELSE "denied")
  /\ UNCHANGED <<sessionVars, kind, attempts>>

\* The statement that a passed challenge was for may fail like any other.
Fails(m) ==
  /\ submit[m] = "entering" /\ Does(m, "over")
  /\ UNCHANGED <<sessionVars, rows>>

EnterSession(m) ==
  /\ submit[m] = "entering" /\ kind[ChallengeOf[m]] = "mfa_signin"
  /\ SignIn(EntryOf[m])
  /\ Does(m, "over")
  /\ UNCHANGED <<rows>>

\* Seeded fault: new credentials are stored whatever has become of the session.
Anyhow(s) == TRUE

Renewable(s) == session[s] = "live"

\* updateReauth.
Reauthenticate(m) ==
  LET s == ActorOf[ChallengeOf[m]] IN
  /\ submit[m] = "entering" /\ kind[ChallengeOf[m]] = "reauth_mfa"
  /\ holds' = IF Renewable(s) THEN [holds EXCEPT ![s] = TRUE] ELSE holds
  /\ Does(m, "over")
  /\ UNCHANGED <<session, locks, age, tokens, calls, rows>>

\* Once a factor is enrolled, every session signs in again.
Enroll(m) ==
  /\ submit[m] = "entering" /\ kind[ChallengeOf[m]] = "mfa_enroll"
  /\ Ends(Sessions)
  /\ Does(m, "over")
  /\ UNCHANGED <<locks, age, tokens, calls, rows>>

-----------------------------------------------------------------------------
Lapse(c) ==
  /\ challenge[c] = "live"
  /\ challenge' = [challenge EXCEPT ![c] = "lapsed"]
  /\ UNCHANGED <<sessionVars, kind, attempts, submit>>

\* cleanupAccounts.
CleanChallenge(c) ==
  /\ challenge[c] = "lapsed"
  /\ challenge' = [challenge EXCEPT ![c] = "gone"]
  /\ UNCHANGED <<sessionVars, kind, attempts, submit>>

Init ==
  /\ SessionInit
  /\ challenge = [c \in Challenges |-> "absent"]
  /\ kind = [c \in Challenges |-> "mfa_signin"]
  /\ attempts = [c \in Challenges |-> 0]
  /\ submit = [m \in Submissions |-> "idle"]

ChallengeStep(c) ==
  InsertChallenge(c) \/ Lapse(c) \/ CleanChallenge(c) \/ \E k \in Kinds : Open(c, k)

SubmissionStep(m) ==
  \/ Verify(m) \/ EnterSession(m) \/ Reauthenticate(m) \/ Enroll(m) \/ Fails(m)
  \/ \E ack \in Acks : Attempt(m, ack) \/ Exhaust(m, ack) \/ Redeem(m, ack)

Next ==
  \/ SessionNext /\ UNCHANGED <<rows, submit>>
  \/ \E c \in Challenges : ChallengeStep(c)
  \/ \E m \in Submissions : SubmissionStep(m)

Spec == Init /\ [][Next]_vars

-----------------------------------------------------------------------------
(* Properties *)

SubmissionSteps == {"idle", "invalid", "verifying", "verifying_last", "exhausting", "redeeming", "denied",
                    "entering", "over"}

TypeOK ==
  /\ SessionTypeOK
  /\ challenge \in [Challenges -> {"absent", "opening", "live", "lapsed", "gone"}]
  /\ kind \in [Challenges -> {"mfa_signin", "reauth_mfa", "mfa_enroll"}]
  /\ attempts \in [Challenges -> 0 .. MaxAttempts]
  /\ submit \in [Submissions -> SubmissionSteps]

Tried(c) == {m \in Submissions : ChallengeOf[m] = c /\ submit[m] \notin {"idle", "invalid"}}
Passed(c) == {m \in Submissions : ChallengeOf[m] = c /\ submit[m] \in {"entering", "over"}}

\* Codes submitted at the same time share the attempts of their challenge, and only one
\* of them passes, however many the identity provider accepted.
ChallengeSpentOnce ==
  \A c \in Challenges :
    /\ Cardinality(Tried(c)) <= MaxAttempts
    /\ \A m, n \in Passed(c) : m = n
==============================================================================
