-------------------------- MODULE MCAccountSecurity --------------------------
(***************************************************************************)
(* Values for model checking AccountSecurity: a session whose first token  *)
(* is presented twice, and its successor once; a challenge answered by     *)
(* three codes, which may begin another session, and a second challenge.   *)
(***************************************************************************)
EXTENDS AccountSecurity, TLC

CONSTANTS s1, s2, r1, r2, r3, c1, c2, m1, m2, m3

AllAcks == {"done", "lost", "failed"}
FirstSession == [r \in Refreshes |-> s1]
Serials == [r \in Refreshes |-> IF r = r3 THEN 2 ELSE 1]
AnswersFirst == [m \in Submissions |-> c1]
AskedByFirst == [c \in Challenges |-> s1]
EntersSecond == [m \in Submissions |-> s2]
AllKinds == {"mfa_signin", "reauth_mfa", "mfa_enroll"}

\* At most this many refreshes and submissions at once; a second rotation only without a
\* challenge; a third code, or else a second challenge that supersedes the first, only
\* without a refresh.
MaxInFlight == 2
FewCalls ==
  LET refreshes == {r \in Refreshes : refresh[r] # "idle"}
      submissions == {m \in Submissions : submit[m] # "idle"} IN
  /\ Cardinality({r \in refreshes : refresh[r] \notin {"answered", "refused", "ended"}})
       + Cardinality({m \in submissions : submit[m] \notin {"invalid", "denied", "over"}})
       <= MaxInFlight
  /\ r3 \in refreshes => challenge[c1] = "absent"
  /\ submissions = Submissions \/ challenge[c2] # "absent" => refreshes = {}
  /\ submissions = Submissions => challenge[c2] = "absent"

Interchangeable == Permutations({r1, r2}) \cup Permutations(Submissions)
==============================================================================
