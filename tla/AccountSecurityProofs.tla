------------------------ MODULE AccountSecurityProofs ------------------------
(***************************************************************************)
(* Proofs about AccountSecurity for any number of sessions, refreshes,     *)
(* challenges and submitted codes, and any caps.  What the sessions do is  *)
(* proved first (SessionInv, the lemmas named for the actions), then what  *)
(* the challenges do with them.                                            *)
(***************************************************************************)
EXTENDS AccountSecurity, FiniteSetTheorems, TLAPS

Holding == {"consuming", "exchanging", "committing"}

\* The tokens of a live session are spent in their order, all or all but the last.
SessionRecords(s) ==
  /\ session[s] = "absent" => issued[s] = 0
  /\ session[s] # "absent" => issued[s] >= 1
  /\ session[s] = "live" => spent[s] = 1 .. issued[s] \/ spent[s] = 1 .. (issued[s] - 1)
  /\ holds[s] => session[s] = "live"

\* A refresh past its claim has the lock as long as its session lives, and the token it
\* presented is the last one issued.
RefreshRecords(r) ==
  /\ refresh[r] # "idle" => issued[SessionOf[r]] >= 1 /\ SerialOf[r] <= issued[SessionOf[r]]
  /\ refresh[r] = "ended" => session[SessionOf[r]] = "revoked"
  /\ session[SessionOf[r]] = "live" /\ refresh[r] \in Holding =>
       /\ lock[SessionOf[r]] = r /\ SerialOf[r] = issued[SessionOf[r]]
       /\ refresh[r] = "consuming" => SerialOf[r] \notin spent[SessionOf[r]]
       /\ refresh[r] # "consuming" => SerialOf[r] \in spent[SessionOf[r]]

SessionInv ==
  /\ SessionTypeOK
  /\ \A s \in Sessions : SessionRecords(s)
  /\ \A r \in Refreshes : RefreshRecords(r)
  /\ SessionsBounded

\* A challenge somebody passed is gone, and every code tried was counted.
ChallengeRecords(c) ==
  /\ Passed(c) # {} => challenge[c] = "gone"
  /\ \A m, n \in Passed(c) : m = n
  /\ Cardinality(Tried(c)) <= attempts[c]

IInv == TypeOK /\ SessionInv /\ \A c \in Challenges : ChallengeRecords(c)

-----------------------------------------------------------------------------
(* Sessions *)

\* The cap bounds the live sessions also when some of them end.
LEMMA FewerLive ==
  ASSUME SessionsBounded, NEW L, L \subseteq Live
  PROVE  IsFiniteSet(L) /\ Cardinality(L) <= MaxSessions
<1>1. IsFiniteSet(Live) BY SessionsAssumption, FS_Subset DEF Live
<1>2. IsFiniteSet(L) /\ Cardinality(L) <= Cardinality(Live) BY <1>1, FS_Subset
<1>3. Cardinality(L) \in Nat /\ Cardinality(Live) \in Nat BY <1>1, <1>2, FS_CardinalityType
<1> QED BY <1>2, <1>3, SessionsAssumption DEF SessionsBounded

\* Steps of time, and of anything but sessions, leave what the invariant says of sessions.
LEMMA QuietKeeps ==
  ASSUME SessionInv, UNCHANGED <<session, holds, lock, issued, spent, calls>>,
         overdue' \in [Sessions -> BOOLEAN], age' \in [Sessions -> {"fresh", "idle", "over"}],
         past' \in [Sessions -> SUBSET Nat]
  PROVE  SessionInv'
<1>1. SessionTypeOK' BY DEF SessionInv, SessionTypeOK, Tokens, calls
<1>2. \A s \in Sessions : SessionRecords(s)' BY DEF SessionInv, SessionRecords
<1>3. \A r \in Refreshes : RefreshRecords(r)' BY DEF SessionInv, RefreshRecords, calls
<1>4. SessionsBounded' BY DEF SessionInv, SessionsBounded, Live
<1> QED BY <1>1, <1>2, <1>3, <1>4 DEF SessionInv

\* A refresh that neither claims nor writes to its session.
LEMMA WalkKeeps ==
  ASSUME SessionInv, NEW r \in Refreshes, NEW pc \in RefreshSteps \ {"idle"},
         UNCHANGED <<session, holds, lock, issued, spent>>,
         overdue' \in [Sessions -> BOOLEAN], age' = age, past' = past,
         granted' \in [Refreshes -> BOOLEAN], Goes(r, pc),
         issued[SessionOf[r]] >= 1 /\ SerialOf[r] <= issued[SessionOf[r]],
         pc = "ended" => session[SessionOf[r]] = "revoked",
         pc \in Holding => refresh[r] = "exchanging" /\ pc = "committing"
  PROVE  SessionInv'
<1>1. SessionTypeOK' BY DEF SessionInv, SessionTypeOK, Tokens, Goes
<1>2. \A s \in Sessions : SessionRecords(s)' BY DEF SessionInv, SessionRecords
<1>3. ASSUME NEW q \in Refreshes PROVE RefreshRecords(q)'
  <2>1. CASE q # r BY <2>1 DEF SessionInv, SessionTypeOK, RefreshRecords, Goes
  <2>2. CASE q = r
    <3>1. refresh'[r] = pc BY DEF SessionInv, SessionTypeOK, Goes
    <3> QED BY <2>2, <3>1 DEF SessionInv, RefreshRecords, Holding
  <2> QED BY <2>1, <2>2
<1>4. SessionsBounded' BY DEF SessionInv, SessionsBounded, Live
<1> QED BY <1>1, <1>2, <1>3, <1>4 DEF SessionInv

LEMMA PresentKeeps == ASSUME SessionInv, NEW r \in Refreshes, Present(r) PROVE SessionInv'
<1> DEFINE s == SessionOf[r]  k == SerialOf[r]
           pc == CASE session[s] # "live" -> "ended"
                   [] session[s] = "live" /\ age[s] # "fresh" -> "refused"
                   [] session[s] = "live" /\ age[s] = "fresh" ->
                        IF lock[s] # NoCall /\ overdue[s] THEN "revoking"
                        ELSE IF k \notin spent[s] THEN "claiming"
                        ELSE IF k \in past[s] THEN "revoking" ELSE "refused"
<1>1. s \in Sessions /\ k \in 1 .. issued[s] /\ Goes(r, pc)
  BY SessionsAssumption DEF Present, Tokens
<1>2. pc \in {"ended", "refused", "revoking", "claiming"} OBVIOUS
<1>3. issued[s] \in Nat BY <1>1 DEF SessionInv, SessionTypeOK
<1>4. issued[s] >= 1 /\ k <= issued[s] BY <1>1, <1>3
<1>5. pc = "ended" => session[s] = "revoked"
  <2>1. session[s] \in {"absent", "live", "revoked"} BY <1>1 DEF SessionInv, SessionTypeOK
  <2>2. session[s] # "absent" BY <1>1, <1>4 DEF SessionInv, SessionRecords
  <2> QED BY <2>1, <2>2
<1>6. UNCHANGED <<session, holds, lock, overdue, age, issued, spent, past, granted>>
  BY DEF Present, locks, tokens
<1>7. overdue \in [Sessions -> BOOLEAN] /\ granted \in [Refreshes -> BOOLEAN]
  BY DEF SessionInv, SessionTypeOK
<1> HIDE DEF s, k, pc
<1>8. pc \in RefreshSteps \ {"idle"} /\ pc \notin Holding BY <1>2 DEF RefreshSteps, Holding
<1> QED BY <1>1, <1>4, <1>5, <1>6, <1>7, <1>8, WalkKeeps DEF s, k

LEMMA ExchangeKeeps == ASSUME SessionInv, NEW r \in Refreshes, Exchange(r) PROVE SessionInv'
<1>1. PICK pc \in {"committing", "revoking"} : Goes(r, pc) BY DEF Exchange, OnError
<1>2. UNCHANGED <<session, holds, lock, overdue, age, issued, spent, past, granted>>
  BY DEF Exchange, locks, tokens
<1>3. refresh[r] = "exchanging" BY DEF Exchange, At
<1>4. issued[SessionOf[r]] >= 1 /\ SerialOf[r] <= issued[SessionOf[r]]
  BY <1>3 DEF SessionInv, RefreshRecords
<1>5. overdue \in [Sessions -> BOOLEAN] /\ granted \in [Refreshes -> BOOLEAN]
  BY DEF SessionInv, SessionTypeOK
<1>6. pc \in RefreshSteps \ {"idle"} /\ pc # "ended" BY DEF RefreshSteps
<1> QED BY <1>1, <1>2, <1>3, <1>4, <1>5, <1>6, WalkKeeps DEF Holding

LEMMA CheckKeeps == ASSUME SessionInv, NEW r \in Refreshes, Check(r) PROVE SessionInv'
<1>1. PICK pc \in {"answered", "revoking"} : Goes(r, pc) BY DEF Check, OnError
<1>2. UNCHANGED <<session, holds, lock, overdue, age, issued, spent, past>>
  BY DEF Check, locks, tokens
<1>3. granted' \in [Refreshes -> BOOLEAN] /\ overdue \in [Sessions -> BOOLEAN]
  BY DEF SessionInv, SessionTypeOK, Check
<1>4. refresh[r] = "checking" BY DEF Check, At
<1>5. issued[SessionOf[r]] >= 1 /\ SerialOf[r] <= issued[SessionOf[r]]
  BY <1>4 DEF SessionInv, RefreshRecords
<1>6. pc \in RefreshSteps \ {"idle"} /\ pc # "ended" /\ pc \notin Holding
  BY DEF RefreshSteps, Holding
<1> QED BY <1>1, <1>2, <1>3, <1>5, <1>6, WalkKeeps

LEMMA ClaimKeeps ==
  ASSUME SessionInv, NEW r \in Refreshes, NEW ack \in Acks, Claim(r, ack) PROVE SessionInv'
<1> DEFINE s == SessionOf[r]
<1>1. s \in Sessions /\ refresh[r] = "claiming" BY SessionsAssumption DEF Claim, At
<1>2. issued[s] >= 1 /\ SerialOf[r] <= issued[s] BY <1>1 DEF SessionInv, RefreshRecords
<1>3. UNCHANGED <<session, holds, age, issued, spent, past, granted>> BY DEF Claim, tokens
<1>4. CASE Claimable(r) /\ ack = "done"
  <2>1. /\ lock' = [lock EXCEPT ![s] = r] /\ Goes(r, "consuming")
        /\ \E late \in BOOLEAN : overdue' = [overdue EXCEPT ![s] = late]
    BY <1>4 DEF Claim, Written, Confirmed
  <2>2. session[s] = "live" /\ lock[s] = NoCall /\ SerialOf[r] \notin spent[s]
    BY <1>4 DEF Claimable
  <2>3. overdue' \in [Sessions -> BOOLEAN] BY <2>1, <1>1 DEF SessionInv, SessionTypeOK
  <2>4. SessionTypeOK'
    BY <2>1, <2>3, <1>3 DEF SessionInv, SessionTypeOK, Tokens, Goes, RefreshSteps
  <2>5. \A e \in Sessions : SessionRecords(e)' BY <1>3 DEF SessionInv, SessionRecords
  <2>6. SerialOf[r] = issued[s]
    <3>1. SerialOf[r] \in Nat \ {0} /\ issued[s] \in Nat
      BY <1>1, SessionsAssumption DEF SessionInv, SessionTypeOK
    <3>2. spent[s] = 1 .. issued[s] \/ spent[s] = 1 .. (issued[s] - 1)
      BY <1>1, <2>2 DEF SessionInv, SessionRecords
    <3> QED BY <1>2, <2>2, <3>1, <3>2
  <2>7. ASSUME NEW q \in Refreshes PROVE RefreshRecords(q)'
    <3>1. SessionOf[q] \in Sessions BY SessionsAssumption
    <3>2. refresh'[r] = "consuming" /\ lock'[s] = r
      BY <1>1, <2>1 DEF Goes, SessionInv, SessionTypeOK
    <3>3. CASE q = r
      BY <1>2, <1>3, <2>2, <2>6, <3>2, <3>3 DEF RefreshRecords, Holding
    <3>4. CASE q # r
      <4>1. refresh'[q] = refresh[q] BY <2>1, <3>4 DEF Goes, SessionInv, SessionTypeOK
      <4>2. session[SessionOf[q]] = "live" /\ refresh[q] \in Holding =>
              lock[SessionOf[q]] = q /\ lock'[SessionOf[q]] = lock[SessionOf[q]]
        <5>1. SUFFICES ASSUME session[SessionOf[q]] = "live" /\ refresh[q] \in Holding
                       PROVE  lock[SessionOf[q]] = q /\ lock'[SessionOf[q]] = lock[SessionOf[q]]
          OBVIOUS
        <5>2. lock[SessionOf[q]] = q BY <5>1 DEF SessionInv, RefreshRecords
        <5>3. SessionOf[q] # s BY <5>2, <2>2, SessionsAssumption
        <5> QED BY <5>2, <5>3, <2>1, <3>1 DEF SessionInv, SessionTypeOK
      <4> QED BY <4>1, <4>2, <1>3 DEF SessionInv, RefreshRecords
    <3> QED BY <3>3, <3>4
  <2>8. SessionsBounded' BY <1>3 DEF SessionInv, SessionsBounded, Live
  <2> QED BY <2>4, <2>5, <2>7, <2>8 DEF SessionInv
<1>5. CASE ~(Claimable(r) /\ ack = "done")
  <2>1. Goes(r, "refused") BY <1>5 DEF Claim, Confirmed
  <2>2. overdue' \in [Sessions -> BOOLEAN] BY <1>1 DEF Claim, locks, SessionInv, SessionTypeOK
  <2>3. lock' = lock \/ (lock' = [lock EXCEPT ![s] = r] /\ lock[s] = NoCall)
    BY DEF Claim, locks, Claimable
  <2>4. lock' \in [Sessions -> Refreshes \cup {NoCall}] BY <2>3 DEF SessionInv, SessionTypeOK
  <2>5. SessionTypeOK'
    BY <2>1, <2>2, <2>4, <1>3 DEF SessionInv, SessionTypeOK, Tokens, Goes, RefreshSteps
  <2>6. \A e \in Sessions : SessionRecords(e)' BY <1>3 DEF SessionInv, SessionRecords
  <2>7. ASSUME NEW q \in Refreshes PROVE RefreshRecords(q)'
    <3>1. SessionOf[q] \in Sessions BY SessionsAssumption
    <3>2. CASE q = r
      <4>1. refresh'[r] = "refused" BY <2>1 DEF Goes, SessionInv, SessionTypeOK
      <4> QED BY <4>1, <3>2, <1>2, <1>3 DEF RefreshRecords, Holding
    <3>3. CASE q # r
      <4>1. refresh'[q] = refresh[q] BY <2>1, <3>3 DEF Goes, SessionInv, SessionTypeOK
      <4>2. session[SessionOf[q]] = "live" /\ refresh[q] \in Holding => lock'[SessionOf[q]] = q
        <5>1. SUFFICES ASSUME session[SessionOf[q]] = "live" /\ refresh[q] \in Holding
                       PROVE  lock'[SessionOf[q]] = q
          OBVIOUS
        <5>2. lock[SessionOf[q]] = q BY <5>1 DEF SessionInv, RefreshRecords
        <5>3. lock[s] = NoCall => SessionOf[q] # s BY <5>2, SessionsAssumption
        <5> QED BY <5>2, <5>3, <2>3, <3>1 DEF SessionInv, SessionTypeOK
      <4> QED BY <4>1, <4>2, <1>3 DEF SessionInv, RefreshRecords
    <3> QED BY <3>2, <3>3
  <2>8. SessionsBounded' BY <1>3 DEF SessionInv, SessionsBounded, Live
  <2> QED BY <2>5, <2>6, <2>7, <2>8 DEF SessionInv
<1> QED BY <1>4, <1>5

\* Of two refreshes past their claims in one living session there is only one.
LEMMA OneHolder ==
  ASSUME SessionInv, NEW q \in Refreshes, NEW r \in Refreshes,
         refresh[q] \in Holding, refresh[r] \in Holding,
         SessionOf[q] = SessionOf[r], session[SessionOf[r]] = "live"
  PROVE  q = r
BY DEF SessionInv, RefreshRecords

LEMMA ConsumeKeeps ==
  ASSUME SessionInv, NEW r \in Refreshes, NEW ack \in Acks, Consume(r, ack) PROVE SessionInv'
<1> DEFINE s == SessionOf[r]
<1>1. s \in Sessions /\ refresh[r] = "consuming" BY SessionsAssumption DEF Consume, At
<1>2. issued[s] >= 1 /\ SerialOf[r] <= issued[s] BY <1>1 DEF SessionInv, RefreshRecords
<1>3. SerialOf[r] \in Nat \ {0} /\ issued[s] \in Nat
  BY <1>1, SessionsAssumption DEF SessionInv, SessionTypeOK
<1>4. UNCHANGED <<session, holds, lock, overdue, age, issued, past, granted>>
  BY DEF Consume, locks
<1>5. spent' = spent \/ spent' = [spent EXCEPT ![s] = @ \cup {SerialOf[r]}] BY DEF Consume
<1>6. PICK pc \in {"exchanging", "revoking"} :
        Goes(r, pc) /\ (pc = "exchanging" => spent' = [spent EXCEPT ![s] = @ \cup {SerialOf[r]}])
  BY DEF Consume, OnError, Written
<1>7. /\ refresh'[r] = pc /\ refresh' \in [Refreshes -> RefreshSteps]
      /\ \A q \in Refreshes \ {r} : refresh'[q] = refresh[q]
  BY <1>6 DEF Goes, SessionInv, SessionTypeOK, RefreshSteps
<1>8. /\ spent' \in [Sessions -> SUBSET Nat]
      /\ \A e \in Sessions : spent'[e] \subseteq 1 .. issued[e]
      /\ \A e \in Sessions \ {s} : spent'[e] = spent[e]
      /\ spent'[s] = spent[s] \/ spent'[s] = spent[s] \cup {SerialOf[r]}
  BY <1>1, <1>2, <1>3, <1>5 DEF SessionInv, SessionTypeOK, Tokens
<1>9. SessionTypeOK' BY <1>4, <1>7, <1>8 DEF SessionInv, SessionTypeOK, Tokens
<1>10. ASSUME NEW e \in Sessions PROVE SessionRecords(e)'
  <2>1. CASE e # s BY <2>1, <1>4, <1>8 DEF SessionInv, SessionRecords
  <2>2. CASE e = s
    <3>1. session[s] = "live" => spent'[s] = 1 .. issued[s] \/ spent'[s] = 1 .. (issued[s] - 1)
      <4>1. SUFFICES ASSUME session[s] = "live"
                     PROVE  spent'[s] = 1 .. issued[s] \/ spent'[s] = 1 .. (issued[s] - 1)
        OBVIOUS
      <4>2. SerialOf[r] = issued[s]
        BY <4>1, <1>1 DEF SessionInv, RefreshRecords, Holding
      <4>3. spent[s] = 1 .. issued[s] \/ spent[s] = 1 .. (issued[s] - 1)
        BY <4>1, <1>1 DEF SessionInv, SessionRecords
      <4>4. (1 .. (issued[s] - 1)) \cup {issued[s]} = 1 .. issued[s] BY <1>2, <1>3
      <4>5. (1 .. issued[s]) \cup {issued[s]} = 1 .. issued[s] BY <1>2, <1>3
      <4> QED BY <4>2, <4>3, <4>4, <4>5, <1>8
    <3> QED BY <3>1, <2>2, <1>4 DEF SessionInv, SessionRecords
  <2> QED BY <2>1, <2>2
<1>11. ASSUME NEW q \in Refreshes PROVE RefreshRecords(q)'
  <2>1. CASE q = r
    <3>1. pc = "exchanging" => SerialOf[r] \in spent'[s]
      BY <1>1, <1>6 DEF SessionInv, SessionTypeOK
    <3> QED BY <3>1, <2>1, <1>1, <1>2, <1>4, <1>7 DEF SessionInv, RefreshRecords, Holding
  <2>2. CASE q # r
    <3>1. session[SessionOf[q]] = "live" /\ refresh[q] \in Holding => SessionOf[q] # s
      BY <2>2, <1>1, OneHolder DEF Holding
    <3>2. SessionOf[q] \in Sessions BY SessionsAssumption
    <3> QED BY <3>1, <3>2, <2>2, <1>4, <1>7, <1>8 DEF SessionInv, RefreshRecords
  <2> QED BY <2>1, <2>2
<1>12. SessionsBounded' BY <1>4 DEF SessionInv, SessionsBounded, Live
<1> QED BY <1>9, <1>10, <1>11, <1>12 DEF SessionInv

\* What a commit does to the session of a refresh, if it does anything.
CommitMay(r) ==
  LET s == SessionOf[r] IN
  /\ session[s] = "live" /\ lock[s] = r
  /\ lock' = [lock EXCEPT ![s] = NoCall]
  /\ holds' = [holds EXCEPT ![s] = TRUE]
  /\ issued' = [issued EXCEPT ![s] = @ + 1]

LEMMA CommitDoes ==
  ASSUME SessionInv, NEW r \in Refreshes, NEW ack \in Acks, Commit(r, ack)
  PROVE  CommitMay(r) \/ UNCHANGED <<lock, holds, issued>>
<1>1. session[SessionOf[r]] = "live" => lock[SessionOf[r]] = r
  BY DEF Commit, At, SessionInv, RefreshRecords, Holding
<1> QED BY <1>1 DEF Commit, CommitMay

LEMMA CommitKeeps ==
  ASSUME SessionInv, NEW r \in Refreshes, NEW ack \in Acks, Commit(r, ack) PROVE SessionInv'
<1> DEFINE s == SessionOf[r]
<1>1. s \in Sessions /\ refresh[r] = "committing" BY SessionsAssumption DEF Commit, At
<1>2. issued[s] >= 1 /\ SerialOf[r] <= issued[s] BY <1>1 DEF SessionInv, RefreshRecords
<1>3. SerialOf[r] \in Nat \ {0} /\ issued[s] \in Nat
  BY <1>1, SessionsAssumption DEF SessionInv, SessionTypeOK
<1>4. UNCHANGED <<session, spent, past>> BY DEF Commit
<1>5. PICK pc \in {"checking", "revoking"} : Goes(r, pc) BY DEF Commit, OnError
<1>6. /\ refresh'[r] = pc /\ refresh' \in [Refreshes -> RefreshSteps]
      /\ \A q \in Refreshes \ {r} : refresh'[q] = refresh[q]
  BY <1>5 DEF Goes, SessionInv, SessionTypeOK, RefreshSteps
<1>7. /\ overdue' \in [Sessions -> BOOLEAN] /\ age' \in [Sessions -> {"fresh", "idle", "over"}]
      /\ granted' \in [Refreshes -> BOOLEAN]
  BY <1>1 DEF Commit, SessionInv, SessionTypeOK
<1>8. /\ lock' \in [Sessions -> Refreshes \cup {NoCall}] /\ holds' \in [Sessions -> BOOLEAN]
      /\ issued' \in [Sessions -> Nat]
      /\ \A e \in Sessions \ {s} :
           lock'[e] = lock[e] /\ holds'[e] = holds[e] /\ issued'[e] = issued[e]
      /\ \/ issued'[s] = issued[s] /\ holds'[s] = holds[s] /\ lock'[s] = lock[s]
         \/ issued'[s] = issued[s] + 1 /\ session[s] = "live"
  <2>1. CASE UNCHANGED <<lock, holds, issued>> BY <2>1 DEF SessionInv, SessionTypeOK
  <2>2. CASE CommitMay(r)
    <3>1. /\ session[s] = "live" /\ lock' = [lock EXCEPT ![s] = NoCall]
          /\ holds' = [holds EXCEPT ![s] = TRUE]
          /\ issued' = [issued EXCEPT ![s] = issued[s] + 1]
      BY <2>2 DEF CommitMay
    <3>2. issued[s] + 1 \in Nat BY <1>3
    <3>3. lock' \in [Sessions -> Refreshes \cup {NoCall}]
          /\ \A e \in Sessions \ {s} : lock'[e] = lock[e]
      BY <1>1, <3>1 DEF SessionInv, SessionTypeOK
    <3>4. holds' \in [Sessions -> BOOLEAN] /\ \A e \in Sessions \ {s} : holds'[e] = holds[e]
      BY <1>1, <3>1 DEF SessionInv, SessionTypeOK
    <3>5. /\ issued' \in [Sessions -> Nat] /\ issued'[s] = issued[s] + 1
          /\ \A e \in Sessions \ {s} : issued'[e] = issued[e]
      BY <1>1, <3>1, <3>2 DEF SessionInv, SessionTypeOK
    <3> QED BY <3>1, <3>3, <3>4, <3>5
  <2>3. CommitMay(r) \/ UNCHANGED <<lock, holds, issued>> BY CommitDoes
  <2> QED BY <2>1, <2>2, <2>3
<1>9. \A e \in Sessions : spent[e] \subseteq 1 .. issued'[e]
  <2>1. \A e \in Sessions : issued'[e] = issued[e] \/ (e = s /\ issued'[e] = issued[e] + 1)
    BY <1>8
  <2>2. \A e \in Sessions : issued[e] \in Nat /\ spent[e] \subseteq 1 .. issued[e]
    BY DEF SessionInv, SessionTypeOK, Tokens
  <2> QED BY <2>1, <2>2
<1>10. SessionTypeOK' BY <1>4, <1>6, <1>7, <1>8, <1>9 DEF SessionInv, SessionTypeOK, Tokens
<1>11. ASSUME NEW e \in Sessions PROVE SessionRecords(e)'
  <2>1. CASE e # s BY <2>1, <1>4, <1>8 DEF SessionInv, SessionRecords
  <2>2. CASE e = s /\ issued'[s] = issued[s] /\ holds'[s] = holds[s]
    BY <2>2, <1>4 DEF SessionInv, SessionRecords
  <2>3. CASE e = s /\ issued'[s] = issued[s] + 1 /\ session[s] = "live"
    <3>1. SerialOf[r] = issued[s] /\ SerialOf[r] \in spent[s]
      BY <2>3, <1>1 DEF SessionInv, RefreshRecords, Holding
    <3>2. spent[s] = 1 .. issued[s] \/ spent[s] = 1 .. (issued[s] - 1)
      BY <2>3, <1>1 DEF SessionInv, SessionRecords
    <3>3. issued[s] \notin 1 .. (issued[s] - 1) BY <1>3
    <3>4. spent[s] = 1 .. (issued'[s] - 1) BY <2>3, <3>1, <3>2, <3>3, <1>3
    <3> QED BY <2>3, <3>4, <1>1, <1>3, <1>4 DEF SessionRecords
  <2> QED BY <2>1, <2>2, <2>3, <1>8
<1>12. ASSUME NEW q \in Refreshes PROVE RefreshRecords(q)'
  <2>1. SessionOf[q] \in Sessions BY SessionsAssumption
  <2>2. CASE q = r
    <3>1. issued'[s] >= 1 /\ SerialOf[r] <= issued'[s] BY <1>2, <1>3, <1>8
    <3> QED BY <3>1, <2>2, <1>6 DEF RefreshRecords, Holding
  <2>3. CASE q # r
    <3>1. session[SessionOf[q]] = "live" /\ refresh[q] \in Holding => SessionOf[q] # s
      BY <2>3, <1>1, OneHolder DEF Holding
    <3>2. refresh[q] # "idle" => issued'[SessionOf[q]] >= 1 /\ SerialOf[q] <= issued'[SessionOf[q]]
      <4>1. SerialOf[q] \in Nat /\ issued[SessionOf[q]] \in Nat
        BY <2>1, SessionsAssumption DEF SessionInv, SessionTypeOK
      <4>2. issued'[SessionOf[q]] \in {issued[SessionOf[q]], issued[SessionOf[q]] + 1}
        BY <2>1, <1>8
      <4> QED BY <4>1, <4>2 DEF SessionInv, RefreshRecords
    <3> QED BY <3>1, <3>2, <2>1, <2>3, <1>4, <1>6, <1>8 DEF SessionInv, RefreshRecords
  <2> QED BY <2>2, <2>3
<1>13. SessionsBounded' BY <1>4 DEF SessionInv, SessionsBounded, Live
<1> QED BY <1>10, <1>11, <1>12, <1>13 DEF SessionInv

\* What ending sessions does, whoever ends them.
LEMMA EndsDoes ==
  ASSUME SessionInv, NEW ended, Ends(ended)
  PROVE  /\ session' \in [Sessions -> {"absent", "live", "revoked"}]
         /\ holds' \in [Sessions -> BOOLEAN]
         /\ \A s \in Sessions : /\ \/ session'[s] = session[s]
                                   \/ session[s] = "live" /\ session'[s] = "revoked"
                                /\ holds'[s] => session'[s] = "live"
         /\ \A s \in ended \cap Sessions : session[s] = "live" => session'[s] = "revoked"
         /\ SessionsBounded'
<1>1. session' = [s \in Sessions |-> IF s \in ended \cap Live THEN "revoked" ELSE session[s]]
  BY DEF Ends
<1>2. holds' = [s \in Sessions |-> holds[s] /\ s \notin ended \cap Live]
  BY DEF Ends, ClearsCredentials
<1>3. session' \in [Sessions -> {"absent", "live", "revoked"}] /\ holds' \in [Sessions -> BOOLEAN]
  BY <1>1, <1>2, Zenon DEF SessionInv, SessionTypeOK
<1>4. ASSUME NEW s \in Sessions
      PROVE  /\ session'[s] = session[s] \/ (session[s] = "live" /\ session'[s] = "revoked")
             /\ holds'[s] => session'[s] = "live"
             /\ s \in ended /\ session[s] = "live" => session'[s] = "revoked"
  <2>1. holds'[s] => holds[s] /\ s \notin ended \cap Live BY <1>2
  <2>2. holds[s] => session[s] = "live" BY DEF SessionInv, SessionRecords
  <2>3. s \in Live <=> session[s] = "live" BY DEF Live
  <2>4. session'[s] = IF s \in ended \cap Live THEN "revoked" ELSE session[s] BY <1>1
  <2> QED BY <2>1, <2>2, <2>3, <2>4
<1>5. Live' \subseteq Live BY <1>4 DEF Live
<1>6. Cardinality(Live') <= MaxSessions BY <1>5, FewerLive DEF SessionInv
<1> QED BY <1>3, <1>4, <1>6 DEF SessionsBounded

LEMMA EndingKeeps ==
  ASSUME SessionInv, NEW ended, Ends(ended), UNCHANGED <<locks, age, tokens, calls>>
  PROVE  SessionInv'
<1>1. SessionTypeOK'
  BY EndsDoes DEF SessionInv, SessionTypeOK, Tokens, locks, tokens, calls
<1>2. \A s \in Sessions : SessionRecords(s)'
  BY EndsDoes DEF SessionInv, SessionRecords, tokens
<1>3. \A r \in Refreshes : RefreshRecords(r)'
  BY EndsDoes, SessionsAssumption DEF SessionInv, RefreshRecords, tokens, locks, calls
<1> QED BY <1>1, <1>2, <1>3, EndsDoes DEF SessionInv

LEMMA GiveUpKeeps ==
  ASSUME SessionInv, NEW r \in Refreshes, NEW ack \in Acks, GiveUp(r, ack) PROVE SessionInv'
<1> DEFINE s == SessionOf[r]
<1>1. s \in Sessions /\ refresh[r] = "revoking" BY SessionsAssumption DEF GiveUp, At
<1>2. PICK ended : Ends(ended) /\ (ack = "done" => s \in ended) BY DEF GiveUp, Written
<1>3. UNCHANGED <<lock, overdue, age, issued, spent, past, granted>>
  BY DEF GiveUp, locks, tokens
<1>4. PICK pc \in {"ended", "refused"} : Goes(r, pc) /\ (pc = "ended" => ack = "done")
  BY DEF GiveUp
<1>5. /\ refresh'[r] = pc /\ refresh' \in [Refreshes -> RefreshSteps]
      /\ \A q \in Refreshes \ {r} : refresh'[q] = refresh[q]
  BY <1>4 DEF Goes, SessionInv, SessionTypeOK, RefreshSteps
<1>6. SessionTypeOK' BY <1>2, <1>3, <1>5, EndsDoes DEF SessionInv, SessionTypeOK, Tokens
<1>7. \A e \in Sessions : SessionRecords(e)'
  BY <1>2, <1>3, EndsDoes DEF SessionInv, SessionRecords
<1>8. pc = "ended" => session'[s] = "revoked"
  <2>1. SUFFICES ASSUME pc = "ended" PROVE session'[s] = "revoked" OBVIOUS
  <2>2. s \in ended BY <2>1, <1>2, <1>4
  <2>3. session[s] \in {"live", "revoked"}
    <3>1. session[s] \in {"absent", "live", "revoked"} BY <1>1 DEF SessionInv, SessionTypeOK
    <3>2. issued[s] >= 1 BY <1>1 DEF SessionInv, RefreshRecords
    <3> QED BY <1>1, <3>1, <3>2 DEF SessionInv, SessionRecords
  <2> QED BY <1>1, <1>2, <2>2, <2>3, EndsDoes
<1>9. ASSUME NEW q \in Refreshes PROVE RefreshRecords(q)'
  <2>1. SessionOf[q] \in Sessions BY SessionsAssumption
  <2>2. CASE q = r
    BY <2>2, <1>1, <1>3, <1>5, <1>8 DEF SessionInv, RefreshRecords, Holding
  <2>3. CASE q # r
    BY <2>1, <2>3, <1>2, <1>3, <1>5, EndsDoes DEF SessionInv, RefreshRecords
  <2> QED BY <2>2, <2>3
<1> QED BY <1>2, <1>6, <1>7, <1>9, EndsDoes DEF SessionInv

LEMMA SignInKeeps == ASSUME SessionInv, NEW s \in Sessions, SignIn(s) PROVE SessionInv'
<1>1. session[s] = "absent" /\ issued' = [issued EXCEPT ![s] = 1] BY DEF SignIn
<1>2. PICK drop \in SUBSET Live :
        /\ MakesRoom(drop)
        /\ session' = [e \in Sessions |->
             IF e = s THEN "live" ELSE IF e \in drop THEN "revoked" ELSE session[e]]
        /\ holds' = [e \in Sessions |-> e = s \/ (holds[e] /\ e \notin drop)]
  BY DEF SignIn
<1>3. UNCHANGED <<lock, overdue, age, spent, past, refresh, granted>>
  BY DEF SignIn, locks, calls
<1>4. issued[s] = 0 /\ spent[s] = {}
  <2>1. issued[s] = 0 BY <1>1 DEF SessionInv, SessionRecords
  <2>2. spent[s] \subseteq 1 .. 0 BY <2>1 DEF SessionInv, SessionTypeOK, Tokens
  <2> QED BY <2>1, <2>2
<1>5. issued'[s] = 1 /\ issued' \in [Sessions -> Nat]
      /\ \A e \in Sessions \ {s} : issued'[e] = issued[e]
  BY <1>1 DEF SessionInv, SessionTypeOK
<1>6. /\ session' \in [Sessions -> {"absent", "live", "revoked"}]
      /\ session'[s] = "live"
      /\ \A e \in Sessions \ {s} :
           session'[e] = session[e] \/ (session[e] = "live" /\ session'[e] = "revoked")
  BY <1>2, Zenon DEF SessionInv, SessionTypeOK, Live
<1>7. holds' \in [Sessions -> BOOLEAN] BY <1>2, Zenon DEF SessionInv, SessionTypeOK
<1>8. \A e \in Sessions \ {s} : holds'[e] => session'[e] = "live"
  <2>1. SUFFICES ASSUME NEW e \in Sessions \ {s}, holds'[e] PROVE session'[e] = "live" OBVIOUS
  <2>2. holds[e] /\ e \notin drop BY <1>2, <2>1, Zenon
  <2> QED BY <1>2, <2>2 DEF SessionInv, SessionRecords
<1>9. SessionTypeOK'
  <2>1. \A e \in Sessions : spent[e] \subseteq 1 .. issued'[e]
    BY <1>4, <1>5 DEF SessionInv, SessionTypeOK, Tokens
  <2> QED BY <2>1, <1>3, <1>5, <1>6, <1>7 DEF SessionInv, SessionTypeOK, Tokens
<1>10. ASSUME NEW e \in Sessions PROVE SessionRecords(e)'
  <2>1. CASE e # s BY <2>1, <1>3, <1>5, <1>6, <1>8 DEF SessionInv, SessionRecords
  <2>2. CASE e = s
    <3>1. spent'[s] = 1 .. (issued'[s] - 1) BY <1>3, <1>4, <1>5
    <3> QED BY <3>1, <2>2, <1>5, <1>6 DEF SessionRecords
  <2> QED BY <2>1, <2>2
<1>11. ASSUME NEW r \in Refreshes PROVE RefreshRecords(r)'
  <2>1. SessionOf[r] \in Sessions BY SessionsAssumption
  <2>2. SessionOf[r] = s => refresh[r] = "idle"
    BY <1>4, SMT DEF SessionInv, RefreshRecords
  <2>3. CASE SessionOf[r] = s BY <2>2, <2>3, <1>3 DEF RefreshRecords, Holding
  <2>4. CASE SessionOf[r] # s
    BY <2>1, <2>4, <1>3, <1>5, <1>6 DEF SessionInv, RefreshRecords
  <2> QED BY <2>3, <2>4
<1>12. SessionsBounded'
  <2>1. Live' \subseteq (Live \ drop) \cup {s} BY <1>2, <1>6 DEF Live
  <2>2. s \notin Live \ drop BY <1>1 DEF Live
  <2>3. IsFiniteSet(Live \ drop) /\ IsFiniteSet(Live) BY FewerLive DEF SessionInv
  <2>4. Cardinality((Live \ drop) \cup {s}) = Cardinality(Live \ drop) + 1
        /\ IsFiniteSet((Live \ drop) \cup {s})
    BY <2>2, <2>3, FS_AddElement
  <2>5. Cardinality(Live') <= Cardinality((Live \ drop) \cup {s})
        /\ Cardinality(Live') \in Nat
    BY <2>1, <2>4, FS_Subset, FS_CardinalityType
  <2>6. Cardinality(Live) \in Nat /\ Cardinality(Live \ drop) \in Nat
    BY <2>3, FS_CardinalityType
  <2>7. Cardinality(Live \ drop) <= MaxSessions - 1
    BY <1>2, <2>6, SessionsAssumption DEF MakesRoom
  <2> QED BY <2>4, <2>5, <2>6, <2>7, SessionsAssumption DEF SessionsBounded
<1> QED BY <1>9, <1>10, <1>11, <1>12 DEF SessionInv

LEMMA TimeKeeps == ASSUME SessionInv, NEW s \in Sessions, TimePasses(s) PROVE SessionInv'
<1>1. overdue \in [Sessions -> BOOLEAN] /\ age \in [Sessions -> {"fresh", "idle", "over"}]
      /\ past \in [Sessions -> SUBSET Nat] /\ spent[s] \subseteq Nat
  BY DEF SessionInv, SessionTypeOK
<1>2. CASE OutlastLock(s)
  BY <1>1, <1>2, QuietKeeps DEF OutlastLock, tokens
<1>3. ASSUME NEW to \in {"idle", "over"}, Expire(s, to) PROVE SessionInv'
  BY <1>1, <1>3, QuietKeeps DEF Expire, locks, tokens
<1>4. ASSUME NEW k \in spent[s], OutlastGrace(s, k) PROVE SessionInv'
  BY <1>1, <1>4, QuietKeeps DEF OutlastGrace, locks
<1> QED BY <1>2, <1>3, <1>4 DEF TimePasses

LEMMA SessionsKeep == ASSUME SessionInv, SessionNext PROVE SessionInv'
<1>1. CASE \E s \in Sessions : SignIn(s) \/ TimePasses(s) BY <1>1, SignInKeeps, TimeKeeps
<1>2. ASSUME NEW r \in Refreshes, RefreshStep(r) PROVE SessionInv'
  <2>1. CASE Present(r) \/ Exchange(r) \/ Check(r)
    BY <2>1, PresentKeeps, ExchangeKeeps, CheckKeeps
  <2>2. ASSUME NEW ack \in Acks, Claim(r, ack) \/ Consume(r, ack) PROVE SessionInv'
    BY <2>2, ClaimKeeps, ConsumeKeeps
  <2>3. ASSUME NEW ack \in Acks, Commit(r, ack) \/ GiveUp(r, ack) PROVE SessionInv'
    BY <2>3, CommitKeeps, GiveUpKeeps
  <2> QED BY <1>2, <2>1, <2>2, <2>3 DEF RefreshStep
<1>3. CASE Revocation
  <2>1. PICK ended : Ends(ended) /\ UNCHANGED <<locks, age, tokens, calls>>
    BY <1>3 DEF Revocation, Revoke, RevokeAll, CleanSessions
  <2> QED BY <2>1, EndingKeeps
<1> QED BY <1>1, <1>2, <1>3 DEF SessionNext

-----------------------------------------------------------------------------
(* Challenges *)

\* Nothing about a challenge changes where neither its row nor a submission does.
LEMMA ChallengesRest ==
  ASSUME IInv, UNCHANGED <<rows, submit>>, SessionInv' PROVE IInv'
<1>1. TypeOK' BY DEF IInv, TypeOK, SessionInv, rows
<1>2. \A c \in Challenges : ChallengeRecords(c)'
  BY DEF IInv, ChallengeRecords, Passed, Tried, rows
<1> QED BY <1>1, <1>2 DEF IInv

\* A row that was not gone moves on, and no submission does.
LEMMA RowsKeep ==
  ASSUME IInv, UNCHANGED <<sessionVars, attempts, submit>>,
         challenge' \in [Challenges -> {"absent", "opening", "live", "lapsed", "gone"}],
         kind' \in [Challenges -> {"mfa_signin", "reauth_mfa", "mfa_enroll"}],
         \A c \in Challenges : challenge[c] = "gone" => challenge'[c] = "gone"
  PROVE  IInv'
<1>1. SessionInv'
  BY QuietKeeps DEF IInv, SessionInv, SessionTypeOK, sessionVars, locks, tokens
<1>2. TypeOK' BY <1>1 DEF IInv, TypeOK, SessionInv
<1>3. \A c \in Challenges : ChallengeRecords(c)' BY DEF IInv, ChallengeRecords, Passed, Tried
<1> QED BY <1>1, <1>2, <1>3 DEF IInv

LEMMA ChallengeKeeps ==
  ASSUME IInv, NEW c \in Challenges, ChallengeStep(c) PROVE IInv'
<1>1. /\ challenge \in [Challenges -> {"absent", "opening", "live", "lapsed", "gone"}]
      /\ kind \in [Challenges -> {"mfa_signin", "reauth_mfa", "mfa_enroll"}]
  BY DEF IInv, TypeOK
<1>2. ASSUME NEW k \in Kinds, Open(c, k) PROVE IInv'
  <2>1. challenge' = [e \in Challenges |->
          IF e = c THEN "opening"
          ELSE IF k # "mfa_signin" /\ challenge[e] = "live" /\ kind[e] = k
               THEN "gone" ELSE challenge[e]]
    BY <1>2 DEF Open
  <2>2. k \in {"mfa_signin", "reauth_mfa", "mfa_enroll"} BY ChallengesAssumption
  <2>3. kind' \in [Challenges -> {"mfa_signin", "reauth_mfa", "mfa_enroll"}]
    BY <1>1, <1>2, <2>2 DEF Open
  <2>4. challenge' \in [Challenges -> {"absent", "opening", "live", "lapsed", "gone"}]
        /\ \A e \in Challenges : challenge[e] = "gone" => challenge'[e] = "gone"
    BY <1>1, <1>2, <2>1 DEF Open
  <2> QED BY <1>2, <2>3, <2>4, RowsKeep DEF Open
<1>3. ASSUME InsertChallenge(c) \/ Lapse(c) \/ CleanChallenge(c) PROVE IInv'
  BY <1>1, <1>3, RowsKeep DEF InsertChallenge, Lapse, CleanChallenge
<1> QED BY <1>2, <1>3 DEF ChallengeStep

Passing == {"entering", "over"}
Trying == SubmissionSteps \ {"idle", "invalid"}

\* A submission goes on, towards passing only after it took the challenge away.
LEMMA SubmissionKeeps ==
  ASSUME IInv, SessionInv', NEW m \in Submissions, NEW pc \in SubmissionSteps \ {"idle"},
         Does(m, pc), kind' = kind, attempts' = attempts,
         challenge' \in [Challenges -> {"absent", "opening", "live", "lapsed", "gone"}],
         \A c \in Challenges : challenge[c] = "gone" => challenge'[c] = "gone",
         submit[m] \in Trying \/ pc = "invalid",
         pc \in Passing => \/ submit[m] \in Passing
                           \/ /\ challenge[ChallengeOf[m]] # "gone"
                              /\ challenge'[ChallengeOf[m]] = "gone"
  PROVE  IInv'
<1>1. /\ submit' \in [Submissions -> SubmissionSteps] /\ submit'[m] = pc
      /\ \A n \in Submissions \ {m} : submit'[n] = submit[n]
  BY DEF Does, IInv, TypeOK
<1>2. TypeOK' BY <1>1 DEF IInv, TypeOK, SessionInv
<1>3. ASSUME NEW c \in Challenges PROVE ChallengeRecords(c)'
  <2>1. Tried(c)' \subseteq Tried(c) BY <1>1 DEF Tried, Trying
  <2>2. Cardinality(Tried(c)') <= attempts'[c]
    <3>1. IsFiniteSet(Tried(c)) BY ChallengesAssumption, FS_Subset DEF Tried
    <3>2. IsFiniteSet(Tried(c)') /\ Cardinality(Tried(c)') <= Cardinality(Tried(c))
      BY <2>1, <3>1, FS_Subset
    <3>3. Cardinality(Tried(c)') \in Nat /\ Cardinality(Tried(c)) \in Nat
      BY <3>1, <3>2, FS_CardinalityType
    <3>4. attempts[c] \in Nat /\ Cardinality(Tried(c)) <= attempts[c]
      BY ChallengesAssumption DEF IInv, TypeOK, ChallengeRecords
    <3> QED BY <3>2, <3>3, <3>4
  <2>3. CASE Passed(c)' \subseteq Passed(c)
    BY <2>2, <2>3 DEF IInv, ChallengeRecords
  <2>4. CASE ~(Passed(c)' \subseteq Passed(c))
    <3>1. c = ChallengeOf[m] /\ pc \in Passing /\ submit[m] \notin Passing
      BY <2>4, <1>1 DEF Passed, Passing
    <3>2. Passed(c) = {} BY <3>1 DEF IInv, ChallengeRecords
    <3>3. Passed(c)' \subseteq {m} BY <3>2, <1>1 DEF Passed
    <3> QED BY <3>1, <3>3, <2>2 DEF ChallengeRecords
  <2> QED BY <2>3, <2>4
<1> QED BY <1>2, <1>3 DEF IInv

LEMMA AttemptKeeps ==
  ASSUME IInv, NEW m \in Submissions, NEW ack \in Acks, Attempt(m, ack) PROVE IInv'
<1> DEFINE c == ChallengeOf[m]
<1>1. /\ c \in Challenges /\ submit[m] = "idle"
      /\ UNCHANGED <<sessionVars, challenge, kind>>
  BY ChallengesAssumption DEF Attempt
<1>2. SessionInv'
  BY <1>1, QuietKeeps DEF IInv, SessionInv, SessionTypeOK, sessionVars, locks, tokens
<1>3. PICK pc \in {"invalid", "verifying", "verifying_last"} :
        Does(m, pc) /\ (pc # "invalid" => Attemptable(c) /\ ack = "done")
  BY DEF Attempt, Confirmed
<1>4. /\ submit' \in [Submissions -> SubmissionSteps] /\ submit'[m] = pc
      /\ \A n \in Submissions \ {m} : submit'[n] = submit[n]
  BY <1>3 DEF Does, IInv, TypeOK, SubmissionSteps
<1>5. attempts[c] \in 0 .. MaxAttempts /\ MaxAttempts \in Nat
  BY <1>1, ChallengesAssumption DEF IInv, TypeOK
<1>6. /\ attempts' \in [Challenges -> 0 .. MaxAttempts]
      /\ \A b \in Challenges \ {c} : attempts'[b] = attempts[b]
      /\ attempts'[c] >= attempts[c]
      /\ pc # "invalid" => attempts'[c] = attempts[c] + 1
  <2>1. CASE attempts' = attempts /\ pc = "invalid" BY <2>1, <1>5 DEF IInv, TypeOK
  <2>2. CASE attempts' = [attempts EXCEPT ![c] = @ + 1] /\ Attemptable(c)
    <3>1. attempts[c] + 1 \in 0 .. MaxAttempts BY <1>5, <2>2 DEF Attemptable
    <3> QED BY <3>1, <2>2, <1>1, <1>5 DEF IInv, TypeOK
  <2> QED BY <2>1, <2>2, <1>3 DEF Attempt, Written
<1>7. TypeOK' BY <1>1, <1>2, <1>4, <1>6 DEF IInv, TypeOK, SessionInv
<1>8. ASSUME NEW b \in Challenges PROVE ChallengeRecords(b)'
  <2>1. Passed(b)' = Passed(b) BY <1>1, <1>4 DEF Passed
  <2>2. IsFiniteSet(Tried(b)) BY ChallengesAssumption, FS_Subset DEF Tried
  <2>3. Cardinality(Tried(b)) \in Nat /\ Cardinality(Tried(b)) <= attempts[b]
    BY <2>2, FS_CardinalityType DEF IInv, ChallengeRecords
  <2>4. attempts[b] \in Nat /\ attempts'[b] \in Nat
    BY <1>6, ChallengesAssumption DEF IInv, TypeOK
  <2>5. CASE b = c /\ pc # "invalid"
    <3>1. Tried(b)' = Tried(b) \cup {m} /\ m \notin Tried(b) BY <2>5, <1>1, <1>3, <1>4 DEF Tried
    <3>2. Cardinality(Tried(b)') = Cardinality(Tried(b)) + 1 BY <3>1, <2>2, FS_AddElement
    <3>3. Cardinality(Tried(b)') <= attempts'[b] BY <3>2, <2>3, <2>4, <2>5, <1>6
    <3> QED BY <3>3, <2>1, <1>1 DEF IInv, ChallengeRecords
  <2>6. CASE ~(b = c /\ pc # "invalid")
    <3>1. Tried(b)' = Tried(b) BY <2>6, <1>1, <1>4 DEF Tried
    <3>2. attempts'[b] >= attempts[b] BY <1>5, <1>6, <2>4
    <3>3. Cardinality(Tried(b)') <= attempts'[b] BY <3>1, <3>2, <2>3, <2>4
    <3> QED BY <3>3, <2>1, <1>1 DEF IInv, ChallengeRecords
  <2> QED BY <2>5, <2>6
<1> QED BY <1>2, <1>7, <1>8 DEF IInv

LEMMA SubmissionStepKeeps ==
  ASSUME IInv, NEW m \in Submissions, SubmissionStep(m) PROVE IInv'
<1> DEFINE c == ChallengeOf[m]
<1>1. /\ c \in Challenges
      /\ challenge \in [Challenges -> {"absent", "opening", "live", "lapsed", "gone"}]
  BY ChallengesAssumption DEF IInv, TypeOK
<1>2. UNCHANGED sessionVars => SessionInv'
  BY QuietKeeps DEF IInv, SessionInv, SessionTypeOK, sessionVars, locks, tokens
<1>3. CASE Verify(m)
  <2>1. PICK pc \in {"redeeming", "denied", "exhausting"} : Does(m, pc)
    BY <1>3 DEF Verify
  <2>2. submit[m] \in Trying BY <1>3 DEF Verify, Trying, SubmissionSteps
  <2>3. pc \in SubmissionSteps \ {"idle"} /\ pc \notin Passing BY DEF SubmissionSteps, Passing
  <2>4. UNCHANGED <<sessionVars, challenge, kind, attempts>> BY <1>3 DEF Verify, rows
  <2> QED BY <1>1, <1>2, <2>1, <2>2, <2>3, <2>4, SubmissionKeeps
<1>4. ASSUME NEW ack \in Acks, Exhaust(m, ack) PROVE IInv'
  <2>1. Does(m, "denied") /\ submit[m] \in Trying /\ "denied" \in SubmissionSteps \ {"idle"}
        /\ "denied" \notin Passing
    BY <1>4 DEF Exhaust, Trying, SubmissionSteps, Passing
  <2>2. challenge' \in [Challenges -> {"absent", "opening", "live", "lapsed", "gone"}]
        /\ \A b \in Challenges : challenge[b] = "gone" => challenge'[b] = "gone"
    BY <1>1, <1>4 DEF Exhaust
  <2>3. UNCHANGED <<sessionVars, kind, attempts>> BY <1>4 DEF Exhaust
  <2> QED BY <1>2, <2>1, <2>2, <2>3, SubmissionKeeps
<1>5. ASSUME NEW ack \in Acks, Redeem(m, ack) PROVE IInv'
  <2>1. PICK pc \in {"entering", "denied"} :
          Does(m, pc) /\ (pc = "entering" => Redeemable(c) /\ ack = "done")
    BY <1>5 DEF Redeem, Confirmed
  <2>2. submit[m] \in Trying /\ pc \in SubmissionSteps \ {"idle"} /\ pc # "invalid"
    BY <1>5 DEF Redeem, Trying, SubmissionSteps
  <2>3. challenge' \in [Challenges -> {"absent", "opening", "live", "lapsed", "gone"}]
        /\ \A b \in Challenges : challenge[b] = "gone" => challenge'[b] = "gone"
    BY <1>1, <1>5 DEF Redeem
  <2>4. pc \in Passing => challenge[c] # "gone" /\ challenge'[c] = "gone"
    BY <1>1, <1>5, <2>1 DEF Redeem, Passing, Redeemable, Written
  <2>5. UNCHANGED <<sessionVars, kind, attempts>> BY <1>5 DEF Redeem
  <2> QED BY <1>2, <2>1, <2>2, <2>3, <2>4, <2>5, SubmissionKeeps
<1>6. CASE /\ submit[m] = "entering" /\ Does(m, "over") /\ UNCHANGED rows /\ SessionInv'
  <2>1. submit[m] \in Trying /\ submit[m] \in Passing /\ "over" \in SubmissionSteps \ {"idle"}
    BY <1>6 DEF Trying, Passing, SubmissionSteps
  <2>2. UNCHANGED <<challenge, kind, attempts>> BY <1>6 DEF rows
  <2> QED BY <1>1, <1>6, <2>1, <2>2, SubmissionKeeps
<1>7. CASE Fails(m) BY <1>2, <1>6, <1>7 DEF Fails
<1>8. CASE EnterSession(m)
  <2>1. SessionInv' BY <1>8, SignInKeeps, ChallengesAssumption DEF EnterSession, IInv
  <2> QED BY <1>6, <1>8, <2>1 DEF EnterSession
<1>9. CASE Enroll(m)
  <2>1. SessionInv' BY <1>9, EndingKeeps DEF Enroll, IInv
  <2> QED BY <1>6, <1>9, <2>1 DEF Enroll
<1>10. CASE Reauthenticate(m)
  <2>1. /\ UNCHANGED <<session, lock, overdue, age, issued, spent, past, refresh, granted>>
        /\ holds' = holds \/ \E s \in Sessions :
             session[s] = "live" /\ holds' = [holds EXCEPT ![s] = TRUE]
    BY <1>10, ChallengesAssumption DEF Reauthenticate, Renewable, locks, tokens, calls
  <2>2. holds' \in [Sessions -> BOOLEAN] /\ \A s \in Sessions : holds'[s] => session[s] = "live"
    BY <2>1 DEF IInv, SessionInv, SessionTypeOK, SessionRecords
  <2>3. SessionTypeOK' BY <2>1, <2>2 DEF IInv, SessionInv, SessionTypeOK, Tokens
  <2>4. \A s \in Sessions : SessionRecords(s)'
    BY <2>1, <2>2 DEF IInv, SessionInv, SessionRecords
  <2>5. \A r \in Refreshes : RefreshRecords(r)' BY <2>1 DEF IInv, SessionInv, RefreshRecords
  <2>6. SessionInv' BY <2>1, <2>3, <2>4, <2>5 DEF IInv, SessionInv, SessionsBounded, Live
  <2> QED BY <1>6, <1>10, <2>6 DEF Reauthenticate
<1>11. ASSUME NEW ack \in Acks, Attempt(m, ack) PROVE IInv' BY <1>11, AttemptKeeps
<1> QED BY <1>3, <1>4, <1>5, <1>7, <1>8, <1>9, <1>10, <1>11 DEF SubmissionStep

-----------------------------------------------------------------------------
(* The invariant, and what follows from it *)

LEMMA Initially == Init => IInv
<1> SUFFICES ASSUME Init PROVE IInv OBVIOUS
<1>1. SessionTypeOK
  BY SessionsAssumption DEF Init, SessionInit, SessionTypeOK, RefreshSteps, Tokens
<1>2. \A s \in Sessions : SessionRecords(s) BY DEF Init, SessionInit, SessionRecords
<1>3. \A r \in Refreshes : RefreshRecords(r)
  BY SessionsAssumption DEF Init, SessionInit, RefreshRecords, Holding
<1>4. SessionsBounded
  <2>1. Live = {} BY DEF Live, Init, SessionInit
  <2> QED BY <2>1, FS_EmptySet, SessionsAssumption DEF SessionsBounded
<1>5. SessionInv BY <1>1, <1>2, <1>3, <1>4 DEF SessionInv
<1>6. TypeOK BY <1>1, ChallengesAssumption DEF Init, TypeOK, SubmissionSteps
<1>7. ASSUME NEW c \in Challenges PROVE ChallengeRecords(c)
  <2>1. Tried(c) = {} /\ Passed(c) = {} BY DEF Init, Tried, Passed
  <2> QED BY <2>1, FS_EmptySet DEF Init, ChallengeRecords
<1> QED BY <1>5, <1>6, <1>7 DEF IInv

LEMMA StepKeeps == IInv /\ [Next]_vars => IInv'
<1> SUFFICES ASSUME IInv, [Next]_vars PROVE IInv' OBVIOUS
<1>1. CASE SessionNext /\ UNCHANGED <<rows, submit>>
  BY <1>1, SessionsKeep, ChallengesRest DEF IInv
<1>2. CASE \E c \in Challenges : ChallengeStep(c) BY <1>2, ChallengeKeeps
<1>3. CASE \E m \in Submissions : SubmissionStep(m) BY <1>3, SubmissionStepKeeps
<1>4. CASE UNCHANGED vars
  <2>1. SessionInv'
    BY <1>4, QuietKeeps DEF IInv, SessionInv, SessionTypeOK, vars, sessionVars, locks, tokens
  <2> QED BY <1>4, <2>1, ChallengesRest DEF vars
<1> QED BY <1>1, <1>2, <1>3, <1>4 DEF Next

THEOREM Inductive == Spec => []IInv
BY Initially, StepKeeps, PTL DEF Spec

\* Every variable keeps to its type, and no challenge is tried more often than allowed.
THEOREM TypeCorrect == Spec => []TypeOK
<1>1. IInv => TypeOK BY DEF IInv
<1> QED BY <1>1, Inductive, PTL

\* Sign-ins, however many arrive together, never exceed the cap on live sessions.
THEOREM CapHolds == Spec => []SessionsBounded
<1>1. IInv => SessionsBounded BY DEF IInv, SessionInv
<1> QED BY <1>1, Inductive, PTL

\* No race of refreshes, re-authentications and revocations leaves credentials behind.
THEOREM NothingLeftBehind == Spec => []RevokedHoldsNothing
<1>1. IInv => RevokedHoldsNothing BY DEF IInv, SessionInv, SessionRecords, RevokedHoldsNothing
<1> QED BY <1>1, Inductive, PTL

\* A refresh that answers that its session expired has seen to it.
THEOREM ExpiryTrue == Spec => []ExpiryIsTrue
<1>1. IInv => ExpiryIsTrue BY DEF IInv, SessionInv, RefreshRecords, ExpiryIsTrue
<1> QED BY <1>1, Inductive, PTL

\* A challenge admits one submission, after a bounded number of tries.
THEOREM SpentOnce == Spec => []ChallengeSpentOnce
<1>1. ASSUME IInv PROVE ChallengeSpentOnce
  <2>1. SUFFICES ASSUME NEW c \in Challenges
                 PROVE  /\ Cardinality(Tried(c)) <= MaxAttempts
                        /\ \A m, n \in Passed(c) : m = n
    BY DEF ChallengeSpentOnce
  <2>2. Cardinality(Tried(c)) <= attempts[c] /\ \A m, n \in Passed(c) : m = n
    BY <1>1 DEF IInv, ChallengeRecords
  <2>3. IsFiniteSet(Tried(c)) BY ChallengesAssumption, FS_Subset DEF Tried
  <2>4. Cardinality(Tried(c)) \in Nat BY <2>3, FS_CardinalityType
  <2>5. attempts[c] \in 0 .. MaxAttempts BY <1>1 DEF IInv, TypeOK
  <2> QED BY <2>2, <2>4, <2>5, ChallengesAssumption
<1>2. IInv => ChallengeSpentOnce BY <1>1
<1> QED BY <1>2, Inductive, PTL

-----------------------------------------------------------------------------
(* The refinement *)

States == [s \in Sessions |-> StateOf(s)]

\* What a live session's tokens say of its place in the abstract chain.
LEMMA StateReads ==
  ASSUME SessionInv, NEW s \in Sessions
  PROVE  /\ session[s] = "absent" <=> States[s] = "none"
         /\ session[s] = "revoked" <=> States[s] = "ended"
         /\ session[s] = "live" => States[s] \in {"ready", "spent"}
         /\ session[s] = "live" => (States[s] = "spent" <=> issued[s] \in spent[s])
         /\ issued[s] \in Nat
<1>1. session[s] \in {"absent", "live", "revoked"} /\ issued[s] \in Nat
  BY DEF SessionInv, SessionTypeOK
<1>2. States[s] = StateOf(s) BY DEF States
<1>3. session[s] = "live" => (Tokens(s) \subseteq spent[s] <=> issued[s] \in spent[s])
  <2>1. SUFFICES ASSUME session[s] = "live"
                 PROVE  1 .. issued[s] \subseteq spent[s] <=> issued[s] \in spent[s]
    BY DEF Tokens
  <2>2. issued[s] >= 1 /\ (spent[s] = 1 .. issued[s] \/ spent[s] = 1 .. (issued[s] - 1))
    BY <2>1 DEF SessionInv, SessionRecords
  <2>3. issued[s] \in 1 .. issued[s] BY <1>1, <2>2
  <2>4. issued[s] \notin 1 .. (issued[s] - 1) BY <1>1
  <2> QED BY <2>2, <2>3, <2>4
<1> QED BY <1>1, <1>2, <1>3 DEF StateOf

\* The new state of a session that looks as before, and of one that ended.
LEMMA StateAgain ==
  ASSUME SessionInv, NEW s \in Sessions, spent'[s] = spent[s], issued'[s] = issued[s]
  PROVE  /\ session'[s] = session[s] => States'[s] = States[s]
         /\ session'[s] = "revoked" => States'[s] = "ended"
<1>1. States'[s] = StateOf(s)' /\ States[s] = StateOf(s) BY DEF States
<1> QED BY <1>1 DEF StateOf, Tokens

LEMMA EndsMap ==
  ASSUME SessionInv, NEW ended, Ends(ended), UNCHANGED <<issued, spent>>
  PROVE  Chain!End(ended \cap Live)
<1>1. \A s \in ended \cap Live : States[s] \in {"ready", "spent"}
  BY StateReads DEF Live
<1>2. \A s \in Sessions : session'[s] = IF s \in ended \cap Live THEN "revoked" ELSE session[s]
  BY DEF Ends
<1>3. \A s \in Sessions : States'[s] = IF s \in ended \cap Live THEN "ended" ELSE States[s]
  BY <1>2, StateAgain
<1>4. States' = [s \in Sessions |-> IF s \in ended \cap Live THEN "ended" ELSE States[s]]
  BY <1>3, Zenon DEF States
<1> QED BY <1>1, <1>4 DEF Chain!End, States

LEMMA SignInMaps ==
  ASSUME SessionInv, SessionInv', NEW s \in Sessions, SignIn(s)
  PROVE  \E drop \in SUBSET Sessions : Chain!Begin(s, drop)
<1>1. PICK drop \in SUBSET Live :
        session' = [e \in Sessions |->
             IF e = s THEN "live" ELSE IF e \in drop THEN "revoked" ELSE session[e]]
  BY DEF SignIn
<1>2. /\ session[s] = "absent" /\ issued' = [issued EXCEPT ![s] = 1] /\ spent' = spent
      /\ \A e \in Sessions \ {s} : issued'[e] = issued[e]
  BY DEF SignIn, SessionInv, SessionTypeOK
<1>3. States[s] = "none" /\ \A e \in drop : States[e] \in {"ready", "spent"}
  BY <1>1, <1>2, StateReads DEF Live
<1>4. States'[s] = "ready"
  <2>1. session'[s] = "live" /\ issued'[s] = 1 BY <1>1, <1>2 DEF SessionInv, SessionTypeOK
  <2>2. spent[s] = {}
    <3>1. issued[s] = 0 BY <1>2 DEF SessionInv, SessionRecords
    <3> QED BY <3>1 DEF SessionInv, SessionTypeOK, Tokens
  <2>3. StateOf(s)' = "ready"
    <3>1. 1 \in 1 .. issued'[s] BY <2>1
    <3> QED BY <2>1, <2>2, <3>1, <1>2 DEF StateOf, Tokens
  <2> QED BY <2>3 DEF States
<1>5. \A e \in Sessions \ {s} : States'[e] = IF e \in drop THEN "ended" ELSE States[e]
  BY <1>1, <1>2, StateAgain
<1>6. States' = [e \in Sessions |->
        IF e = s THEN "ready" ELSE IF e \in drop THEN "ended" ELSE States[e]]
  BY <1>4, <1>5, Zenon DEF States
<1> QED BY <1>1, <1>2, <1>3, <1>6 DEF Chain!Begin, States, Live

LEMMA ConsumeMaps ==
  ASSUME SessionInv, SessionInv', NEW r \in Refreshes, NEW ack \in Acks, Consume(r, ack)
  PROVE  Chain!Spend(SessionOf[r]) \/ UNCHANGED <<States, issued>>
<1> DEFINE s == SessionOf[r]
<1>1. s \in Sessions /\ refresh[r] = "consuming" /\ UNCHANGED <<session, issued>>
  BY SessionsAssumption DEF Consume, At
<1>2. spent' = spent \/ spent' = [spent EXCEPT ![s] = @ \cup {SerialOf[r]}] BY DEF Consume
<1>3. \A e \in Sessions \ {s} : States'[e] = States[e]
  BY <1>1, <1>2, StateAgain DEF SessionInv, SessionTypeOK
<1>4. States'[s] = States[s] \/ (States[s] = "ready" /\ States'[s] = "spent")
  <2>1. CASE spent' = spent BY <2>1, <1>1, StateAgain
  <2>2. CASE session[s] # "live"
    <3>1. StateOf(s)' = StateOf(s) BY <2>2, <1>1 DEF StateOf
    <3> QED BY <3>1, <1>1 DEF States
  <2>3. CASE session[s] = "live" /\ spent' = [spent EXCEPT ![s] = @ \cup {SerialOf[r]}]
    <3>1. SerialOf[r] = issued[s] /\ SerialOf[r] \notin spent[s]
      BY <2>3, <1>1 DEF SessionInv, RefreshRecords, Holding
    <3>2. States[s] = "ready" BY <2>3, <3>1, <1>1, StateReads
    <3>3. issued'[s] \in spent'[s] /\ session'[s] = "live"
      BY <2>3, <3>1, <1>1 DEF SessionInv, SessionTypeOK
    <3>4. 1 .. issued'[s] \subseteq spent'[s]
      <4>1. spent'[s] = 1 .. issued'[s] \/ spent'[s] = 1 .. (issued'[s] - 1)
        BY <1>1, <3>3 DEF SessionInv, SessionRecords
      <4>2. issued'[s] \in Nat BY <1>1 DEF SessionInv, SessionTypeOK
      <4>3. issued'[s] \notin 1 .. (issued'[s] - 1) BY <4>2
      <4> QED BY <4>1, <4>3, <3>3
    <3>5. States'[s] = "spent"
      <4>1. StateOf(s)' = "spent" BY <3>3, <3>4 DEF StateOf, Tokens
      <4> QED BY <4>1, <1>1 DEF States
    <3> QED BY <3>2, <3>5
  <2> QED BY <1>2, <2>1, <2>2, <2>3
<1>5. CASE States'[s] = States[s]
  <2>1. States' = States BY <1>3, <1>5, Zenon DEF States
  <2> QED BY <2>1, <1>1
<1>6. CASE States[s] = "ready" /\ States'[s] = "spent"
  <2>1. States' = [States EXCEPT ![s] = "spent"] BY <1>1, <1>3, <1>6, Zenon DEF States
  <2> QED BY <2>1, <1>1, <1>6 DEF Chain!Spend, Chain!Becomes, States
<1> QED BY <1>4, <1>5, <1>6

LEMMA CommitMaps ==
  ASSUME SessionInv, SessionInv', NEW r \in Refreshes, NEW ack \in Acks, Commit(r, ack)
  PROVE  Chain!Exchange(SessionOf[r]) \/ UNCHANGED <<States, issued>>
<1> DEFINE s == SessionOf[r]
<1>1. s \in Sessions /\ refresh[r] = "committing" /\ UNCHANGED <<session, spent>>
  BY SessionsAssumption DEF Commit, At
<1>2. CASE issued' = issued
  <2>1. States' = States
    <3>1. \A e \in Sessions : States'[e] = States[e] BY <1>1, <1>2, StateAgain
    <3> QED BY <3>1, Zenon DEF States
  <2> QED BY <2>1, <1>2
<1>3. CASE CommitMay(r)
  <2>1. session[s] = "live" /\ issued' = [issued EXCEPT ![s] = issued[s] + 1]
    BY <1>3 DEF CommitMay
  <2>2. issued[s] \in Nat /\ issued'[s] = issued[s] + 1
        /\ \A e \in Sessions \ {s} : issued'[e] = issued[e]
    BY <2>1, <1>1 DEF SessionInv, SessionTypeOK
  <2>3. SerialOf[r] = issued[s] /\ SerialOf[r] \in spent[s]
    BY <2>1, <1>1 DEF SessionInv, RefreshRecords, Holding
  <2>4. States[s] = "spent" BY <2>1, <2>3, <1>1, StateReads
  <2>5. States'[s] = "ready"
    <3>1. issued'[s] \notin spent[s]
      <4>1. spent[s] \subseteq 1 .. issued[s] BY <1>1 DEF SessionInv, SessionTypeOK, Tokens
      <4> QED BY <4>1, <2>2
    <3>2. issued'[s] \in 1 .. issued'[s] BY <2>2
    <3>3. StateOf(s)' = "ready" BY <1>1, <2>1, <3>1, <3>2 DEF StateOf, Tokens
    <3> QED BY <3>3, <1>1 DEF States
  <2>6. \A e \in Sessions \ {s} : States'[e] = States[e] BY <1>1, <2>2, StateAgain
  <2>7. States' = [States EXCEPT ![s] = "ready"] BY <1>1, <2>5, <2>6, Zenon DEF States
  <2> QED BY <2>1, <2>4, <2>7 DEF Chain!Exchange, Chain!Becomes, States
<1> QED BY <1>2, <1>3, CommitDoes

LEMMA Stutters ==
  ASSUME SessionInv, UNCHANGED <<session, issued, spent>> PROVE UNCHANGED <<States, issued>>
<1>1. \A s \in Sessions : States'[s] = States[s] BY StateAgain
<1> QED BY <1>1, Zenon DEF States

LEMMA StepMaps == IInv /\ IInv' /\ [Next]_vars => [Chain!ChainNext]_(Chain!chainVars)
<1> SUFFICES ASSUME IInv, IInv', [Next]_vars PROVE Chain!ChainNext \/ UNCHANGED Chain!chainVars
  OBVIOUS
<1>1. SessionInv /\ SessionInv' BY DEF IInv
<1>2. UNCHANGED <<States, issued>> => UNCHANGED Chain!chainVars
  BY DEF Chain!chainVars, States
<1>3. ASSUME NEW ended, Ends(ended), UNCHANGED <<issued, spent>> PROVE Chain!ChainNext
  <2>1. ended \cap Live \in SUBSET Sessions BY DEF Live
  <2> QED BY <2>1, <1>1, <1>3, EndsMap DEF Chain!ChainNext
<1>4. ASSUME NEW s \in Sessions, SignIn(s) PROVE Chain!ChainNext
  BY <1>1, <1>4, SignInMaps DEF Chain!ChainNext
<1>5. CASE SessionNext
  <2>1. ASSUME NEW s \in Sessions, TimePasses(s) PROVE UNCHANGED Chain!chainVars
    BY <1>1, <1>2, <2>1, Stutters DEF TimePasses, OutlastLock, Expire, OutlastGrace, tokens
  <2>2. ASSUME NEW r \in Refreshes, RefreshStep(r)
        PROVE Chain!ChainNext \/ UNCHANGED Chain!chainVars
    <3>0. SessionOf[r] \in Sessions BY SessionsAssumption
    <3>1. CASE Present(r) \/ Exchange(r) \/ Check(r)
      BY <1>1, <1>2, <3>1, Stutters DEF Present, Exchange, Check, tokens
    <3>2. ASSUME NEW ack \in Acks, Claim(r, ack) PROVE UNCHANGED Chain!chainVars
      BY <1>1, <1>2, <3>2, Stutters DEF Claim, tokens
    <3>3. ASSUME NEW ack \in Acks, Consume(r, ack)
          PROVE Chain!ChainNext \/ UNCHANGED Chain!chainVars
      BY <1>1, <1>2, <3>0, <3>3, ConsumeMaps DEF Chain!ChainNext
    <3>4. ASSUME NEW ack \in Acks, Commit(r, ack)
          PROVE Chain!ChainNext \/ UNCHANGED Chain!chainVars
      BY <1>1, <1>2, <3>0, <3>4, CommitMaps DEF Chain!ChainNext
    <3>5. ASSUME NEW ack \in Acks, GiveUp(r, ack) PROVE Chain!ChainNext
      BY <1>3, <3>5 DEF GiveUp, tokens
    <3> QED BY <2>2, <3>1, <3>2, <3>3, <3>4, <3>5 DEF RefreshStep
  <2>3. CASE Revocation
    BY <1>3, <2>3 DEF Revocation, Revoke, RevokeAll, CleanSessions, tokens
  <2> QED BY <1>4, <1>5, <2>1, <2>2, <2>3 DEF SessionNext
<1>6. ASSUME NEW c \in Challenges, ChallengeStep(c) PROVE UNCHANGED Chain!chainVars
  BY <1>1, <1>2, <1>6, Stutters
  DEF ChallengeStep, Open, InsertChallenge, Lapse, CleanChallenge, sessionVars, tokens
<1>7. ASSUME NEW m \in Submissions, SubmissionStep(m)
      PROVE Chain!ChainNext \/ UNCHANGED Chain!chainVars
  <2>1. CASE Verify(m) \/ Fails(m) \/ \E ack \in Acks :
               Attempt(m, ack) \/ Exhaust(m, ack) \/ Redeem(m, ack)
    BY <1>1, <1>2, <2>1, Stutters
    DEF Verify, Fails, Attempt, Exhaust, Redeem, sessionVars, tokens
  <2>2. CASE EnterSession(m) BY <1>4, <2>2, ChallengesAssumption DEF EnterSession
  <2>3. CASE Reauthenticate(m) BY <1>1, <1>2, <2>3, Stutters DEF Reauthenticate, tokens
  <2>4. CASE Enroll(m) BY <1>3, <2>4 DEF Enroll, tokens
  <2> QED BY <1>7, <2>1, <2>2, <2>3, <2>4 DEF SubmissionStep
<1>8. CASE UNCHANGED vars BY <1>1, <1>2, <1>8, Stutters DEF vars, sessionVars, tokens
<1> QED BY <1>5, <1>6, <1>7, <1>8 DEF Next

\* The sessions of the account are rotating token chains.
THEOREM SessionsAreChains == Spec => ImplementsTokenChain
<1>1. Init => Chain!ChainInit
  BY DEF Init, SessionInit, Chain!ChainInit, StateOf
<1> QED BY <1>1, StepMaps, Inductive, PTL DEF Spec, ImplementsTokenChain, Chain!ChainSpec
=============================================================================
