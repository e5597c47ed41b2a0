--------------------------- MODULE AgentRunsProofs ---------------------------
(***************************************************************************)
(* Proofs about AgentRuns for any number of requests, owners, deliveries   *)
(* and any cap.  A consumer's many steps are first abstracted to what one  *)
(* of them may do to its run (ConsumerMay); the inductive invariant then   *)
(* ties the place of the one working consumer to the hold, the provider    *)
(* and the run.                                                            *)
(***************************************************************************)
EXTENDS AgentRuns, FiniteSetTheorems, TLAPS

Holds == {"absent", "held", "settled", "released"} \cup InDispatch

\* What is known of a run wherever its consumer stands.
RunRecords(c) ==
  /\ \A d, e \in DeliveriesOf[c] :
       worker[c][d] \in Working /\ worker[c][e] \in Working => d = e
  /\ \A d \in DeliveriesOf[c] :
       /\ worker[c][d] \in Working => status[c] \notin {"absent", "queued"}
       /\ worker[c][d] \in BeforeDispatch => provider[c] = "none"
       /\ worker[c][d] = "posting" => provider[c] = "none" /\ hold[c] \in InDispatch
       /\ worker[c][d] = "returning" => provider[c] = "rejected"
       /\ worker[c][d] = "settling" => provider[c] = "billed"
       /\ worker[c][d] = "completing" => hold[c] = "settled"

\* What the provider knows bounds what may have become of the hold.
HoldRecords(c) ==
  /\ provider[c] = "none" => hold[c] # "settled"
  /\ provider[c] = "posted" => hold[c] \in InDispatch
  /\ provider[c] = "rejected" => hold[c] \in InDispatch \cup {"released"}
  /\ provider[c] = "billed" => hold[c] \in InDispatch \cup {"settled"}
  /\ status[c] = "completed" => hold[c] = "settled"
  /\ status[c] \in {"absent", "queued"} => provider[c] = "none"

IInv == TypeOK /\ \A c \in Calls : RunRecords(c) /\ HoldRecords(c)

-----------------------------------------------------------------------------
(* What a step may do *)

SameRun(b) ==
  /\ status'[b] = status[b] /\ worker'[b] = worker[b]
  /\ hold'[b] = hold[b] /\ provider'[b] = provider[b]

OnlyRun(c) == \A b \in Calls \ {c} : SameRun(b)

ClaimMay(c, d) ==
  /\ worker[c][d] \in Claiming /\ hold'[c] = hold[c] /\ provider'[c] = provider[c]
  /\ \/ /\ worker'[c][d] \in Claiming
        /\ \/ status'[c] = status[c]
           \/ status[c] = "queued" /\ status'[c] \in {"planning", "expired"}
     \/ worker'[c][d] = "claimed" /\ status[c] = "queued" /\ status'[c] = "planning"

PrepareMay(c, d) ==
  /\ worker[c][d] \in BeforeDispatch /\ provider'[c] = provider[c]
  /\ \/ status'[c] = status[c]
     \/ status[c] = "planning" /\ status'[c] \in {"running", "failed"}
  /\ \/ /\ worker'[c][d] \in BeforeDispatch \cup {"failing", "over"}
        /\ \/ hold'[c] = hold[c]
           \/ hold[c] = "absent" /\ hold'[c] = "held"
           \/ hold[c] = "held" /\ hold'[c] \in {"released", "started"}
     \/ worker'[c][d] = "posting" /\ hold[c] = "held" /\ hold'[c] = "started"

PostMay(c, d) ==
  /\ worker[c][d] = "posting" /\ worker'[c][d] = "waiting"
  /\ provider'[c] = "posted" /\ hold'[c] = hold[c] /\ status'[c] = status[c]

FinishMay(c, d) ==
  /\ worker[c][d] \in AfterDispatch \ {"posting"} /\ provider'[c] = provider[c]
  /\ worker'[c][d] \in (AfterDispatch \ {"posting", "waiting"}) \cup {"failing", "over"}
  /\ worker'[c][d] = "returning" => provider[c] = "rejected"
  /\ worker'[c][d] = "settling" => provider[c] = "billed"
  /\ worker'[c][d] = "completing" => hold'[c] = "settled"
  /\ \/ status'[c] = status[c]
     \/ status[c] = "running" /\ status'[c] = "failed"
     \/ /\ worker[c][d] = "completing" /\ status[c] = "running"
        /\ status'[c] = "completed" /\ hold'[c] = hold[c]
  /\ \/ hold'[c] = hold[c]
     \/ hold[c] = "started" /\ hold'[c] = "unknown"
     \/ worker[c][d] = "returning" /\ hold[c] \in {"held"} \cup InDispatch /\ hold'[c] = "released"
     \/ worker[c][d] = "settling" /\ hold[c] \in InDispatch /\ hold'[c] = "settled"

FailMay(c, d) ==
  /\ worker[c][d] = "failing" /\ worker'[c][d] = "over"
  /\ hold'[c] = hold[c] /\ provider'[c] = provider[c]
  /\ status'[c] = status[c] \/ (status[c] \in {"planning", "running"} /\ status'[c] = "failed")

ConsumerMay(c, d) ==
  ClaimMay(c, d) \/ PrepareMay(c, d) \/ PostMay(c, d) \/ FinishMay(c, d) \/ FailMay(c, d)

\* The rest of the state keeps its type, and no other run or delivery moves.
OnlyDelivery(c, d) ==
  /\ TypeOK' /\ OnlyRun(c)
  /\ \A e \in DeliveriesOf[c] \ {d} : worker'[c][e] = worker[c][e]

-----------------------------------------------------------------------------
(* Types *)

LEMMA Moves ==
  ASSUME TypeOK, NEW c \in Calls, NEW d \in DeliveriesOf[c],
         NEW pc \in Claiming \cup Working, Goes(c, d, pc)
  PROVE  /\ DOMAIN worker' = Calls
         /\ \A b \in Calls : worker'[b] \in [DeliveriesOf[b] -> Claiming \cup Working]
         /\ worker'[c][d] = pc
         /\ \A b \in Calls \ {c} : worker'[b] = worker[b]
         /\ \A e \in DeliveriesOf[c] \ {d} : worker'[c][e] = worker[c][e]
<1>1. DOMAIN worker = Calls /\ \A b \in Calls : worker[b] \in [DeliveriesOf[b] -> Claiming \cup Working]
  BY DEF TypeOK
<1>2. worker' = [worker EXCEPT ![c] = [worker[c] EXCEPT ![d] = pc]]
  BY DEF Goes
<1>. QED BY <1>1, <1>2

LEMMA StatusMoves ==
  ASSUME TypeOK, NEW c \in Calls, NEW s \in {"absent"} \cup Active \cup Ended,
         status' = [status EXCEPT ![c] = s]
  PROVE  /\ status' \in [Calls -> {"absent"} \cup Active \cup Ended]
         /\ status'[c] = s /\ \A b \in Calls \ {c} : status'[b] = status[b]
  BY DEF TypeOK

LEMMA HoldMoves ==
  ASSUME TypeOK, NEW c \in Calls, NEW h \in Holds, hold' = [hold EXCEPT ![c] = h]
  PROVE  /\ hold' \in [Calls -> Holds]
         /\ hold'[c] = h /\ \A b \in Calls \ {c} : hold'[b] = hold[b]
  BY DEF TypeOK, Holds

\* A step of a consumer that writes the run, and one that writes the hold.
LEMMA WritesRun ==
  ASSUME TypeOK, NEW c \in Calls, NEW d \in DeliveriesOf[c],
         NEW s \in {"absent"} \cup Active \cup Ended, NEW pc \in Claiming \cup Working,
         status' = [status EXCEPT ![c] = s], Goes(c, d, pc),
         UNCHANGED <<create, stale, sent, money, provider>>
  PROVE  /\ OnlyDelivery(c, d) /\ worker'[c][d] = pc
         /\ status'[c] = s /\ hold'[c] = hold[c] /\ provider'[c] = provider[c]
  BY Moves, StatusMoves DEF TypeOK, OnlyDelivery, OnlyRun, SameRun, money

LEMMA WritesHold ==
  ASSUME TypeOK, NEW c \in Calls, NEW d \in DeliveriesOf[c],
         NEW h \in Holds, NEW pc \in Claiming \cup Working,
         hold' = [hold EXCEPT ![c] = h], Goes(c, d, pc), billing' \in BOOLEAN,
         UNCHANGED <<runs, expired, provider>>
  PROVE  /\ OnlyDelivery(c, d) /\ worker'[c][d] = pc
         /\ status'[c] = status[c] /\ hold'[c] = h /\ provider'[c] = provider[c]
  BY Moves, HoldMoves DEF TypeOK, OnlyDelivery, OnlyRun, SameRun, runs, Holds

LEMMA Kept ==
  ASSUME TypeOK, NEW c \in Calls
  PROVE  /\ hold[c] \in Holds /\ hold = [hold EXCEPT ![c] = hold[c]]
         /\ status[c] \in {"absent"} \cup Active \cup Ended
         /\ status = [status EXCEPT ![c] = status[c]]
         /\ billing \in BOOLEAN
  BY DEF TypeOK, Holds

-----------------------------------------------------------------------------
(* What each step of a consumer does *)

LEMMA ReceiveDoes ==
  ASSUME TypeOK, NEW c \in Calls, NEW d \in DeliveriesOf[c], Receive(c, d)
  PROVE  OnlyDelivery(c, d) /\ ClaimMay(c, d)
<1>1. PICK pc \in {"claiming", "acked"} : Goes(c, d, pc)
  BY DEF Receive
<1>2. /\ pc \in Claiming /\ worker[c][d] \in Claiming
      /\ UNCHANGED <<runs, money, provider>>
  BY DEF Receive, At, Claiming
<1>. QED BY <1>1, <1>2, Kept, WritesRun DEF ClaimMay, runs

LEMMA ClaimDoes ==
  ASSUME TypeOK, NEW c \in Calls, NEW d \in DeliveriesOf[c], NEW ack \in Acks,
         Claim(c, d, ack) \/ ExpireStale(c, d, ack)
  PROVE  OnlyDelivery(c, d) /\ ClaimMay(c, d)
<1>0. /\ status[c] \in {"absent"} \cup Active \cup Ended
      /\ worker[c][d] \in Claiming
  BY DEF TypeOK, Claim, ExpireStale, At, Claiming
<1>1. CASE Claim(c, d, ack)
  <2>. DEFINE s == IF Claimable(c) /\ Written(ack) THEN "planning" ELSE status[c]
              pc == CASE Confirmed(Claimable(c), ack) -> "claimed"
                      [] ~Claimable(c) /\ ack = "done" -> "expiring"
                      [] OTHER -> "acked"
  <2>1. /\ status' = [status EXCEPT ![c] = s] /\ Goes(c, d, pc)
        /\ UNCHANGED <<create, stale, sent, money, provider>>
    BY <1>1 DEF Claim
  <2>2. /\ s \in {"absent"} \cup Active \cup Ended
        /\ s = status[c] \/ (status[c] = "queued" /\ s = "planning")
    BY <1>0 DEF Claimable, Active
  <2>3. pc \in {"expiring", "acked"} \/ (pc = "claimed" /\ status[c] = "queued" /\ s = "planning")
    BY DEF Confirmed, Claimable, Written
  <2>4. pc \in Claiming \cup Working
    BY <2>3 DEF Claiming, Working, BeforeDispatch
  <2>. HIDE DEF s, pc
  <2>5. /\ OnlyDelivery(c, d) /\ worker'[c][d] = pc
        /\ status'[c] = s /\ hold'[c] = hold[c] /\ provider'[c] = provider[c]
    BY <2>1, <2>2, <2>4, WritesRun
  <2>. QED
    BY <1>0, <2>2, <2>3, <2>5 DEF ClaimMay, Claiming
<1>2. CASE ExpireStale(c, d, ack)
  <2>. DEFINE s == IF status[c] = "queued" /\ stale[c] /\ Written(ack) THEN "expired" ELSE status[c]
  <2>1. /\ status' = [status EXCEPT ![c] = s] /\ Goes(c, d, "acked")
        /\ UNCHANGED <<create, stale, sent, money, provider>>
    BY <1>2 DEF ExpireStale
  <2>2. /\ s \in {"absent"} \cup Active \cup Ended
        /\ s = status[c] \/ (status[c] = "queued" /\ s = "expired")
    BY <1>0 DEF Ended
  <2>3. "acked" \in Claiming
    BY DEF Claiming
  <2>. HIDE DEF s
  <2>4. /\ OnlyDelivery(c, d) /\ worker'[c][d] = "acked"
        /\ status'[c] = s /\ hold'[c] = hold[c] /\ provider'[c] = provider[c]
    BY <2>1, <2>2, <2>3, WritesRun
  <2>. QED
    BY <1>0, <2>2, <2>3, <2>4 DEF ClaimMay
<1>. QED BY <1>1, <1>2

\* Steps that only look: what they decide is the next place.
LEMMA LooksOn ==
  ASSUME TypeOK, NEW c \in Calls, NEW d \in DeliveriesOf[c],
         ReadClaimed(c, d) \/ Post(c, d) \/ LoseAnswer(c, d) \/ Hear(c, d)
  PROVE  OnlyDelivery(c, d) /\ ConsumerMay(c, d)
<1>1. CASE ReadClaimed(c, d)
  <2>1. PICK pc \in {"budgeting", "over"} : Goes(c, d, pc)
    BY <1>1 DEF ReadClaimed
  <2>2. /\ worker[c][d] \in BeforeDispatch /\ pc \in BeforeDispatch \cup {"failing", "over"}
        /\ pc \in Claiming \cup Working /\ UNCHANGED <<runs, money, provider>>
    BY <1>1 DEF ReadClaimed, At, BeforeDispatch, Working
  <2>. QED BY <2>1, <2>2, Kept, WritesRun DEF ConsumerMay, PrepareMay, runs
<1>2. CASE Post(c, d)
  <2>1. /\ worker[c][d] = "posting" /\ Goes(c, d, "waiting") /\ UNCHANGED <<runs, money>>
        /\ provider' = [provider EXCEPT ![c] = "posted"] /\ "waiting" \in Claiming \cup Working
    BY <1>2 DEF Post, At, Working, AfterDispatch
  <2>2. /\ provider' \in [Calls -> {"none", "posted", "rejected", "billed"}]
        /\ provider'[c] = "posted" /\ \A b \in Calls \ {c} : provider'[b] = provider[b]
    BY <2>1 DEF TypeOK
  <2>. QED
    BY <2>1, <2>2, Moves
       DEF TypeOK, OnlyDelivery, OnlyRun, SameRun, ConsumerMay, PostMay, runs, money
<1>3. CASE LoseAnswer(c, d) \/ Hear(c, d)
  <2>1. PICK pc \in {"doubting", "stopping", "returning", "settling"} :
          /\ Goes(c, d, pc)
          /\ pc = "returning" => provider[c] = "rejected"
          /\ pc = "settling" => provider[c] = "billed"
    BY <1>3 DEF LoseAnswer, Hear
  <2>2. /\ worker[c][d] \in AfterDispatch \ {"posting"} /\ pc \in Claiming \cup Working
        /\ pc \in AfterDispatch \ {"posting", "waiting"} /\ pc # "completing"
        /\ UNCHANGED <<runs, money, provider>>
    BY <1>3 DEF LoseAnswer, Hear, At, AfterDispatch, Working
  <2>. QED BY <2>1, <2>2, Kept, WritesRun DEF ConsumerMay, FinishMay, runs
<1>. QED BY <1>1, <1>2, <1>3

LEMMA PreparesHold ==
  ASSUME TypeOK, NEW c \in Calls, NEW d \in DeliveriesOf[c], NEW ack \in Acks,
         Reserve(c, d, ack) \/ Release(c, d, ack) \/ BeginDispatch(c, d, ack) \/ Undo(c, d, ack)
  PROVE  OnlyDelivery(c, d) /\ PrepareMay(c, d)
<1>1. PICK h, pc :
        /\ hold' = [hold EXCEPT ![c] = h] /\ Goes(c, d, pc)
        /\ UNCHANGED <<runs, expired, billing, provider>> /\ worker[c][d] \in BeforeDispatch
        /\ \/ /\ pc \in BeforeDispatch \cup {"failing", "over"}
              /\ \/ h = hold[c]
                 \/ hold[c] = "absent" /\ h = "held"
                 \/ hold[c] = "held" /\ h \in {"released", "started"}
           \/ pc = "posting" /\ hold[c] = "held" /\ h = "started"
  <2>1. CASE Reserve(c, d, ack)
    <3>. DEFINE h == IF hold[c] = "absent" /\ billing /\ Written(ack) THEN "held" ELSE hold[c]
    <3>1. hold' = [hold EXCEPT ![c] = h] /\ worker[c][d] \in BeforeDispatch
      BY <2>1 DEF Reserve, At, BeforeDispatch
    <3>2. PICK pc \in BeforeDispatch \cup {"failing"} : Goes(c, d, pc)
      BY <2>1 DEF Reserve, BeforeDispatch
    <3>. QED BY <2>1, <3>1, <3>2 DEF Reserve
  <2>2. CASE Release(c, d, ack) \/ Undo(c, d, ack)
    <3>. DEFINE h == IF hold[c] = "held" /\ Written(ack) THEN "released" ELSE hold[c]
    <3>1. hold' = [hold EXCEPT ![c] = h] /\ worker[c][d] \in BeforeDispatch
      BY <2>2 DEF Release, Undo, Undispatched, At, BeforeDispatch
    <3>2. PICK pc \in BeforeDispatch \cup {"failing", "over"} : Goes(c, d, pc)
      BY <2>2 DEF Release, Undo, AfterRelease, BeforeDispatch
    <3>. QED BY <2>2, <3>1, <3>2 DEF Release, Undo
  <2>3. CASE BeginDispatch(c, d, ack)
    <3>. DEFINE accepted == hold[c] = "held" /\ billing /\ ~expired[c]
                h == IF accepted /\ Written(ack) THEN "started" ELSE hold[c]
                pc == IF Confirmed(accepted, ack) THEN "posting" ELSE "undoing"
    <3>1. hold' = [hold EXCEPT ![c] = h] /\ worker[c][d] \in BeforeDispatch /\ Goes(c, d, pc)
      BY <2>3 DEF BeginDispatch, At, BeforeDispatch
    <3>2. \/ pc = "undoing" /\ (h = hold[c] \/ (hold[c] = "held" /\ h = "started"))
          \/ pc = "posting" /\ hold[c] = "held" /\ h = "started"
      BY DEF Confirmed, Written
    <3>3. "undoing" \in BeforeDispatch
      BY DEF BeforeDispatch
    <3>. HIDE DEF h, pc
    <3>. QED BY <2>3, <3>1, <3>2, <3>3 DEF BeginDispatch
  <2>. QED BY <2>1, <2>2, <2>3
<1>2. h \in Holds /\ pc \in Claiming \cup Working /\ billing' \in BOOLEAN
  BY <1>1, Kept DEF Holds, InDispatch, Working, AfterDispatch
<1>3. /\ OnlyDelivery(c, d) /\ worker'[c][d] = pc
      /\ status'[c] = status[c] /\ hold'[c] = h /\ provider'[c] = provider[c]
  BY <1>1, <1>2, WritesHold
<1>. QED BY <1>1, <1>3 DEF PrepareMay

LEMMA PreparesRun ==
  ASSUME TypeOK, NEW c \in Calls, NEW d \in DeliveriesOf[c], NEW ack \in Acks,
         Close(c, d, ack) \/ Activate(c, d, ack)
  PROVE  OnlyDelivery(c, d) /\ PrepareMay(c, d)
<1>1. PICK s \in {"running", "failed"} :
        status' = [status EXCEPT ![c] = IF status[c] = "planning" /\ Written(ack) THEN s ELSE status[c]]
  BY DEF Close, Activate, Marks
<1>2. PICK pc \in {"failing", "over", "starting", "withdrawing", "undoing"} : Goes(c, d, pc)
  BY DEF Close, Activate, AfterEnding
<1>3. /\ worker[c][d] \in BeforeDispatch /\ UNCHANGED <<create, stale, sent, money, provider>>
      /\ pc \in BeforeDispatch \cup {"failing", "over"} /\ pc \in Claiming \cup Working
  BY DEF Close, Activate, At, BeforeDispatch, Working
<1>. DEFINE t == IF status[c] = "planning" /\ Written(ack) THEN s ELSE status[c]
<1>4. /\ t \in {"absent"} \cup Active \cup Ended
      /\ t = status[c] \/ (status[c] = "planning" /\ t \in {"running", "failed"})
  BY Kept DEF Active, Ended
<1>5. status' = [status EXCEPT ![c] = t]
  BY <1>1
<1>. HIDE DEF t
<1>6. /\ OnlyDelivery(c, d) /\ worker'[c][d] = pc
      /\ status'[c] = t /\ hold'[c] = hold[c] /\ provider'[c] = provider[c]
  BY <1>2, <1>3, <1>4, <1>5, WritesRun
<1>. QED BY <1>3, <1>4, <1>6 DEF PrepareMay

LEMMA FinishesHold ==
  ASSUME TypeOK, NEW c \in Calls, NEW d \in DeliveriesOf[c], NEW ack \in Acks,
         ReturnRejected(c, d, ack) \/ StopBilling(c, d, ack) \/ Doubt(c, d, ack) \/ Settle(c, d, ack)
  PROVE  OnlyDelivery(c, d) /\ FinishMay(c, d)
<1>1. PICK h, pc :
        /\ hold' = [hold EXCEPT ![c] = h] /\ Goes(c, d, pc)
        /\ pc \in (AfterDispatch \ {"posting", "waiting", "returning", "settling"}) \cup {"failing", "over"}
        /\ pc = "completing" => h = "settled"
        /\ \/ h = hold[c]
           \/ hold[c] = "started" /\ h = "unknown"
           \/ worker[c][d] = "returning" /\ hold[c] \in {"held"} \cup InDispatch /\ h = "released"
           \/ worker[c][d] = "settling" /\ hold[c] \in InDispatch /\ h = "settled"
  <2>1. CASE ReturnRejected(c, d, ack)
    <3>. DEFINE h == IF hold[c] \in {"held"} \cup InDispatch /\ Written(ack) THEN "released" ELSE hold[c]
    <3>1. hold' = [hold EXCEPT ![c] = h] /\ worker[c][d] = "returning"
      BY <2>1 DEF ReturnRejected, At
    <3>2. PICK pc \in {"rejecting", "doubtingAgain"} : Goes(c, d, pc)
      BY <2>1 DEF ReturnRejected
    <3>. QED BY <3>1, <3>2 DEF AfterDispatch
  <2>2. CASE StopBilling(c, d, ack)
    BY <2>2, Kept DEF StopBilling, AfterDispatch
  <2>3. CASE Doubt(c, d, ack)
    <3>. DEFINE h == IF Written(ack) THEN InDoubt(hold[c]) ELSE hold[c]
    <3>1. hold' = [hold EXCEPT ![c] = h]
      BY <2>3 DEF Doubt
    <3>2. PICK pc \in {"markingUncertain", "markingContract", "failing", "doubtingAgain", "over"} :
            Goes(c, d, pc)
      BY <2>3 DEF Doubt, AfterDoubt
    <3>. QED BY <3>1, <3>2 DEF AfterDispatch, InDoubt
  <2>4. CASE Settle(c, d, ack)
    <3>. DEFINE open == hold[c] \in InDispatch
                h == IF open /\ Written(ack) THEN "settled" ELSE hold[c]
                pc == IF Confirmed(open, ack) THEN "completing" ELSE "doubtingAgain"
    <3>1. hold' = [hold EXCEPT ![c] = h] /\ Goes(c, d, pc) /\ worker[c][d] = "settling"
      BY <2>4 DEF Settle, At
    <3>2. /\ pc \in {"completing", "doubtingAgain"} /\ (pc = "completing" => h = "settled")
          /\ h = hold[c] \/ (hold[c] \in InDispatch /\ h = "settled")
      BY DEF Confirmed, Written
    <3>. HIDE DEF h, pc
    <3>. QED BY <3>1, <3>2 DEF AfterDispatch
  <2>. QED BY <2>1, <2>2, <2>3, <2>4
<1>2. /\ worker[c][d] \in AfterDispatch \ {"posting"}
      /\ billing' \in BOOLEAN /\ UNCHANGED <<runs, expired, provider>>
  BY Kept DEF ReturnRejected, StopBilling, Doubt, Settle, At, AfterDispatch
<1>3. h \in Holds /\ pc \in Claiming \cup Working
  BY <1>1, Kept DEF Holds, InDispatch, Working
<1>4. /\ OnlyDelivery(c, d) /\ worker'[c][d] = pc
      /\ status'[c] = status[c] /\ hold'[c] = h /\ provider'[c] = provider[c]
  BY <1>1, <1>2, <1>3, WritesHold
<1>. QED BY <1>1, <1>2, <1>4 DEF FinishMay

LEMMA FinishesRun ==
  ASSUME TypeOK, NEW c \in Calls, NEW d \in DeliveriesOf[c], NEW ack \in Acks,
         MarkRejected(c, d, ack) \/ MarkDoubtful(c, d, ack) \/ Complete(c, d, ack)
  PROVE  OnlyDelivery(c, d) /\ FinishMay(c, d)
<1>1. PICK s \in {"failed", "completed"} :
        /\ status' = [status EXCEPT ![c] = IF status[c] = "running" /\ Written(ack) THEN s ELSE status[c]]
        /\ s = "completed" => worker[c][d] = "completing"
  BY DEF MarkRejected, MarkDoubtful, Complete, Marks, At
<1>2. PICK pc \in {"failing", "over", "doubtingAgain"} : Goes(c, d, pc)
  BY DEF MarkRejected, MarkDoubtful, Complete, AfterEnding
<1>3. /\ worker[c][d] \in AfterDispatch \ {"posting"}
      /\ UNCHANGED <<create, stale, sent, money, provider>>
  BY DEF MarkRejected, MarkDoubtful, Complete, At, AfterDispatch
<1>4. pc \in (AfterDispatch \ {"posting", "waiting"}) \cup {"failing", "over"} /\ pc \in Claiming \cup Working
  BY DEF AfterDispatch, Working
<1>. DEFINE t == IF status[c] = "running" /\ Written(ack) THEN s ELSE status[c]
<1>5. /\ t \in {"absent"} \cup Active \cup Ended
      /\ \/ t = status[c]
         \/ status[c] = "running" /\ t = "failed"
         \/ worker[c][d] = "completing" /\ status[c] = "running" /\ t = "completed"
  BY <1>1, Kept DEF Ended
<1>6. status' = [status EXCEPT ![c] = t]
  BY <1>1
<1>. HIDE DEF t
<1>7. /\ OnlyDelivery(c, d) /\ worker'[c][d] = pc
      /\ status'[c] = t /\ hold'[c] = hold[c] /\ provider'[c] = provider[c]
  BY <1>2, <1>3, <1>4, <1>5, <1>6, WritesRun
<1>. QED BY <1>2, <1>3, <1>4, <1>5, <1>7 DEF FinishMay

LEMMA FailDoes ==
  ASSUME TypeOK, NEW c \in Calls, NEW d \in DeliveriesOf[c], NEW ack \in Acks, Fail(c, d, ack)
  PROVE  OnlyDelivery(c, d) /\ FailMay(c, d)
<1>. DEFINE t == IF status[c] \in {"planning", "running"} /\ Written(ack) THEN "failed" ELSE status[c]
<1>1. /\ status' = [status EXCEPT ![c] = t] /\ Goes(c, d, "over") /\ worker[c][d] = "failing"
      /\ UNCHANGED <<create, stale, sent, money, provider>> /\ "over" \in Claiming \cup Working
  BY DEF Fail, Marks, Failable, At, Working
<1>2. /\ t \in {"absent"} \cup Active \cup Ended
      /\ t = status[c] \/ (status[c] \in {"planning", "running"} /\ t = "failed")
  BY Kept DEF Ended
<1>. HIDE DEF t
<1>3. /\ OnlyDelivery(c, d) /\ worker'[c][d] = "over"
      /\ status'[c] = t /\ hold'[c] = hold[c] /\ provider'[c] = provider[c]
  BY <1>1, <1>2, WritesRun
<1>. QED BY <1>1, <1>2, <1>3 DEF FailMay

LEMMA ConsumerDoes ==
  ASSUME TypeOK, NEW c \in Calls, NEW d \in DeliveriesOf[c], Consumer(c, d)
  PROVE  OnlyDelivery(c, d) /\ ConsumerMay(c, d)
<1>1. CASE Receive(c, d) \/ \E ack \in Acks : Claim(c, d, ack) \/ ExpireStale(c, d, ack)
  BY <1>1, ReceiveDoes, ClaimDoes DEF ConsumerMay
<1>2. CASE ReadClaimed(c, d) \/ Post(c, d) \/ LoseAnswer(c, d) \/ Hear(c, d)
  BY <1>2, LooksOn
<1>3. ASSUME NEW ack \in Acks,
             \/ Reserve(c, d, ack) \/ Release(c, d, ack) \/ BeginDispatch(c, d, ack) \/ Undo(c, d, ack)
             \/ Close(c, d, ack) \/ Activate(c, d, ack)
      PROVE  OnlyDelivery(c, d) /\ ConsumerMay(c, d)
  BY <1>3, PreparesHold, PreparesRun DEF ConsumerMay
<1>4. ASSUME NEW ack \in Acks,
             \/ ReturnRejected(c, d, ack) \/ StopBilling(c, d, ack) \/ Doubt(c, d, ack)
             \/ Settle(c, d, ack) \/ MarkRejected(c, d, ack) \/ MarkDoubtful(c, d, ack)
             \/ Complete(c, d, ack) \/ Fail(c, d, ack)
      PROVE  OnlyDelivery(c, d) /\ ConsumerMay(c, d)
  BY <1>4, FinishesHold, FinishesRun, FailDoes DEF ConsumerMay
<1>. QED BY <1>1, <1>2, <1>3, <1>4 DEF Consumer

-----------------------------------------------------------------------------
(* The inductive invariant *)

LEMMA SameKeeps ==
  ASSUME NEW b \in Calls, SameRun(b), RunRecords(b), HoldRecords(b)
  PROVE  RunRecords(b)' /\ HoldRecords(b)'
  BY DEF SameRun, RunRecords, HoldRecords

\* The other deliveries of a run keep their part when the working one moves.
LEMMA ClaimKeeps ==
  ASSUME NEW c \in Calls, NEW d \in DeliveriesOf[c], RunRecords(c), HoldRecords(c),
         OnlyDelivery(c, d), ClaimMay(c, d)
  PROVE  RunRecords(c)' /\ HoldRecords(c)'
<1>1. worker[c][d] \notin Working /\ "claimed" \in BeforeDispatch \cap Working
      /\ \A pc \in Claiming : pc \notin Working /\ pc \notin BeforeDispatch
  BY DEF ClaimMay, Claiming, Working, BeforeDispatch, AfterDispatch
<1>2. CASE worker'[c][d] \in Claiming
  <2>1. worker'[c][d] \notin {"posting", "returning", "settling", "completing"}
    BY <1>2 DEF Claiming
  <2>. QED BY <1>1, <1>2, <2>1 DEF OnlyDelivery, ClaimMay, RunRecords, HoldRecords
<1>3. CASE worker'[c][d] = "claimed" /\ status[c] = "queued" /\ status'[c] = "planning"
  BY <1>1, <1>3 DEF OnlyDelivery, ClaimMay, RunRecords, HoldRecords
<1>. QED BY <1>2, <1>3, <1>1 DEF ClaimMay

\* A working delivery is the only one, so the others have nothing to keep.
LEMMA WorkKeeps ==
  ASSUME NEW c \in Calls, NEW d \in DeliveriesOf[c], RunRecords(c), OnlyDelivery(c, d),
         worker[c][d] \in Working, worker'[c][d] \in Working,
         status'[c] \notin {"absent", "queued"},
         worker'[c][d] \in BeforeDispatch => provider'[c] = "none",
         worker'[c][d] = "posting" => provider'[c] = "none" /\ hold'[c] \in InDispatch,
         worker'[c][d] = "returning" => provider'[c] = "rejected",
         worker'[c][d] = "settling" => provider'[c] = "billed",
         worker'[c][d] = "completing" => hold'[c] = "settled"
  PROVE  RunRecords(c)'
<1>1. \A e \in DeliveriesOf[c] \ {d} : worker'[c][e] \notin Working
  BY DEF RunRecords, OnlyDelivery
<1>2. BeforeDispatch \subseteq Working /\ {"posting", "returning", "settling", "completing"} \subseteq Working
  BY DEF Working, AfterDispatch
<1>. QED BY <1>1, <1>2 DEF RunRecords

LEMMA ConsumerKeeps ==
  ASSUME TypeOK, NEW c \in Calls, NEW d \in DeliveriesOf[c], RunRecords(c), HoldRecords(c),
         OnlyDelivery(c, d), ConsumerMay(c, d)
  PROVE  RunRecords(c)' /\ HoldRecords(c)'
<1>1. CASE ClaimMay(c, d)
  BY <1>1, ClaimKeeps
<1>2. CASE PrepareMay(c, d)
  <2>1. worker[c][d] \in Working /\ status[c] \notin {"absent", "queued"} /\ provider[c] = "none"
    BY <1>2 DEF PrepareMay, Working, RunRecords
  <2>2. worker'[c][d] \in Working
        /\ worker'[c][d] \notin {"returning", "settling", "completing"}
        /\ (worker'[c][d] = "posting" => hold'[c] \in InDispatch)
    BY <1>2 DEF PrepareMay, Working, BeforeDispatch, AfterDispatch, InDispatch
  <2>3. RunRecords(c)'
    BY <1>2, <2>1, <2>2, WorkKeeps DEF PrepareMay
  <2>4. HoldRecords(c)'
    BY <1>2, <2>1 DEF PrepareMay, HoldRecords
  <2>. QED BY <2>3, <2>4
<1>3. CASE PostMay(c, d)
  <2>1. "posting" \in Working /\ "waiting" \in Working /\ "waiting" \notin BeforeDispatch
    BY DEF Working, AfterDispatch, BeforeDispatch
  <2>2. status[c] \notin {"absent", "queued"} /\ hold[c] \in InDispatch
    BY <1>3, <2>1 DEF PostMay, RunRecords
  <2>3. RunRecords(c)'
    BY <1>3, <2>1, <2>2, WorkKeeps DEF PostMay
  <2>4. HoldRecords(c)'
    BY <1>3, <2>2 DEF PostMay, HoldRecords, InDispatch
  <2>. QED BY <2>3, <2>4
<1>4. CASE FinishMay(c, d)
  <2>1. worker[c][d] \in Working /\ status[c] \notin {"absent", "queued"}
        /\ (worker[c][d] = "returning" => provider[c] = "rejected")
        /\ (worker[c][d] = "settling" => provider[c] = "billed")
        /\ (worker[c][d] = "completing" => hold[c] = "settled")
    BY <1>4 DEF FinishMay, Working, RunRecords
  <2>2. worker'[c][d] \in Working /\ worker'[c][d] \notin BeforeDispatch /\ worker'[c][d] # "posting"
    BY <1>4 DEF FinishMay, Working, AfterDispatch, BeforeDispatch
  <2>3. RunRecords(c)'
    BY <1>4, <2>1, <2>2, WorkKeeps DEF FinishMay
  <2>4. provider[c] \in {"none", "posted", "rejected", "billed"} /\ provider'[c] = provider[c]
    BY <1>4 DEF TypeOK, FinishMay
  <2>5. status'[c] = "completed" => hold'[c] = "settled"
    BY <1>4, <2>1 DEF FinishMay, HoldRecords, InDispatch
  <2>6. HoldRecords(c)'
    BY <1>4, <2>1, <2>4, <2>5 DEF FinishMay, HoldRecords, InDispatch
  <2>. QED BY <2>3, <2>6
<1>5. CASE FailMay(c, d)
  <2>1. "failing" \in Working /\ "over" \in Working /\ "over" \notin BeforeDispatch
    BY DEF Working, BeforeDispatch
  <2>2. status[c] \notin {"absent", "queued"}
    BY <1>5, <2>1 DEF FailMay, RunRecords
  <2>3. RunRecords(c)'
    BY <1>5, <2>1, <2>2, WorkKeeps DEF FailMay
  <2>4. HoldRecords(c)'
    BY <1>5, <2>2 DEF FailMay, HoldRecords
  <2>. QED BY <2>3, <2>4
<1>. QED BY <1>1, <1>2, <1>3, <1>4, <1>5 DEF ConsumerMay

-----------------------------------------------------------------------------
(* The Worker, and everyone else *)

\* What a creation or a cancellation may do to a run.
WorkerMay(c) ==
  /\ TypeOK' /\ OnlyRun(c) /\ worker' = worker /\ hold' = hold /\ provider' = provider
  /\ \/ status'[c] = status[c]
     \/ status[c] = "absent" /\ status'[c] = "queued" /\ UnderCap(OwnerOf[c])
     \/ status[c] = "queued" /\ status'[c] = "failed"
     \/ status[c] \in Active /\ status'[c] = "cancelled"

LEMMA WorkerDoes ==
  ASSUME TypeOK, NEW c \in Calls, Worker(c)
  PROVE  WorkerMay(c)
<1>1. PICK s : /\ status' = [status EXCEPT ![c] = s]
               /\ \/ s = status[c]
                  \/ status[c] = "absent" /\ s = "queued" /\ UnderCap(OwnerOf[c])
                  \/ status[c] = "queued" /\ s = "failed"
                  \/ status[c] \in Active /\ s = "cancelled"
  <2>1. CASE Screen(c) \/ Send(c)
    BY <2>1, Kept DEF Screen, Send
  <2>2. CASE Cancel(c)
    BY <2>2 DEF Cancel
  <2>3. ASSUME NEW ack \in Acks, Insert(c, ack)
        PROVE  \E s : /\ status' = [status EXCEPT ![c] = s]
                      /\ \/ s = status[c]
                         \/ status[c] = "absent" /\ s = "queued" /\ UnderCap(OwnerOf[c])
    <3>1. SameKey(c) = {} => status[c] = "absent"
      BY DEF SameKey
    <3>. DEFINE t == IF SameKey(c) = {} /\ UnderCap(OwnerOf[c]) /\ Written(ack) THEN "queued" ELSE status[c]
    <3>2. status' = [status EXCEPT ![c] = t]
      BY <2>3 DEF Insert
    <3>. QED BY <3>1, <3>2
  <2>4. ASSUME NEW ack \in Acks, UndoSend(c, ack)
        PROVE  \E s : /\ status' = [status EXCEPT ![c] = s]
                      /\ s = status[c] \/ (status[c] = "queued" /\ s = "failed")
    <3>. DEFINE t == IF status[c] = "queued" /\ Written(ack) THEN "failed" ELSE status[c]
    <3>1. status' = [status EXCEPT ![c] = t]
      BY <2>4 DEF UndoSend
    <3>. QED BY <3>1
  <2>. QED BY <2>1, <2>2, <2>3, <2>4 DEF Worker
<1>2. s \in {"absent"} \cup Active \cup Ended
  <2>1. s = status[c] \/ s \in {"queued", "failed", "cancelled"}
    BY <1>1
  <2>. QED BY <2>1, Kept DEF Active, Ended
<1>3. create' \in [Calls -> CreateSteps] /\ sent' \in [Calls -> BOOLEAN]
      /\ UNCHANGED <<stale, worker, money, provider>>
  <2>0. create \in [Calls -> CreateSteps] /\ sent \in [Calls -> BOOLEAN]
    BY DEF TypeOK
  <2>1. CASE Screen(c)
    <3>1. PICK pc \in {"inserting", "replied"} : create' = [create EXCEPT ![c] = pc]
      BY <2>1 DEF Screen, CreateGoes
    <3>. QED BY <2>0, <2>1, <3>1 DEF Screen, CreateSteps
  <2>2. CASE Send(c)
    BY <2>0, <2>2 DEF Send, CreateGoes, CreateSteps
  <2>3. CASE Cancel(c)
    BY <2>0, <2>3 DEF Cancel
  <2>4. ASSUME NEW ack \in Acks, Insert(c, ack) \/ UndoSend(c, ack)
        PROVE  /\ create' \in [Calls -> CreateSteps] /\ sent' \in [Calls -> BOOLEAN]
               /\ UNCHANGED <<stale, worker, money, provider>>
    BY <2>0, <2>4 DEF Insert, UndoSend, CreateGoes, CreateSteps
  <2>. QED BY <2>1, <2>2, <2>3, <2>4 DEF Worker
<1>. QED BY <1>1, <1>2, <1>3, StatusMoves DEF WorkerMay, OnlyRun, SameRun, TypeOK, money

LEMMA WorkerKeeps ==
  ASSUME TypeOK, NEW c \in Calls, RunRecords(c), HoldRecords(c), WorkerMay(c)
  PROVE  RunRecords(c)' /\ HoldRecords(c)'
<1>1. /\ status'[c] \in {"absent", "queued"} => status[c] \in {"absent", "queued"}
      /\ status'[c] = "completed" => status[c] = "completed"
  BY DEF WorkerMay
<1>2. ASSUME NEW d \in DeliveriesOf[c], worker[c][d] \in Working
      PROVE  status'[c] \notin {"absent", "queued"}
  BY <1>1, <1>2 DEF RunRecords
<1>. QED BY <1>1, <1>2 DEF WorkerMay, RunRecords, HoldRecords

LEMMA OthersDo ==
  ASSUME TypeOK, NEW c \in Calls, RunRecords(c), HoldRecords(c), Others(c)
  PROVE  /\ TypeOK' /\ OnlyRun(c) /\ status' = status /\ worker' = worker
         /\ RunRecords(c)' /\ HoldRecords(c)'
<1>1. CASE Age(c) \/ ExpireHold(c)
  BY <1>1 DEF Age, ExpireHold, TypeOK, OnlyRun, SameRun, RunRecords, HoldRecords, runs, money
<1>2. ASSUME NEW outcome \in {"rejected", "billed"}, Answer(c, outcome)
      PROVE  /\ TypeOK' /\ OnlyRun(c) /\ status' = status /\ worker' = worker
             /\ RunRecords(c)' /\ HoldRecords(c)'
  <2>1. /\ provider' \in [Calls -> {"none", "posted", "rejected", "billed"}]
        /\ provider'[c] = outcome /\ provider[c] = "posted"
        /\ \A b \in Calls \ {c} : provider'[b] = provider[b]
        /\ UNCHANGED <<runs, worker, money>>
    BY <1>2 DEF Answer, TypeOK
  <2>2. TypeOK' /\ OnlyRun(c)
    BY <2>1 DEF TypeOK, OnlyRun, SameRun, runs, money
  <2>3. RunRecords(c)' /\ HoldRecords(c)'
    BY <2>1 DEF RunRecords, HoldRecords, runs, money
  <2>. QED BY <2>1, <2>2, <2>3 DEF runs
<1>3. CASE Reconcile(c) \/ Sweep(c)
  <2>1. PICK h : /\ hold' = [hold EXCEPT ![c] = h]
                 /\ \/ hold[c] \in InDispatch /\ provider[c] = "billed" /\ h = "settled"
                    \/ hold[c] \in InDispatch /\ provider[c] = "rejected" /\ h = "released"
                    \/ hold[c] = "held" /\ h = "released"
    BY <1>3 DEF Reconcile, Sweep
  <2>2. UNCHANGED <<runs, worker, expired, billing, provider>>
    BY <1>3 DEF Reconcile, Sweep
  <2>3. h \in Holds
    BY <2>1 DEF Holds
  <2>4. TypeOK' /\ OnlyRun(c) /\ hold'[c] = h
    BY <2>1, <2>2, <2>3, HoldMoves DEF TypeOK, OnlyRun, SameRun, runs, Holds
  <2>5. HoldRecords(c)'
    BY <2>1, <2>2, <2>4 DEF HoldRecords, runs, InDispatch
  <2>6. RunRecords(c)'
    BY <2>1, <2>2, <2>4 DEF RunRecords, runs, InDispatch
  <2>. QED BY <2>2, <2>4, <2>5, <2>6 DEF runs
<1>. QED BY <1>1, <1>2, <1>3 DEF Others

-----------------------------------------------------------------------------
(* Every step *)

\* What any step may do, seen from the one run it moves.
StepMay(c) ==
  \/ WorkerMay(c)
  \/ \E d \in DeliveriesOf[c] : OnlyDelivery(c, d) /\ ConsumerMay(c, d)
  \/ OnlyRun(c) /\ status' = status /\ worker' = worker /\ Others(c)

LEMMA StepDoes ==
  ASSUME IInv, [Next]_vars
  PROVE  (\A b \in Calls : SameRun(b)) \/ \E c \in Calls : StepMay(c)
<1>. USE DEF IInv
<1>1. ASSUME NEW c \in Calls, Worker(c) PROVE StepMay(c)
  BY <1>1, WorkerDoes DEF StepMay
<1>2. ASSUME NEW c \in Calls, Others(c) PROVE StepMay(c)
  BY <1>2, OthersDo DEF StepMay
<1>3. ASSUME NEW c \in Calls, NEW d \in DeliveriesOf[c], Consumer(c, d) PROVE StepMay(c)
  BY <1>3, ConsumerDoes DEF StepMay
<1>4. CASE EnableBilling \/ UNCHANGED vars
  BY <1>4 DEF EnableBilling, vars, runs, money, SameRun
<1>. QED BY <1>1, <1>2, <1>3, <1>4 DEF Next

LEMMA NextKeeps ==
  ASSUME IInv, [Next]_vars
  PROVE  IInv'
<1>. USE DEF IInv
<1>1. ASSUME NEW c \in Calls, TypeOK', OnlyRun(c), RunRecords(c)', HoldRecords(c)'
      PROVE  IInv'
  BY <1>1, SameKeeps DEF OnlyRun
<1>2. ASSUME NEW c \in Calls, Worker(c) PROVE IInv'
  <2>1. WorkerMay(c)
    BY <1>2, WorkerDoes
  <2>2. TypeOK' /\ OnlyRun(c)
    BY <2>1 DEF WorkerMay
  <2>. QED BY <1>1, <2>1, <2>2, WorkerKeeps
<1>3. ASSUME NEW c \in Calls, Others(c) PROVE IInv'
  BY <1>1, <1>3, OthersDo
<1>4. ASSUME NEW c \in Calls, NEW d \in DeliveriesOf[c], Consumer(c, d) PROVE IInv'
  <2>1. OnlyDelivery(c, d) /\ ConsumerMay(c, d)
    BY <1>4, ConsumerDoes
  <2>2. TypeOK' /\ OnlyRun(c)
    BY <2>1 DEF OnlyDelivery
  <2>. QED BY <1>1, <2>1, <2>2, ConsumerKeeps
<1>5. CASE EnableBilling
  <2>1. TypeOK' /\ \A b \in Calls : SameRun(b)
    BY <1>5 DEF EnableBilling, TypeOK, SameRun, runs
  <2>. QED BY <2>1, SameKeeps
<1>6. CASE UNCHANGED vars
  <2>1. TypeOK' /\ \A b \in Calls : SameRun(b)
    BY <1>6 DEF vars, runs, money, TypeOK, SameRun
  <2>. QED BY <2>1, SameKeeps
<1>. QED BY <1>2, <1>3, <1>4, <1>5, <1>6 DEF Next

LEMMA Invariance == Spec => []IInv
<1>1. Init => IInv
  <2>. SUFFICES ASSUME Init PROVE IInv
    OBVIOUS
  <2>1. TypeOK
    BY AgentAssumption DEF Init, TypeOK, CreateSteps, Claiming
  <2>2. ASSUME NEW c \in Calls PROVE RunRecords(c) /\ HoldRecords(c)
    <3>1. \A d \in DeliveriesOf[c] : worker[c][d] = "idle"
      BY DEF Init
    <3>2. "idle" \notin Working /\ "idle" \notin BeforeDispatch
      BY DEF Working, BeforeDispatch, AfterDispatch
    <3>. QED BY <3>1, <3>2 DEF Init, RunRecords, HoldRecords
  <2>. QED BY <2>1, <2>2 DEF IInv
<1>. QED BY <1>1, NextKeeps, PTL DEF Spec

\* The state of every run, consumer and hold keeps its type.
THEOREM TypeCorrect == Spec => []TypeOK
<1>1. IInv => TypeOK
  BY DEF IInv
<1>. QED BY <1>1, Invariance, PTL

\* However many deliveries of a run there are, at most one ever works on it.
THEOREM OneConsumerWorks == Spec => []OneConsumer
<1>1. IInv => OneConsumer
  BY DEF IInv, RunRecords, OneConsumer
<1>. QED BY <1>1, Invariance, PTL

\* A completed run was billed by the provider, and its hold is settled.
THEOREM CompletionIsCharged == Spec => []CompletedWasCharged
<1>1. IInv => CompletedWasCharged
  <2>. SUFFICES ASSUME IInv, NEW c \in Calls, status[c] = "completed"
                PROVE  hold[c] = "settled" /\ provider[c] = "billed"
    BY DEF CompletedWasCharged
  <2>1. HoldRecords(c) /\ provider[c] \in {"none", "posted", "rejected", "billed"}
    BY DEF IInv, TypeOK
  <2>. QED BY <2>1 DEF HoldRecords, InDispatch
<1>. QED BY <1>1, Invariance, PTL

\* A run that ended never changes again.
THEOREM EndsAreFinal == Spec => RunsEndOnce
<1>1. IInv /\ [Next]_vars => [\A c \in Calls : status[c] \in Ended => status'[c] = status[c]]_vars
  <2>. SUFFICES ASSUME IInv, [Next]_vars, NEW b \in Calls, status[b] \in Ended
                PROVE  status'[b] = status[b]
    OBVIOUS
  <2>1. status[b] \notin {"absent", "queued", "planning", "running"} \cup Active
    BY DEF Ended, Active
  <2>2. ASSUME NEW c \in Calls, StepMay(c) PROVE status'[b] = status[b]
    <3>1. CASE b # c
      BY <2>2, <3>1 DEF StepMay, WorkerMay, OnlyDelivery, OnlyRun, SameRun
    <3>2. CASE b = c
      BY <2>1, <2>2, <3>2
         DEF StepMay, WorkerMay, ConsumerMay, ClaimMay, PrepareMay, PostMay, FinishMay, FailMay
    <3>. QED BY <3>1, <3>2
  <2>. QED BY <2>2, StepDoes DEF SameRun
<1>. QED BY <1>1, Invariance, PTL DEF Spec, RunsEndOnce

-----------------------------------------------------------------------------
(* The cap *)

LEMMA ActiveGrows ==
  ASSUME IInv, [Next]_vars, NEW o
  PROVE  \/ ActiveOf(o)' \subseteq ActiveOf(o)
         \/ \E c \in Calls : UnderCap(o) /\ ActiveOf(o)' \subseteq ActiveOf(o) \cup {c}
<1>1. CASE \A b \in Calls : SameRun(b)
  BY <1>1 DEF SameRun, ActiveOf
<1>2. ASSUME NEW c \in Calls, StepMay(c)
      PROVE  \/ ActiveOf(o)' \subseteq ActiveOf(o)
             \/ UnderCap(o) /\ ActiveOf(o)' \subseteq ActiveOf(o) \cup {c}
  <2>1. \A b \in Calls \ {c} : status'[b] = status[b]
    BY <1>2 DEF StepMay, WorkerMay, OnlyDelivery, OnlyRun, SameRun
  <2>2. (OwnerOf[c] = o => UnderCap(o)) => ActiveOf(o)' \subseteq ActiveOf(o) \cup {c}
    BY <2>1 DEF ActiveOf
  <2>3. CASE status[c] = "absent" /\ status'[c] = "queued" /\ UnderCap(OwnerOf[c])
    <3>1. CASE OwnerOf[c] = o
      BY <2>2, <2>3, <3>1
    <3>2. CASE OwnerOf[c] # o
      BY <2>1, <3>2 DEF ActiveOf
    <3>. QED BY <3>1, <3>2
  <2>4. CASE status'[c] \in Active => status[c] \in Active
    BY <2>1, <2>4 DEF ActiveOf
  <2>5. \/ status[c] = "absent" /\ status'[c] = "queued" /\ UnderCap(OwnerOf[c])
        \/ status'[c] \in Active => status[c] \in Active
    BY <1>2
       DEF StepMay, WorkerMay, ConsumerMay, ClaimMay, PrepareMay, PostMay, FinishMay, FailMay, Active
  <2>. QED BY <2>3, <2>4, <2>5
<1>. QED BY <1>1, <1>2, StepDoes

\* Creations in any order leave every owner within the cap.
THEOREM CapHolds == Spec => []ActiveRunsBounded
<1>. DEFINE Bounded == \A o : Cardinality(ActiveOf(o)) <= MaxActive
<1>0. ASSUME NEW o
      PROVE  /\ IsFiniteSet(ActiveOf(o)) /\ Cardinality(ActiveOf(o)) \in Nat
             /\ IsFiniteSet(ActiveOf(o)') /\ Cardinality(ActiveOf(o)') \in Nat
  <2>1. ActiveOf(o) \subseteq Calls /\ ActiveOf(o)' \subseteq Calls
    BY DEF ActiveOf
  <2>. QED BY <2>1, AgentAssumption, FS_Subset, FS_CardinalityType
<1>1. Init => Bounded
  <2>. SUFFICES ASSUME Init, NEW o PROVE Cardinality(ActiveOf(o)) <= MaxActive
    OBVIOUS
  <2>1. ActiveOf(o) = {}
    BY DEF Init, ActiveOf, Active
  <2>. QED BY <2>1, FS_EmptySet, AgentAssumption
<1>2. Bounded /\ IInv /\ [Next]_vars => Bounded'
  <2>. SUFFICES ASSUME Bounded, IInv, [Next]_vars, NEW o
                PROVE  Cardinality(ActiveOf(o)') <= MaxActive
    OBVIOUS
  <2>1. Cardinality(ActiveOf(o)) <= MaxActive /\ MaxActive \in Nat
    BY AgentAssumption
  <2>2. CASE ActiveOf(o)' \subseteq ActiveOf(o)
    <3>1. Cardinality(ActiveOf(o)') <= Cardinality(ActiveOf(o))
      BY <1>0, <2>2, FS_Subset
    <3>. QED BY <1>0, <2>1, <3>1
  <2>3. ASSUME NEW c \in Calls, UnderCap(o), ActiveOf(o)' \subseteq ActiveOf(o) \cup {c}
        PROVE  Cardinality(ActiveOf(o)') <= MaxActive
    <3>1. /\ IsFiniteSet(ActiveOf(o) \cup {c}) /\ Cardinality(ActiveOf(o) \cup {c}) \in Nat
          /\ Cardinality(ActiveOf(o) \cup {c}) <= Cardinality(ActiveOf(o)) + 1
      <4>1. /\ IsFiniteSet(ActiveOf(o) \cup {c})
            /\ Cardinality(ActiveOf(o) \cup {c}) =
                 IF c \in ActiveOf(o) THEN Cardinality(ActiveOf(o)) ELSE Cardinality(ActiveOf(o)) + 1
        BY <1>0, FS_AddElement
      <4>. QED BY <1>0, <4>1
    <3>2. Cardinality(ActiveOf(o)') <= Cardinality(ActiveOf(o) \cup {c})
      BY <2>3, <3>1, FS_Subset
    <3>3. Cardinality(ActiveOf(o)) < MaxActive
      BY <2>3 DEF UnderCap
    <3>. QED BY <1>0, <2>1, <3>1, <3>2, <3>3
  <2>. QED BY <2>2, <2>3, ActiveGrows
<1>3. Bounded => ActiveRunsBounded
  BY DEF ActiveRunsBounded
<1>. QED BY <1>1, <1>2, <1>3, Invariance, PTL DEF Spec

-----------------------------------------------------------------------------
(* The paid request *)

\* What a step that moves c does to the three variables PaidRequest has.
Seen(c) ==
  \/ PhaseOf(c)' = PhaseOf(c) /\ (provider'[c] = "billed" <=> provider[c] = "billed")
  \/ /\ <<PhaseOf(c), PhaseOf(c)'>> \in {<<"none", "held">>, <<"held", "dispatched">>}
     /\ provider[c] # "billed" /\ provider'[c] # "billed"
  \/ PhaseOf(c) = "dispatched" /\ PhaseOf(c)' = "dispatched"
     /\ provider[c] # "billed" /\ provider'[c] = "billed"
  \/ PhaseOf(c) = "dispatched" /\ PhaseOf(c)' = "charged"
     /\ provider[c] = "billed" /\ provider'[c] = "billed"
  \/ PhaseOf(c) \in {"held", "dispatched"} /\ PhaseOf(c)' = "refunded"
     /\ provider[c] # "billed" /\ provider'[c] # "billed"

LEMMA Phases ==
  ASSUME TypeOK, NEW c \in Calls
  PROVE  /\ hold[c] = "absent" <=> PhaseOf(c) = "none"
         /\ hold[c] = "held" <=> PhaseOf(c) = "held"
         /\ hold[c] \in InDispatch <=> PhaseOf(c) = "dispatched"
         /\ hold[c] = "settled" <=> PhaseOf(c) = "charged"
         /\ hold[c] = "released" <=> PhaseOf(c) = "refunded"
         /\ provider[c] \in {"none", "posted", "rejected", "billed"}
         /\ hold[c] \in Holds
  BY DEF TypeOK, PhaseOf, InDispatch, Holds

LEMMA StepSeen ==
  ASSUME TypeOK, TypeOK', NEW c \in Calls, RunRecords(c), HoldRecords(c), StepMay(c)
  PROVE  Seen(c)
<1>1. /\ hold'[c] = hold[c] => PhaseOf(c)' = PhaseOf(c)
      /\ hold'[c] = "held" => PhaseOf(c)' = "held"
      /\ hold'[c] \in InDispatch => PhaseOf(c)' = "dispatched"
      /\ hold'[c] = "settled" => PhaseOf(c)' = "charged"
      /\ hold'[c] = "released" => PhaseOf(c)' = "refunded"
  BY DEF PhaseOf, InDispatch
<1>2. CASE WorkerMay(c)
  BY <1>1, <1>2 DEF WorkerMay, Seen
<1>3. ASSUME NEW d \in DeliveriesOf[c], ConsumerMay(c, d) PROVE Seen(c)
  <2>1. CASE ClaimMay(c, d) \/ FailMay(c, d)
    BY <1>1, <2>1 DEF ClaimMay, FailMay, Seen
  <2>2. CASE PrepareMay(c, d)
    <3>1. provider[c] = "none" /\ provider'[c] = "none"
      BY <2>2 DEF PrepareMay, RunRecords
    <3>. QED BY <1>1, <2>2, <3>1, Phases DEF PrepareMay, Seen, InDispatch
  <2>3. CASE PostMay(c, d)
    BY <1>1, <2>3 DEF PostMay, RunRecords, Seen
  <2>4. CASE FinishMay(c, d)
    <3>1. provider'[c] = provider[c]
          /\ (worker[c][d] = "returning" => provider[c] = "rejected")
          /\ (worker[c][d] = "settling" => provider[c] = "billed")
      BY <2>4 DEF FinishMay, RunRecords
    <3>. QED BY <1>1, <2>4, <3>1, Phases DEF FinishMay, Seen, InDispatch
  <2>. QED BY <1>3, <2>1, <2>2, <2>3, <2>4 DEF ConsumerMay
<1>4. CASE Others(c)
  <2>1. CASE Age(c) \/ ExpireHold(c)
    BY <1>1, <2>1 DEF Age, ExpireHold, runs, money, Seen
  <2>2. ASSUME NEW outcome \in {"rejected", "billed"}, Answer(c, outcome) PROVE Seen(c)
    <3>1. provider[c] = "posted" /\ provider'[c] = outcome /\ hold' = hold
      BY <2>2 DEF Answer, money, TypeOK
    <3>2. hold[c] \in InDispatch
      BY <3>1 DEF HoldRecords
    <3>. QED BY <1>1, <3>1, <3>2, Phases DEF Seen
  <2>3. CASE Reconcile(c)
    <3>1. /\ hold[c] \in InDispatch /\ provider[c] \in {"rejected", "billed"} /\ provider' = provider
          /\ hold'[c] = IF provider[c] = "billed" THEN "settled" ELSE "released"
      BY <2>3 DEF Reconcile, TypeOK
    <3>. QED BY <1>1, <3>1, Phases DEF Seen
  <2>4. CASE Sweep(c)
    <3>1. hold[c] = "held" /\ hold'[c] = "released" /\ provider' = provider
      BY <2>4 DEF Sweep, TypeOK
    <3>2. provider[c] # "billed"
      BY <3>1 DEF HoldRecords, InDispatch
    <3>. QED BY <1>1, <3>1, <3>2, Phases DEF Seen
  <2>. QED BY <1>4, <2>1, <2>2, <2>3, <2>4 DEF Others
<1>. QED BY <1>2, <1>3, <1>4 DEF StepMay

LEMMA SeenIsAbstract ==
  ASSUME TypeOK, TypeOK', NEW c \in Calls, OnlyRun(c), Seen(c)
  PROVE  [Abstract!PaidNext]_(Abstract!paidVars)
<1>. DEFINE phase == [b \in Calls |-> PhaseOf(b)]
            billed == [b \in Calls |-> BilledFor(b)]
            charged == [b \in Calls |-> ChargedFor(b)]
<1>1. \A b \in Calls \ {c} : /\ PhaseOf(b)' = PhaseOf(b) /\ BilledFor(b)' = BilledFor(b)
                             /\ ChargedFor(b)' = ChargedFor(b)
  BY DEF OnlyRun, SameRun, PhaseOf, BilledFor, ChargedFor
<1>2. /\ phase' = [phase EXCEPT ![c] = PhaseOf(c)']
      /\ billed' = [billed EXCEPT ![c] = BilledFor(c)']
      /\ charged' = [charged EXCEPT ![c] = ChargedFor(c)']
  BY <1>1
<1>3. /\ phase[c] = PhaseOf(c) /\ billed[c] = BilledFor(c) /\ charged[c] = ChargedFor(c)
      /\ phase = [phase EXCEPT ![c] = phase[c]] /\ billed = [billed EXCEPT ![c] = billed[c]]
      /\ charged = [charged EXCEPT ![c] = charged[c]]
  OBVIOUS
<1>4. /\ BilledFor(c) = "usage" <=> provider[c] = "billed"
      /\ BilledFor(c) = "nothing" <=> provider[c] # "billed"
      /\ BilledFor(c)' = "usage" <=> provider'[c] = "billed"
      /\ BilledFor(c)' = "nothing" <=> provider'[c] # "billed"
      /\ BilledFor(c) \in {"usage", "nothing"} /\ BilledFor(c)' \in {"usage", "nothing"}
  BY DEF BilledFor
<1>5. /\ ChargedFor(c) = IF PhaseOf(c) = "charged" THEN "usage" ELSE "nothing"
      /\ ChargedFor(c)' = IF PhaseOf(c)' = "charged" THEN "usage" ELSE "nothing"
  <2>1. hold[c] = "settled" <=> PhaseOf(c) = "charged"
    BY Phases
  <2>2. hold'[c] = "settled" <=> PhaseOf(c)' = "charged"
    BY DEF TypeOK, PhaseOf, InDispatch
  <2>. QED BY <2>1, <2>2 DEF ChargedFor
<1>. HIDE DEF phase, billed, charged
<1>6. \/ phase' = phase /\ billed' = billed /\ charged' = charged
      \/ /\ phase[c] = "none" /\ phase' = [phase EXCEPT ![c] = "held"]
         /\ billed' = billed /\ charged' = charged
      \/ /\ phase[c] = "held" /\ phase' = [phase EXCEPT ![c] = "dispatched"]
         /\ billed' = billed /\ charged' = charged
      \/ /\ phase[c] = "dispatched" /\ billed[c] = "nothing"
         /\ \E u \in {"usage"} : billed' = [billed EXCEPT ![c] = u]
         /\ phase' = phase /\ charged' = charged
      \/ /\ phase[c] = "dispatched" /\ billed[c] # "nothing"
         /\ phase' = [phase EXCEPT ![c] = "charged"]
         /\ charged' = [charged EXCEPT ![c] = billed[c]] /\ billed' = billed
      \/ /\ phase[c] \in {"held", "dispatched"} /\ billed[c] = "nothing"
         /\ phase' = [phase EXCEPT ![c] = "refunded"] /\ billed' = billed /\ charged' = charged
  BY <1>2, <1>3, <1>4, <1>5 DEF Seen
<1>. QED
  BY <1>6
     DEF phase, billed, charged, Abstract!PaidNext, Abstract!paidVars, Abstract!Hold,
         Abstract!Dispatch, Abstract!Bill, Abstract!Charge, Abstract!Refund

\* The budget of every run lives the life of a paid request: the provider bills only a
\* dispatched hold, which ends as a charge if and only if it was billed.
THEOREM RunsKeepPromise == Spec => ImplementsPaidRequest
<1>1. Init => Abstract!PaidInit
  <2>. SUFFICES ASSUME Init PROVE Abstract!PaidInit
    OBVIOUS
  <2>1. \A c \in Calls : PhaseOf(c) = "none" /\ BilledFor(c) = "nothing" /\ ChargedFor(c) = "nothing"
    <3>1. \A c \in Calls : hold[c] = "absent" /\ provider[c] = "none"
      BY DEF Init
    <3>. QED BY <3>1 DEF PhaseOf, InDispatch, BilledFor, ChargedFor
  <2>. QED BY <2>1 DEF Abstract!PaidInit
<1>2. IInv /\ IInv' /\ [Next]_vars => [Abstract!PaidNext]_(Abstract!paidVars)
  <2>. SUFFICES ASSUME IInv, IInv', [Next]_vars
                PROVE  [Abstract!PaidNext]_(Abstract!paidVars)
    OBVIOUS
  <2>1. CASE \A b \in Calls : SameRun(b)
    <3>1. \A b \in Calls : /\ PhaseOf(b)' = PhaseOf(b) /\ BilledFor(b)' = BilledFor(b)
                           /\ ChargedFor(b)' = ChargedFor(b)
      BY <2>1 DEF SameRun, PhaseOf, BilledFor, ChargedFor
    <3>. QED BY <3>1 DEF Abstract!paidVars
  <2>2. ASSUME NEW c \in Calls, StepMay(c)
        PROVE  [Abstract!PaidNext]_(Abstract!paidVars)
    <3>1. OnlyRun(c)
      BY <2>2 DEF StepMay, WorkerMay, OnlyDelivery
    <3>2. Seen(c)
      BY <2>2, StepSeen DEF IInv
    <3>. QED BY <3>1, <3>2, SeenIsAbstract DEF IInv
  <2>. QED BY <2>1, <2>2, StepDoes
<1>. QED
  BY <1>1, <1>2, Invariance, PTL DEF Spec, ImplementsPaidRequest, Abstract!PaidSpec
==============================================================================
