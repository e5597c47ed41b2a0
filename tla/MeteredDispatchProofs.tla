------------------------- MODULE MeteredDispatchProofs -------------------------
(***************************************************************************)
(* Proofs about MeteredDispatch for any number of requests, deliveries and *)
(* measures.  The inductive invariant follows the evidence backwards: what *)
(* closed the hold is in the gateway's receipt, what is there is in the    *)
(* adapter's, and behind the adapter's there is one call at most, which    *)
(* either reached the vendor or was refused before it could.               *)
(***************************************************************************)
EXTENDS MeteredDispatch, TLAPS

GateOwning == {"gated", "calling", "saving", "failing", "violated"}
BeforeAnswer == {"gated", "recheck", "confirm", "dispatch", "rejecting", "recording"}
AdaptOwning == BeforeAnswer \cup {"rejectingAgain", "saving", "failing", "violated"}
NotBilledYet == {"idle", "check", "claim", "gated", "recheck", "confirm", "dispatch",
                 "rejecting", "rejectingAgain"}

Touched(r, j) == adapt[r][j].pc \in AdaptOwning \/ bill[r][j] # NoUsage

\* One call of the adapter owns the request; its place in the code says how far the
\* receipt, the evidence and the vendor's books have come.
OneAdapterCall(r) ==
  /\ \A i, j \in AdaptCopies : Touched(r, i) /\ Touched(r, j) => i = j
  /\ \A j \in AdaptCopies :
       /\ Touched(r, j) => adaptReceipt[r].kind # "none"
       /\ adapt[r][j].pc \in NotBilledYet => bill[r][j] = NoUsage
       /\ adapt[r][j].pc \in BeforeAnswer =>
            adaptReceipt[r].kind = "dispatching" /\ evidence[r] = NoUsage
       /\ adapt[r][j].pc = "rejectingAgain" =>
            adaptReceipt[r].kind \in {"dispatching", "rejected"} /\ evidence[r] = NoUsage
       /\ adapt[r][j].pc = "recording" =>
            bill[r][j] # NoUsage /\ adapt[r][j].answer = Completed(bill[r][j])
       /\ adapt[r][j].pc = "saving" =>
            evidence[r] # NoUsage /\ adapt[r][j].answer = Completed(evidence[r])

AdapterRecords(r) ==
  /\ adaptReceipt[r].kind # "refused"
  /\ evidence[r] # NoUsage => \E j \in AdaptCopies : bill[r][j] = evidence[r]
  /\ adaptReceipt[r].kind = "completed" =>
       evidence[r] # NoUsage /\ adaptReceipt[r] = Completed(evidence[r])
  /\ adaptReceipt[r].kind = "rejected" =>
       evidence[r] = NoUsage /\ \A j \in AdaptCopies : bill[r][j] = NoUsage
  /\ \A j \in AdaptCopies :
       adapt[r][j].pc = "answered" /\ Terminal(adapt[r][j].answer) =>
         adapt[r][j].answer = adaptReceipt[r]
  /\ "adapter" \notin posts[r] =>
       /\ adaptReceipt[r].kind = "none" /\ evidence[r] = NoUsage
       /\ \A j \in AdaptCopies : adapt[r][j].pc = "idle"

\* The vendor never bills a request whose receipt, or whose missing POST, says so.
Unbilled(r) == adaptReceipt[r].kind = "rejected" \/ "adapter" \notin posts[r]

OneGatewayCall(r) ==
  /\ \A k, l \in GateCopies :
       gate[r][k].pc \in GateOwning /\ gate[r][l].pc \in GateOwning => k = l
  /\ \A k \in GateCopies :
       /\ gate[r][k].pc \in GateOwning => gateReceipt[r].kind # "none"
       /\ gate[r][k].pc = "gated" => "adapter" \notin posts[r] /\ ~Terminal(gateReceipt[r])
       /\ gate[r][k].pc = "saving" =>
            \/ gate[r][k].answer = Rejected /\ Unbilled(r)
            \/ gate[r][k].answer = Completed(evidence[r]) /\ evidence[r] # NoUsage
       /\ gate[r][k].pc = "answered" /\ Terminal(gate[r][k].answer) =>
            gate[r][k].answer = gateReceipt[r]

GatewayRecords(r) ==
  /\ gateReceipt[r].kind # "refused"
  /\ gateReceipt[r].kind = "none" => "adapter" \notin posts[r]
  /\ gateReceipt[r].kind = "rejected" => Unbilled(r)
  /\ gateReceipt[r].kind = "completed" =>
       evidence[r] # NoUsage /\ gateReceipt[r] = Completed(evidence[r])
  /\ "gateway" \notin posts[r] =>
       /\ gateReceipt[r].kind = "none" /\ "adapter" \notin posts[r]
       /\ \A k \in GateCopies : gate[r][k].pc = "idle"

\* What closed the hold is in the gateway's receipt, or nothing was ever sent.
HoldRecords(r) ==
  /\ hold[r] \in {"absent", "held"} => "gateway" \notin posts[r]
  /\ hold[r] = "released" => gateReceipt[r].kind = "rejected" \/ "gateway" \notin posts[r]
  /\ hold[r] = "settled" => gateReceipt[r] = Completed(booked[r]) /\ booked[r] # NoUsage
  /\ hold[r] # "settled" => booked[r] = NoUsage
  /\ worker[r].pc = "releasing" => gateReceipt[r].kind = "rejected"
  /\ worker[r].pc = "settling" =>
       gateReceipt[r].kind = "completed" /\ worker[r].answer = gateReceipt[r]
  /\ worker[r].pc = "output" => hold[r] = "settled" /\ booked[r] = worker[r].answer.usage
  /\ worker[r].pc \in {"rejected", "cancelled"} => hold[r] = "released"

RequestInv(r) ==
  /\ OneAdapterCall(r) /\ AdapterRecords(r)
  /\ OneGatewayCall(r) /\ GatewayRecords(r)
  /\ HoldRecords(r)

IInv == TypeOK /\ \A r \in Requests : RequestInv(r)

-----------------------------------------------------------------------------
(* Receipts *)

LEMMA Reports ==
  /\ None \in Report /\ Refused \in Report /\ Rejected \in Report
  /\ Plain("dispatching") \in Report /\ Plain("unknown") \in Report
  /\ \A u \in Usages : Completed(u) \in Report
  BY DEF Report, None, Refused, Rejected

LEMMA ReportKinds ==
  ASSUME NEW x \in Report
  PROVE  /\ x.kind = "completed" => x.usage \in Usages /\ x = Completed(x.usage)
         /\ x.kind # "completed" => x = Plain(x.kind)
         /\ x.usage \in Usages \cup {NoUsage}
         /\ x.kind \in {"none", "refused", "dispatching", "unknown", "rejected", "completed"}
  BY DEF Report, Plain, Completed

LEMMA PlainReports ==
  /\ None.kind = "none" /\ Refused.kind = "refused" /\ Rejected.kind = "rejected"
  /\ \A x : Plain(x).kind = x /\ Plain(x).usage = NoUsage
  /\ \A u : Completed(u).kind = "completed" /\ Completed(u).usage = u
  BY DEF None, Refused, Rejected, Plain, Completed

LEMMA Updates ==
  ASSUME NEW x \in Report, NEW y \in Report
  PROVE  Finalized(x, y) \in Report /\ Doubted(x) \in Report
  BY Reports DEF Finalized, Doubted

(* One call of a service moves; every other call stays where it was *)

LEMMA GateMoves ==
  ASSUME TypeOK, NEW r \in Requests, NEW k \in GateCopies, NEW pc \in GateSteps,
         NEW answer \in Report, GateGoes(r, k, pc, answer)
  PROVE  /\ gate' \in [Requests -> [GateCopies -> CallAt(GateSteps)]]
         /\ gate'[r][k].pc = pc /\ gate'[r][k].answer = answer
         /\ \A l \in GateCopies \ {k} : gate'[r][l] = gate[r][l]
         /\ \A q \in Requests \ {r} : gate'[q] = gate[q]
  BY DEF TypeOK, GateGoes, Call, CallAt

LEMMA AdaptMoves ==
  ASSUME TypeOK, NEW r \in Requests, NEW j \in AdaptCopies, NEW pc \in AdaptSteps,
         NEW answer \in Report, AdaptGoes(r, j, pc, answer)
  PROVE  /\ adapt' \in [Requests -> [AdaptCopies -> CallAt(AdaptSteps)]]
         /\ adapt'[r][j].pc = pc /\ adapt'[r][j].answer = answer
         /\ \A i \in AdaptCopies \ {j} : adapt'[r][i] = adapt[r][i]
         /\ \A q \in Requests \ {r} : adapt'[q] = adapt[q]
  BY DEF TypeOK, AdaptGoes, Call, CallAt

-----------------------------------------------------------------------------
(* Types, and what a step leaves alone *)

Same(q) ==
  /\ hold'[q] = hold[q] /\ booked'[q] = booked[q] /\ worker'[q] = worker[q]
  /\ posts'[q] = posts[q] /\ gate'[q] = gate[q] /\ gateReceipt'[q] = gateReceipt[q]
  /\ adapt'[q] = adapt[q] /\ adaptReceipt'[q] = adaptReceipt[q]
  /\ evidence'[q] = evidence[q] /\ bill'[q] = bill[q]

Others(r) == \A q \in Requests \ {r} : Same(q)

LEMMA WorkerMoves ==
  ASSUME TypeOK, NEW r \in Requests,
         NEW pc \in WorkerSteps \cup Replies, NEW answer \in Report,
         worker' = [worker EXCEPT ![r] = Call(pc, answer)]
  PROVE  /\ worker' \in [Requests -> CallAt(WorkerSteps \cup Replies)]
         /\ \A q \in Requests \ {r} : worker'[q] = worker[q]
  BY DEF TypeOK, Call, CallAt

LEMMA WorkerGoesOn ==
  ASSUME TypeOK, NEW r \in Requests, NEW pc \in WorkerSteps \cup Replies,
         worker' = [worker EXCEPT ![r].pc = pc]
  PROVE  /\ worker' \in [Requests -> CallAt(WorkerSteps \cup Replies)]
         /\ \A q \in Requests \ {r} : worker'[q] = worker[q]
  BY DEF TypeOK, CallAt

LEMMA WorkerFrame ==
  ASSUME TypeOK, NEW r \in Requests,
         worker' \in [Requests -> CallAt(WorkerSteps \cup Replies)],
         \A q \in Requests \ {r} : worker'[q] = worker[q],
         NEW state \in {"absent", "settled", "released"} \cup OpenStates,
         hold' = [hold EXCEPT ![r] = state],
         NEW usage \in Usages \cup {NoUsage}, booked' = [booked EXCEPT ![r] = usage],
         NEW to \in SUBSET {"gateway", "adapter"}, posts' = [posts EXCEPT ![r] = to],
         switch' \in [Switches -> BOOLEAN], UNCHANGED <<expired, gateway, adapter>>
  PROVE  TypeOK' /\ Others(r)
<1>1. /\ hold' \in [Requests -> {"absent", "settled", "released"} \cup OpenStates]
      /\ \A q \in Requests \ {r} : hold'[q] = hold[q]
  BY DEF TypeOK
<1>2. /\ booked' \in [Requests -> Usages \cup {NoUsage}]
      /\ \A q \in Requests \ {r} : booked'[q] = booked[q]
  BY DEF TypeOK
<1>3. /\ posts' \in [Requests -> SUBSET {"gateway", "adapter"}]
      /\ \A q \in Requests \ {r} : posts'[q] = posts[q]
  BY DEF TypeOK
<1>. QED BY <1>1, <1>2, <1>3 DEF TypeOK, Others, Same, gateway, adapter

LEMMA WorkerEffect ==
  ASSUME TypeOK, NEW r \in Requests, Worker(r)
  PROVE  TypeOK' /\ Others(r)
<1>1. /\ hold[r] \in {"absent", "settled", "released"} \cup OpenStates
      /\ hold = [hold EXCEPT ![r] = hold[r]]
  BY DEF TypeOK
<1>2. booked[r] \in Usages \cup {NoUsage} /\ booked = [booked EXCEPT ![r] = booked[r]]
  BY DEF TypeOK
<1>3. posts[r] \in SUBSET {"gateway", "adapter"} /\ posts = [posts EXCEPT ![r] = posts[r]]
  BY DEF TypeOK
<1>4. switch \in [Switches -> BOOLEAN]
  BY DEF TypeOK
<1>5. CASE GiveUp(r)
  <2>1. PICK pc \in {"holding", "stopping"} : WorkerGoes(r, pc, None)
    BY <1>5 DEF GiveUp
  <2>2. pc \in WorkerSteps \cup Replies
    BY DEF WorkerSteps
  <2>3. /\ worker' \in [Requests -> CallAt(WorkerSteps \cup Replies)]
        /\ \A q \in Requests \ {r} : worker'[q] = worker[q]
    BY <2>1, <2>2, Reports, WorkerMoves DEF WorkerGoes
  <2>. QED BY <1>1, <1>2, <1>3, <1>4, <2>1, <2>3, WorkerFrame DEF WorkerGoes, billing
<1>6. ASSUME NEW k \in GateCopies, ReceiveReply(r, k)
      PROVE  TypeOK' /\ Others(r)
  <2>1. /\ gate[r][k].answer \in Report
        /\ AfterReply(gate[r][k].answer.kind) \in WorkerSteps \cup Replies
    BY DEF AfterReply, TypeOK, CallAt, WorkerSteps
  <2>2. /\ worker' \in [Requests -> CallAt(WorkerSteps \cup Replies)]
        /\ \A q \in Requests \ {r} : worker'[q] = worker[q]
    BY <1>6, <2>1, WorkerMoves DEF ReceiveReply, WorkerGoes
  <2>. QED BY <1>1, <1>2, <1>3, <1>4, <1>6, <2>2, WorkerFrame
           DEF ReceiveReply, WorkerGoes, billing
<1>7. ASSUME NEW ack \in Acks, Reserve(r, ack)
      PROVE  TypeOK' /\ Others(r)
  <2> DEFINE state == IF Written(ack) THEN "held" ELSE hold[r]
             pc == IF Confirmed(TRUE, ack) THEN "reserved" ELSE "error"
  <2>1. /\ state \in {"absent", "settled", "released"} \cup OpenStates
        /\ pc \in WorkerSteps \cup Replies
    BY <1>1, <1>2, <1>3 DEF WorkerSteps, Replies, OpenStates
  <2>2. /\ hold' = [hold EXCEPT ![r] = state]
        /\ worker' = [worker EXCEPT ![r] = Call(pc, None)]
    BY <1>7 DEF Reserve
  <2>. HIDE DEF state, pc
  <2>3. /\ worker' \in [Requests -> CallAt(WorkerSteps \cup Replies)]
        /\ \A q \in Requests \ {r} : worker'[q] = worker[q]
    BY <2>1, <2>2, Reports, WorkerMoves
  <2>. QED BY <1>1, <1>2, <1>3, <1>4, <1>7, <2>1, <2>2, <2>3, WorkerFrame DEF Reserve
<1>8. ASSUME NEW ack \in Acks, NEW reply \in Replies, ReleaseHeld(r, ack, reply)
      PROVE  TypeOK' /\ Others(r)
  <2> DEFINE state == IF hold[r] = "held" /\ Written(ack) THEN "released" ELSE hold[r]
             pc == IF Confirmed(hold[r] = "held", ack) THEN reply ELSE "error"
  <2>1. /\ state \in {"absent", "settled", "released"} \cup OpenStates
        /\ pc \in WorkerSteps \cup Replies
    BY <1>1, <1>2, <1>3, <1>8 DEF Replies
  <2>2. /\ hold' = [hold EXCEPT ![r] = state]
        /\ worker' = [worker EXCEPT ![r] = Call(pc, None)]
    BY <1>8 DEF ReleaseHeld
  <2>. HIDE DEF state, pc
  <2>3. /\ worker' \in [Requests -> CallAt(WorkerSteps \cup Replies)]
        /\ \A q \in Requests \ {r} : worker'[q] = worker[q]
    BY <2>1, <2>2, Reports, WorkerMoves
  <2>. QED BY <1>1, <1>2, <1>3, <1>4, <1>8, <2>1, <2>2, <2>3, WorkerFrame DEF ReleaseHeld
<1>9. ASSUME NEW ack \in Acks, Cancel(r, ack) \/ UndoDispatch(r, ack)
      PROVE  TypeOK' /\ Others(r)
  BY <1>8, <1>9 DEF Cancel, UndoDispatch, Replies
<1>10. ASSUME NEW ack \in Acks, BeginDispatch(r, ack)
      PROVE  TypeOK' /\ Others(r)
  <2> DEFINE started == hold[r] = "held" /\ switch["billing"] /\ ~expired[r] /\ Written(ack)
             sent == started /\ ack = "done"
             state == IF started THEN "started" ELSE hold[r]
             pc == IF sent THEN "waiting" ELSE "undoing"
             to == IF sent THEN posts[r] \cup {"gateway"} ELSE posts[r]
  <2>1. /\ state \in {"absent", "settled", "released"} \cup OpenStates
        /\ pc \in WorkerSteps \cup Replies
        /\ to \in SUBSET {"gateway", "adapter"}
    BY <1>1, <1>2, <1>3 DEF WorkerSteps, OpenStates
  <2>2. /\ hold' = [hold EXCEPT ![r] = state]
        /\ worker' = [worker EXCEPT ![r] = Call(pc, None)]
        /\ posts' = [posts EXCEPT ![r] = to]
    BY <1>10 DEF BeginDispatch
  <2>. HIDE DEF started, sent, state, pc, to
  <2>3. /\ worker' \in [Requests -> CallAt(WorkerSteps \cup Replies)]
        /\ \A q \in Requests \ {r} : worker'[q] = worker[q]
    BY <2>1, <2>2, Reports, WorkerMoves
  <2>. QED BY <1>1, <1>2, <1>3, <1>4, <1>10, <2>1, <2>2, <2>3, WorkerFrame DEF BeginDispatch
<1>11. ASSUME NEW ack \in Acks, ReleaseRejected(r, ack)
      PROVE  TypeOK' /\ Others(r)
  <2> DEFINE state == IF hold[r] \in OpenStates /\ Written(ack) THEN "released" ELSE hold[r]
             pc == IF Confirmed(hold[r] \in OpenStates, ack) THEN "rejected" ELSE "error"
  <2>1. /\ state \in {"absent", "settled", "released"} \cup OpenStates
        /\ pc \in WorkerSteps \cup Replies
    BY <1>1, <1>2, <1>3 DEF Replies
  <2>2. /\ hold' = [hold EXCEPT ![r] = state]
        /\ worker' = [worker EXCEPT ![r].pc = pc]
    BY <1>11 DEF ReleaseRejected
  <2>. HIDE DEF state, pc
  <2>3. /\ worker' \in [Requests -> CallAt(WorkerSteps \cup Replies)]
        /\ \A q \in Requests \ {r} : worker'[q] = worker[q]
    BY <2>1, <2>2, WorkerGoesOn
  <2>. QED BY <1>1, <1>2, <1>3, <1>4, <1>11, <2>1, <2>2, <2>3, WorkerFrame DEF ReleaseRejected
<1>12. ASSUME NEW ack \in Acks, SettleReply(r, ack)
      PROVE  TypeOK' /\ Others(r)
  <2>0. worker[r].answer.usage \in Usages \cup {NoUsage}
    BY ReportKinds DEF TypeOK, CallAt
  <2> DEFINE open == hold[r] \in {"started", "unknown"}
             state == IF open /\ Written(ack) THEN "settled" ELSE hold[r]
             usage == IF open /\ Written(ack) THEN worker[r].answer.usage ELSE booked[r]
             pc == IF Confirmed(open, ack) THEN "output" ELSE "holding"
  <2>1. /\ state \in {"absent", "settled", "released"} \cup OpenStates
        /\ pc \in WorkerSteps \cup Replies
        /\ usage \in Usages \cup {NoUsage}
    BY <2>0, <1>1, <1>2, <1>3 DEF WorkerSteps, Replies
  <2>2. /\ hold' = [hold EXCEPT ![r] = state]
        /\ worker' = [worker EXCEPT ![r].pc = pc]
        /\ booked' = [booked EXCEPT ![r] = usage]
    BY <1>12 DEF SettleReply
  <2>. HIDE DEF open, state, usage, pc
  <2>3. /\ worker' \in [Requests -> CallAt(WorkerSteps \cup Replies)]
        /\ \A q \in Requests \ {r} : worker'[q] = worker[q]
    BY <2>1, <2>2, WorkerGoesOn
  <2>. QED BY <1>1, <1>2, <1>3, <1>4, <1>12, <2>1, <2>2, <2>3, WorkerFrame DEF SettleReply
<1>13. ASSUME NEW ack \in Acks, StopBilling(r, ack)
       PROVE  TypeOK' /\ Others(r)
  <2>1. "holding" \in WorkerSteps \cup Replies
    BY DEF WorkerSteps
  <2>2. /\ worker' \in [Requests -> CallAt(WorkerSteps \cup Replies)]
        /\ \A q \in Requests \ {r} : worker'[q] = worker[q]
    BY <1>13, <2>1, WorkerGoesOn DEF StopBilling
  <2>3. switch' \in [Switches -> BOOLEAN]
    BY <1>4, <1>13 DEF StopBilling, Switches
  <2>. QED BY <1>1, <1>2, <1>3, <1>13, <2>2, <2>3, WorkerFrame DEF StopBilling, billing
<1>14. ASSUME NEW ack \in Acks, MarkUnknown(r, ack)
      PROVE  TypeOK' /\ Others(r)
  <2> DEFINE state == IF Written(ack) THEN InDoubt(hold[r]) ELSE hold[r]
             pc == "reconcile"
  <2>1. /\ state \in {"absent", "settled", "released"} \cup OpenStates
        /\ pc \in WorkerSteps \cup Replies
    BY <1>1, <1>2, <1>3 DEF InDoubt, Replies, OpenStates
  <2>2. /\ hold' = [hold EXCEPT ![r] = state]
        /\ worker' = [worker EXCEPT ![r].pc = pc]
    BY <1>14 DEF MarkUnknown
  <2>. HIDE DEF state, pc
  <2>3. /\ worker' \in [Requests -> CallAt(WorkerSteps \cup Replies)]
        /\ \A q \in Requests \ {r} : worker'[q] = worker[q]
    BY <2>1, <2>2, WorkerGoesOn
  <2>. QED BY <1>1, <1>2, <1>3, <1>4, <1>14, <2>1, <2>2, <2>3, WorkerFrame DEF MarkUnknown
<1>. QED BY <1>5, <1>6, <1>7, <1>9, <1>10, <1>11, <1>12, <1>13, <1>14 DEF Worker

LEMMA GateEffect ==
  ASSUME TypeOK, NEW r \in Requests, NEW k \in GateCopies,
         NEW pc \in GateSteps, NEW answer \in Report, GateGoes(r, k, pc, answer),
         switch' \in [Switches -> BOOLEAN],
         NEW receipt \in Report, gateReceipt' = [gateReceipt EXCEPT ![r] = receipt],
         NEW to \in SUBSET {"gateway", "adapter"}, posts' = [posts EXCEPT ![r] = to],
         UNCHANGED <<billing, worker, adapter>>
  PROVE  TypeOK' /\ Others(r)
<1>1. gate' \in [Requests -> [GateCopies -> CallAt(GateSteps)]]
      /\ \A q \in Requests \ {r} : gate'[q] = gate[q]
  BY GateMoves
<1>2. gateReceipt' \in [Requests -> Report] /\ posts' \in [Requests -> SUBSET {"gateway", "adapter"}]
  BY DEF TypeOK
<1>3. \A q \in Requests \ {r} : gateReceipt'[q] = gateReceipt[q] /\ posts'[q] = posts[q]
  BY DEF TypeOK
<1>. QED BY <1>1, <1>2, <1>3 DEF TypeOK, Others, Same, billing, adapter

LEMMA GatewayEffect ==
  ASSUME TypeOK, NEW r \in Requests, NEW k \in GateCopies, Gateway(r, k)
  PROVE  TypeOK' /\ Others(r)
<1>0. /\ gateReceipt[r] \in Report /\ gateReceipt = [gateReceipt EXCEPT ![r] = gateReceipt[r]]
      /\ posts[r] \in SUBSET {"gateway", "adapter"} /\ posts = [posts EXCEPT ![r] = posts[r]]
      /\ gate[r][k].answer \in Report
      /\ \A j \in AdaptCopies : adapt[r][j].answer \in Report
      /\ switch \in [Switches -> BOOLEAN]
  BY DEF TypeOK, CallAt
<1>1. ASSUME NEW pc \in GateSteps, NEW answer \in Report, GateGoes(r, k, pc, answer),
             UNCHANGED <<billing, switch, worker, posts, gateReceipt, adapter>>
      PROVE  TypeOK' /\ Others(r)
  BY <1>0, <1>1, GateEffect
<1>2. CASE GateReceive(r, k)
  BY <1>1, <1>2, Reports DEF GateReceive, GateSteps
<1>3. CASE GateCheck(r, k)
  BY <1>1, <1>3, Reports DEF GateCheck, GateSteps
<1>4. CASE GateTurnAway(r, k)
  BY <1>1, <1>4, Reports DEF GateTurnAway, GateSteps
<1>5. ASSUME NEW j \in AdaptCopies, GateHear(r, k, j)
      PROVE  TypeOK' /\ Others(r)
  BY <1>0, <1>1, <1>5, Reports DEF GateHear, GateSteps
<1>6. CASE GateLoseAnswer(r, k)
  BY <1>1, <1>6, Reports DEF GateLoseAnswer, GateSteps
<1>7. CASE GateForward(r, k)
  <2>1. posts[r] \cup {"adapter"} \in SUBSET {"gateway", "adapter"}
    BY <1>0
  <2>2. GateGoes(r, k, "calling", None) /\ "calling" \in GateSteps /\ None \in Report
    BY <1>7, Reports DEF GateForward, GateSteps
  <2>. QED BY <1>0, <1>7, <2>1, <2>2, GateEffect DEF GateForward
<1>8. ASSUME NEW ack \in Acks, GateClaim(r, k, ack)
      PROVE  TypeOK' /\ Others(r)
  <2> DEFINE receipt == IF gateReceipt[r] = None /\ Written(ack) THEN Plain("dispatching")
                        ELSE gateReceipt[r]
  <2>1. receipt \in Report /\ gateReceipt' = [gateReceipt EXCEPT ![r] = receipt]
    BY <1>0, <1>8, Reports DEF GateClaim
  <2>2. \E pc \in GateSteps : \E answer \in Report : GateGoes(r, k, pc, answer)
    BY <1>8, Reports DEF GateClaim, GateSteps
  <2>. HIDE DEF receipt
  <2>. QED BY <1>0, <1>8, <2>1, <2>2, GateEffect DEF GateClaim
<1>9. ASSUME NEW ack \in Acks, GateSave(r, k, ack)
      PROVE  TypeOK' /\ Others(r)
  <2> DEFINE saved == IF Written(ack) THEN Finalized(gateReceipt[r], gate[r][k].answer)
                      ELSE gateReceipt[r]
  <2>1. saved \in Report /\ gateReceipt' = [gateReceipt EXCEPT ![r] = saved]
    BY <1>0, <1>9, Updates DEF GateSave
  <2>2. \E pc \in GateSteps : \E answer \in Report : GateGoes(r, k, pc, answer)
    BY <1>0, <1>9, Reports DEF GateSave, GateSteps
  <2>. HIDE DEF saved
  <2>. QED BY <1>0, <1>9, <2>1, <2>2, GateEffect DEF GateSave
<1>10. ASSUME NEW ack \in Acks, NEW stopped \in BOOLEAN, GateFail(r, k, ack, stopped)
       PROVE  TypeOK' /\ Others(r)
  <2> DEFINE receipt == IF Written(ack) THEN Doubted(gateReceipt[r]) ELSE gateReceipt[r]
  <2>1. receipt \in Report /\ gateReceipt' = [gateReceipt EXCEPT ![r] = receipt]
    BY <1>0, <1>10, Updates DEF GateFail
  <2>2. GateGoes(r, k, "answered", Refused) /\ "answered" \in GateSteps /\ Refused \in Report
    BY <1>10, Reports DEF GateFail, GateSteps
  <2>3. switch' \in [Switches -> BOOLEAN]
    BY <1>0, <1>10 DEF GateFail
  <2>. HIDE DEF receipt
  <2>. QED BY <1>0, <1>10, <2>1, <2>2, <2>3, GateEffect DEF GateFail
<1>. QED
  BY <1>2, <1>3, <1>4, <1>5, <1>6, <1>7, <1>8, <1>9, <1>10, Zenon DEF Gateway

LEMMA AdaptEffect ==
  ASSUME TypeOK, NEW r \in Requests, NEW j \in AdaptCopies,
         NEW pc \in AdaptSteps, NEW answer \in Report, AdaptGoes(r, j, pc, answer),
         switch' \in [Switches -> BOOLEAN],
         NEW receipt \in Report, adaptReceipt' = [adaptReceipt EXCEPT ![r] = receipt],
         NEW u \in Usages \cup {NoUsage}, evidence' = [evidence EXCEPT ![r] = u],
         NEW v \in Usages \cup {NoUsage}, bill' = [bill EXCEPT ![r][j] = v],
         UNCHANGED <<billing, worker, posts, gateway>>
  PROVE  TypeOK' /\ Others(r)
<1>1. adapt' \in [Requests -> [AdaptCopies -> CallAt(AdaptSteps)]]
      /\ \A q \in Requests \ {r} : adapt'[q] = adapt[q]
  BY AdaptMoves
<1>2. /\ adaptReceipt' \in [Requests -> Report]
      /\ evidence' \in [Requests -> Usages \cup {NoUsage}]
      /\ bill' \in [Requests -> [AdaptCopies -> Usages \cup {NoUsage}]]
  BY DEF TypeOK
<1>3. \A q \in Requests \ {r} :
        adaptReceipt'[q] = adaptReceipt[q] /\ evidence'[q] = evidence[q] /\ bill'[q] = bill[q]
  BY DEF TypeOK
<1>. QED BY <1>1, <1>2, <1>3 DEF TypeOK, Others, Same, billing, gateway

LEMMA AdapterEffect ==
  ASSUME TypeOK, NEW r \in Requests, NEW j \in AdaptCopies, Adapter(r, j)
  PROVE  TypeOK' /\ Others(r)
<1>0. /\ adaptReceipt[r] \in Report
      /\ adaptReceipt = [adaptReceipt EXCEPT ![r] = adaptReceipt[r]]
      /\ evidence[r] \in Usages \cup {NoUsage} /\ evidence = [evidence EXCEPT ![r] = evidence[r]]
      /\ bill[r][j] \in Usages \cup {NoUsage} /\ bill = [bill EXCEPT ![r][j] = bill[r][j]]
      /\ adapt[r][j].answer \in Report
      /\ adapt[r][j].answer.usage \in Usages \cup {NoUsage}
      /\ switch \in [Switches -> BOOLEAN]
  BY ReportKinds DEF TypeOK, CallAt
<1>1. ASSUME NEW pc \in AdaptSteps, NEW answer \in Report, AdaptGoes(r, j, pc, answer),
             UNCHANGED <<billing, switch, worker, posts, gateway, adaptReceipt, evidence, bill>>
      PROVE  TypeOK' /\ Others(r)
  BY <1>0, <1>1, AdaptEffect
<1>2. CASE AdaptReceive(r, j)
  BY <1>1, <1>2, Reports DEF AdaptReceive, AdaptSteps
<1>3. CASE AdaptCheck(r, j)
  BY <1>1, <1>3, Reports DEF AdaptCheck, AdaptSteps
<1>4. CASE AdaptPass(r, j)
  BY <1>1, <1>4, Reports DEF AdaptPass, AdaptSteps
<1>5. CASE AdaptTurnAway(r, j)
  BY <1>1, <1>5, Reports DEF AdaptTurnAway, AdaptSteps
<1>6. CASE VendorUnreached(r, j)
  BY <1>1, <1>6, Reports DEF VendorUnreached, AfterDispatchError, AdaptSteps
<1>7. ASSUME NEW u \in Usages, VendorBills(r, j, u)
      PROVE  TypeOK' /\ Others(r)
  <2>1. \E pc \in AdaptSteps : \E answer \in Report : AdaptGoes(r, j, pc, answer)
    BY <1>7, Reports DEF VendorBills, AfterDispatchError, AdaptSteps
  <2>. QED BY <1>0, <1>7, <2>1, AdaptEffect DEF VendorBills
<1>8. ASSUME NEW ack \in Acks, AdaptClaim(r, j, ack)
      PROVE  TypeOK' /\ Others(r)
  <2> DEFINE receipt == IF adaptReceipt[r] = None /\ Written(ack) THEN Plain("dispatching")
                        ELSE adaptReceipt[r]
  <2>1. receipt \in Report /\ adaptReceipt' = [adaptReceipt EXCEPT ![r] = receipt]
    BY <1>0, <1>8, Reports DEF AdaptClaim
  <2>2. \E pc \in AdaptSteps : \E answer \in Report : AdaptGoes(r, j, pc, answer)
    BY <1>8, Reports DEF AdaptClaim, AdaptSteps
  <2>. HIDE DEF receipt
  <2>. QED BY <1>0, <1>8, <2>1, <2>2, AdaptEffect DEF AdaptClaim
<1>9. ASSUME NEW ack \in Acks, AdaptReject(r, j, ack)
      PROVE  TypeOK' /\ Others(r)
  <2> DEFINE saved == IF Written(ack) THEN Finalized(adaptReceipt[r], Rejected) ELSE adaptReceipt[r]
  <2>1. saved \in Report /\ adaptReceipt' = [adaptReceipt EXCEPT ![r] = saved]
    BY <1>0, <1>9, Reports, Updates DEF AdaptReject
  <2>2. \E pc \in AdaptSteps : \E answer \in Report : AdaptGoes(r, j, pc, answer)
    BY <1>0, <1>9, Reports DEF AdaptReject, AdaptSteps
  <2>. HIDE DEF saved
  <2>. QED BY <1>0, <1>9, <2>1, <2>2, AdaptEffect DEF AdaptReject
<1>10. ASSUME NEW ack \in Acks, AdaptRecord(r, j, ack)
       PROVE  TypeOK' /\ Others(r)
  <2> DEFINE u == IF evidence[r] = NoUsage /\ adaptReceipt[r].kind \in {"dispatching", "unknown"}
                     /\ Written(ack)
                  THEN adapt[r][j].answer.usage ELSE evidence[r]
  <2>1. u \in Usages \cup {NoUsage} /\ evidence' = [evidence EXCEPT ![r] = u]
    BY <1>0, <1>10 DEF AdaptRecord
  <2>2. \E pc \in AdaptSteps : \E answer \in Report : AdaptGoes(r, j, pc, answer)
    BY <1>0, <1>10, Reports DEF AdaptRecord, AdaptSteps
  <2>. HIDE DEF u
  <2>. QED BY <1>0, <1>10, <2>1, <2>2, AdaptEffect DEF AdaptRecord
<1>11. ASSUME NEW ack \in Acks, AdaptSave(r, j, ack)
       PROVE  TypeOK' /\ Others(r)
  <2> DEFINE saved == IF Written(ack) THEN Finalized(adaptReceipt[r], adapt[r][j].answer)
                      ELSE adaptReceipt[r]
  <2>1. saved \in Report /\ adaptReceipt' = [adaptReceipt EXCEPT ![r] = saved]
    BY <1>0, <1>11, Updates DEF AdaptSave
  <2>2. \E pc \in AdaptSteps : \E answer \in Report : AdaptGoes(r, j, pc, answer)
    BY <1>0, <1>11, Reports DEF AdaptSave, AdaptSteps
  <2>. HIDE DEF saved
  <2>. QED BY <1>0, <1>11, <2>1, <2>2, AdaptEffect DEF AdaptSave
<1>12. ASSUME NEW ack \in Acks, NEW stopped \in BOOLEAN, AdaptFail(r, j, ack, stopped)
       PROVE  TypeOK' /\ Others(r)
  <2> DEFINE receipt == IF Written(ack) THEN Doubted(adaptReceipt[r]) ELSE adaptReceipt[r]
  <2>1. receipt \in Report /\ adaptReceipt' = [adaptReceipt EXCEPT ![r] = receipt]
    BY <1>0, <1>12, Updates DEF AdaptFail
  <2>2. AdaptGoes(r, j, "answered", Refused) /\ "answered" \in AdaptSteps /\ Refused \in Report
    BY <1>12, Reports DEF AdaptFail, AdaptSteps
  <2>3. switch' \in [Switches -> BOOLEAN]
    BY <1>0, <1>12 DEF AdaptFail
  <2>. HIDE DEF receipt
  <2>. QED BY <1>0, <1>12, <2>1, <2>2, <2>3, AdaptEffect DEF AdaptFail
<1>. QED
  BY <1>2, <1>3, <1>4, <1>5, <1>6, <1>7, <1>8, <1>9, <1>10, <1>11, <1>12, Zenon DEF Adapter

LEMMA OperatorEffect ==
  ASSUME TypeOK, NEW r \in Requests, Operator(r) \/ Expire(r) \/ Sweep(r)
  PROVE  TypeOK' /\ Others(r)
<1>. USE DEF billing, gateway, adapter, Others, Same
<1>1. ASSUME NEW ack \in Acks, Recover(r, ack)
      PROVE  TypeOK' /\ Others(r)
  <2>1. ProjectedReceipt(r) \in Report
    BY Reports DEF TypeOK, ProjectedReceipt
  <2>2. Finalized(gateReceipt[r], ProjectedReceipt(r)) \in Report
    BY <2>1, Updates DEF TypeOK
  <2>. QED BY <1>1, <2>2 DEF Recover, TypeOK
<1>2. ASSUME NEW ack \in Acks, NEW stopped \in BOOLEAN, RecoverInVain(r, ack, stopped)
      PROVE  TypeOK' /\ Others(r)
  <2>1. Doubted(gateReceipt[r]) \in Report
    BY Updates DEF TypeOK
  <2>. QED BY <1>2, <2>1 DEF RecoverInVain, TypeOK, Switches
<1>3. ASSUME NEW ack \in Acks, Reconcile(r, ack)
      PROVE  TypeOK' /\ Others(r)
  <2>1. gateReceipt[r].usage \in Usages \cup {NoUsage}
    BY ReportKinds DEF TypeOK
  <2>. QED BY <1>3, <2>1 DEF Reconcile, TypeOK
<1>4. CASE Expire(r)
  BY <1>4 DEF Expire, TypeOK
<1>5. CASE Sweep(r)
  BY <1>5 DEF Sweep, TypeOK
<1>. QED BY <1>1, <1>2, <1>3, <1>4, <1>5 DEF Operator

LEMMA SwitchEffect ==
  ASSUME TypeOK, NEW s \in Switches, NEW on \in BOOLEAN, SetSwitch(s, on)
  PROVE  TypeOK' /\ \A q \in Requests : Same(q)
  BY DEF SetSwitch, TypeOK, Switches, Same, billing, gateway, adapter

-----------------------------------------------------------------------------
(* A step of one service keeps what the others know *)

LEMMA AdapterFrame ==
  ASSUME NEW r \in Requests, OneAdapterCall(r), AdapterRecords(r),
         adapt'[r] = adapt[r], adaptReceipt'[r] = adaptReceipt[r],
         evidence'[r] = evidence[r], bill'[r] = bill[r],
         "adapter" \in posts[r] => "adapter" \in posts'[r]
  PROVE  OneAdapterCall(r)' /\ AdapterRecords(r)'
  BY DEF OneAdapterCall, AdapterRecords, Touched, Terminal

LEMMA GatewayFrame ==
  ASSUME NEW r \in Requests, OneGatewayCall(r), GatewayRecords(r),
         gate'[r] = gate[r], gateReceipt'[r] = gateReceipt[r],
         "gateway" \in posts[r] => "gateway" \in posts'[r],
         "adapter" \in posts'[r] <=> "adapter" \in posts[r],
         adaptReceipt[r].kind = "rejected" => adaptReceipt'[r].kind = "rejected",
         evidence[r] # NoUsage => evidence'[r] = evidence[r]
  PROVE  OneGatewayCall(r)' /\ GatewayRecords(r)'
  BY DEF OneGatewayCall, GatewayRecords, Unbilled, Terminal

LEMMA HoldFrame ==
  ASSUME NEW r \in Requests, HoldRecords(r),
         hold'[r] = hold[r], booked'[r] = booked[r], worker'[r] = worker[r],
         Terminal(gateReceipt[r]) => gateReceipt'[r] = gateReceipt[r],
         "gateway" \in posts'[r] <=> "gateway" \in posts[r]
  PROVE  HoldRecords(r)'
  BY PlainReports DEF HoldRecords, Terminal

LEMMA RequestFrame ==
  ASSUME NEW q \in Requests, RequestInv(q), Same(q)
  PROVE  RequestInv(q)'
  BY AdapterFrame, GatewayFrame, HoldFrame DEF RequestInv, Same

-----------------------------------------------------------------------------
(* The Worker's steps *)

LEMMA WorkerKeeps ==
  ASSUME TypeOK, NEW r \in Requests, RequestInv(r), Worker(r)
  PROVE  RequestInv(r)'
<1>. USE DEF billing, gateway, adapter
<1>0. /\ hold \in [Requests -> {"absent", "settled", "released"} \cup OpenStates]
      /\ booked \in [Requests -> Usages \cup {NoUsage}]
      /\ posts \in [Requests -> SUBSET {"gateway", "adapter"}]
      /\ worker \in [Requests -> CallAt(WorkerSteps \cup Replies)]
      /\ gateReceipt[r] \in Report
  BY DEF TypeOK
<1>1. ASSUME HoldRecords(r)', UNCHANGED <<gateway, adapter>>,
             "adapter" \in posts'[r] <=> "adapter" \in posts[r],
             "gateway" \in posts[r] => "gateway" \in posts'[r]
      PROVE  RequestInv(r)'
  BY <1>1, AdapterFrame, GatewayFrame DEF RequestInv
<1>2. CASE GiveUp(r)
  <2>1. HoldRecords(r)'
    BY <1>0, <1>2 DEF RequestInv, HoldRecords, GiveUp, WorkerGoes, Call, CallAt
  <2>. QED BY <1>1, <1>2, <2>1 DEF GiveUp, WorkerGoes
<1>3. ASSUME NEW k \in GateCopies, ReceiveReply(r, k)
      PROVE  RequestInv(r)'
  <2>1. Terminal(gate[r][k].answer) => gate[r][k].answer = gateReceipt[r]
    BY <1>3 DEF ReceiveReply, RequestInv, OneGatewayCall
  <2>2. HoldRecords(r)'
    BY <1>0, <1>3, <2>1
       DEF RequestInv, HoldRecords, ReceiveReply, WorkerGoes, AfterReply, Call, CallAt, Terminal
  <2>. QED BY <1>1, <1>3, <2>2 DEF ReceiveReply, WorkerGoes
<1>4. ASSUME NEW ack \in Acks, Reserve(r, ack)
      PROVE  RequestInv(r)'
  <2>1. HoldRecords(r)'
    BY <1>0, <1>4 DEF RequestInv, HoldRecords, Reserve, Call, CallAt
  <2>. QED BY <1>1, <1>4, <2>1 DEF Reserve
<1>5. ASSUME NEW ack \in Acks, NEW reply, reply \in {"cancelled", "error"}, ReleaseHeld(r, ack, reply)
      PROVE  RequestInv(r)'
  <2>1. HoldRecords(r)'
    BY <1>0, <1>5 DEF RequestInv, HoldRecords, ReleaseHeld, Confirmed, Written, Call, CallAt
  <2>. QED BY <1>1, <1>5, <2>1 DEF ReleaseHeld
<1>6. ASSUME NEW ack \in Acks, BeginDispatch(r, ack)
      PROVE  RequestInv(r)'
  <2>1. HoldRecords(r)'
    BY <1>0, <1>6 DEF RequestInv, HoldRecords, BeginDispatch, Call, CallAt
  <2>. QED BY <1>0, <1>1, <1>6, <2>1 DEF BeginDispatch
<1>7. ASSUME NEW ack \in Acks, ReleaseRejected(r, ack)
      PROVE  RequestInv(r)'
  <2>1. HoldRecords(r)'
    BY <1>0, <1>7
       DEF RequestInv, HoldRecords, ReleaseRejected, Confirmed, Written, CallAt, OpenStates
  <2>. QED BY <1>1, <1>7, <2>1 DEF ReleaseRejected
<1>8. ASSUME NEW ack \in Acks, SettleReply(r, ack)
      PROVE  RequestInv(r)'
  <2>1. gateReceipt[r] = Completed(gateReceipt[r].usage) /\ gateReceipt[r].usage # NoUsage
        /\ worker[r].answer = gateReceipt[r]
    BY <1>0, <1>8, ReportKinds, DispatchAssumption DEF SettleReply, RequestInv, HoldRecords
  <2>2. HoldRecords(r)'
    BY <1>0, <1>8, <2>1
       DEF RequestInv, HoldRecords, SettleReply, Confirmed, Written, CallAt
  <2>. QED BY <1>1, <1>8, <2>2 DEF SettleReply
<1>9. ASSUME NEW ack \in Acks, StopBilling(r, ack)
      PROVE  RequestInv(r)'
  <2>1. HoldRecords(r)'
    BY <1>0, <1>9 DEF RequestInv, HoldRecords, StopBilling, CallAt
  <2>. QED BY <1>1, <1>9, <2>1 DEF StopBilling
<1>10. ASSUME NEW ack \in Acks, MarkUnknown(r, ack)
       PROVE  RequestInv(r)'
  <2>1. HoldRecords(r)'
    BY <1>0, <1>10 DEF RequestInv, HoldRecords, MarkUnknown, InDoubt, CallAt
  <2>. QED BY <1>1, <1>10, <2>1 DEF MarkUnknown
<1>. QED
  BY <1>2, <1>3, <1>4, <1>5, <1>6, <1>7, <1>8, <1>9, <1>10 DEF Worker, Cancel, UndoDispatch

-----------------------------------------------------------------------------
(* The gateway's steps *)

\* What may be written to the gateway's receipt, and what a call may come to hold.
GateMay(r, k, pc, answer, receipt) ==
  /\ Terminal(gateReceipt[r]) => receipt = gateReceipt[r]
  /\ gateReceipt[r].kind # "none" => receipt.kind # "none"
  /\ receipt.kind # "refused"
  /\ receipt.kind = "rejected" => Unbilled(r)
  /\ receipt.kind = "completed" => evidence[r] # NoUsage /\ receipt = Completed(evidence[r])
  /\ receipt = gateReceipt[r] \/ gate[r][k].pc \in GateOwning \/ gateReceipt[r].kind = "none"
  /\ pc \in GateOwning =>
       receipt.kind # "none" /\ (gate[r][k].pc \in GateOwning \/ gateReceipt[r].kind = "none")
  /\ pc = "gated" => "adapter" \notin posts[r] /\ ~Terminal(receipt)
  /\ pc = "saving" =>
       \/ answer = Rejected /\ Unbilled(r)
       \/ answer = Completed(evidence[r]) /\ evidence[r] # NoUsage
  /\ pc = "answered" /\ Terminal(answer) => answer = receipt

LEMMA GateStep ==
  ASSUME TypeOK, NEW r \in Requests, NEW k \in GateCopies, RequestInv(r),
         NEW pc \in GateSteps, NEW answer \in Report, GateGoes(r, k, pc, answer),
         NEW receipt \in Report, GateMay(r, k, pc, answer, receipt),
         gateReceipt' = [gateReceipt EXCEPT ![r] = receipt],
         "gateway" \in posts[r],
         UNCHANGED <<billing, worker, posts, adapter>>
  PROVE  RequestInv(r)'
<1>0. gateReceipt'[r] = receipt
  BY DEF TypeOK
<1>1. OneAdapterCall(r)' /\ AdapterRecords(r)'
  BY AdapterFrame DEF RequestInv, adapter
<1>2. HoldRecords(r)'
  BY <1>0, HoldFrame DEF RequestInv, GateMay, billing
<1>3. /\ gate'[r][k].pc = pc /\ gate'[r][k].answer = answer
      /\ \A l \in GateCopies \ {k} : gate'[r][l] = gate[r][l]
  BY GateMoves
<1>4. adaptReceipt' = adaptReceipt /\ evidence' = evidence /\ posts' = posts
  BY DEF adapter
<1>5. Unbilled(r)' <=> Unbilled(r)
  BY <1>4 DEF Unbilled
<1>6. GatewayRecords(r)'
  BY <1>0, <1>3, <1>4, <1>5 DEF RequestInv, GatewayRecords, GateMay
<1>7. \A l \in GateCopies \ {k} : gate[r][l].pc \in GateOwning =>
        ~(pc \in GateOwning) /\ receipt = gateReceipt[r]
  BY DEF RequestInv, OneGatewayCall, GateMay
<1>8. \A i, l \in GateCopies :
        gate'[r][i].pc \in GateOwning /\ gate'[r][l].pc \in GateOwning => i = l
  BY <1>3, <1>7 DEF RequestInv, OneGatewayCall
<1>9. ASSUME NEW l \in GateCopies
      PROVE  /\ gate'[r][l].pc \in GateOwning => receipt.kind # "none"
             /\ gate'[r][l].pc = "gated" => "adapter" \notin posts[r] /\ ~Terminal(receipt)
             /\ gate'[r][l].pc = "saving" =>
                  \/ gate'[r][l].answer = Rejected /\ Unbilled(r)
                  \/ gate'[r][l].answer = Completed(evidence[r]) /\ evidence[r] # NoUsage
             /\ gate'[r][l].pc = "answered" /\ Terminal(gate'[r][l].answer) =>
                  gate'[r][l].answer = receipt
  <2>1. CASE l = k
    BY <1>3, <2>1 DEF GateMay
  <2>2. CASE l # k
    <3>1. gate'[r][l] = gate[r][l]
      BY <1>3, <2>2
    <3>2. gate[r][l].pc = "answered" /\ Terminal(gate[r][l].answer) => Terminal(gateReceipt[r])
      BY DEF RequestInv, OneGatewayCall
    <3>. QED BY <1>7, <2>2, <3>1, <3>2 DEF RequestInv, OneGatewayCall, GateMay, GateOwning
  <2>. QED BY <2>1, <2>2
<1>10. OneGatewayCall(r)'
  BY <1>0, <1>4, <1>5, <1>8, <1>9 DEF OneGatewayCall
<1>. QED BY <1>1, <1>2, <1>6, <1>10 DEF RequestInv

LEMMA GateForwardKeeps ==
  ASSUME TypeOK, NEW r \in Requests, NEW k \in GateCopies, RequestInv(r), GateForward(r, k)
  PROVE  RequestInv(r)'
<1>0. /\ posts'[r] = posts[r] \cup {"adapter"} /\ gateReceipt' = gateReceipt
      /\ adaptReceipt' = adaptReceipt /\ evidence' = evidence
  BY DEF GateForward, TypeOK, adapter
<1>1. OneAdapterCall(r)' /\ AdapterRecords(r)'
  BY <1>0, AdapterFrame DEF RequestInv, GateForward, adapter
<1>2. HoldRecords(r)'
  BY <1>0, HoldFrame DEF RequestInv, GateForward, billing
<1>3. /\ gate'[r][k].pc = "calling" /\ gate[r][k].pc = "gated"
      /\ \A l \in GateCopies \ {k} : gate'[r][l] = gate[r][l]
  BY GateMoves, Reports DEF GateForward, GateSteps
<1>4. "gateway" \in posts[r] /\ ~Terminal(gateReceipt[r])
  BY <1>3 DEF RequestInv, OneGatewayCall, GatewayRecords
<1>5. GatewayRecords(r)'
  BY <1>0, <1>3, <1>4 DEF RequestInv, OneGatewayCall, GatewayRecords, GateOwning, Terminal
<1>6. \A l \in GateCopies \ {k} : gate[r][l].pc \notin GateOwning
  BY <1>3 DEF RequestInv, OneGatewayCall, GateOwning
<1>7. OneGatewayCall(r)'
  <2>1. \A l \in GateCopies \ {k} : gate'[r][l].pc \notin GateOwning
    BY <1>3, <1>6
  <2>2. \A l \in GateCopies : gate'[r][l].pc \in GateOwning => l = k
    BY <2>1
  <2>3. gateReceipt[r].kind # "none"
    BY <1>3 DEF RequestInv, OneGatewayCall, GateOwning
  <2>4. \A l \in GateCopies : gate'[r][l].pc = "answered" => gate'[r][l] = gate[r][l]
    BY <1>3
  <2>. QED BY <1>0, <1>3, <2>2, <2>3, <2>4 DEF RequestInv, OneGatewayCall, GateOwning
<1>. QED BY <1>1, <1>2, <1>5, <1>7 DEF RequestInv

LEMMA GatewayKeeps ==
  ASSUME TypeOK, NEW r \in Requests, NEW k \in GateCopies, RequestInv(r), Gateway(r, k)
  PROVE  RequestInv(r)'
<1>0. /\ gateReceipt[r] \in Report /\ gateReceipt = [gateReceipt EXCEPT ![r] = gateReceipt[r]]
      /\ gate[r][k].answer \in Report
      /\ \A j \in AdaptCopies : adapt[r][j].answer \in Report
  BY DEF TypeOK, CallAt
<1>1. gate[r][k].pc # "idle" => "gateway" \in posts[r]
  BY DEF RequestInv, GatewayRecords
<1>2. ASSUME NEW pc \in GateSteps, NEW answer \in Report, GateGoes(r, k, pc, answer),
             gate[r][k].pc # "idle" \/ "gateway" \in posts[r],
             pc \in GateOwning => gate[r][k].pc \in GateOwning,
             pc # "gated",
             pc = "saving" =>
               \/ answer = Rejected /\ Unbilled(r)
               \/ answer = Completed(evidence[r]) /\ evidence[r] # NoUsage,
             pc = "answered" => ~Terminal(answer),
             UNCHANGED <<billing, switch, worker, posts, gateReceipt, adapter>>
      PROVE  RequestInv(r)'
  <2>1. GateMay(r, k, pc, answer, gateReceipt[r])
    BY <1>2 DEF GateMay, RequestInv, OneGatewayCall, GatewayRecords, Terminal
  <2>. QED BY <1>0, <1>1, <1>2, <2>1, GateStep
<1>3. CASE GateReceive(r, k)
  BY <1>2, <1>3, Reports, PlainReports DEF GateReceive, GateSteps, GateOwning, Terminal
<1>4. CASE GateCheck(r, k)
  BY <1>2, <1>4, Reports, PlainReports DEF GateCheck, GateSteps, GateOwning, Terminal
<1>5. CASE GateTurnAway(r, k)
  <2>1. Unbilled(r)
    BY <1>5 DEF GateTurnAway, RequestInv, OneGatewayCall, Unbilled
  <2>. QED BY <1>2, <1>5, <2>1, Reports DEF GateTurnAway, GateSteps, GateOwning
<1>6. ASSUME NEW j \in AdaptCopies, GateHear(r, k, j)
      PROVE  RequestInv(r)'
  <2>1. CASE Terminal(adapt[r][j].answer)
    <3>1. adapt[r][j].answer = adaptReceipt[r]
      BY <1>6, <2>1 DEF GateHear, RequestInv, AdapterRecords
    <3>2. adaptReceipt[r].kind = "rejected" => adaptReceipt[r] = Rejected
      BY ReportKinds DEF TypeOK, Rejected
    <3>3. \/ adapt[r][j].answer = Rejected /\ Unbilled(r)
          \/ adapt[r][j].answer = Completed(evidence[r]) /\ evidence[r] # NoUsage
      BY <2>1, <3>1, <3>2 DEF RequestInv, AdapterRecords, Unbilled, Terminal
    <3>. QED BY <1>0, <1>2, <1>6, <2>1, <3>3 DEF GateHear, GateSteps, GateOwning
  <2>2. CASE ~Terminal(adapt[r][j].answer)
    BY <1>2, <1>6, <2>2, Reports DEF GateHear, GateSteps, GateOwning
  <2>. QED BY <2>1, <2>2
<1>7. CASE GateLoseAnswer(r, k)
  BY <1>2, <1>7, Reports DEF GateLoseAnswer, GateSteps, GateOwning
<1>8. CASE GateForward(r, k)
  BY <1>8, GateForwardKeeps
<1>9. ASSUME NEW ack \in Acks, GateClaim(r, k, ack)
      PROVE  RequestInv(r)'
  <2> DEFINE receipt == IF gateReceipt[r] = None /\ Written(ack) THEN Plain("dispatching")
                        ELSE gateReceipt[r]
             claimed == Claimed(gateReceipt[r], ack)
             pc == IF claimed THEN "gated" ELSE "answered"
             answer == IF claimed THEN None ELSE Refused
  <2>1. /\ receipt \in Report /\ gateReceipt' = [gateReceipt EXCEPT ![r] = receipt]
        /\ pc \in GateSteps /\ answer \in Report /\ GateGoes(r, k, pc, answer)
    BY <1>0, <1>9, Reports DEF GateClaim, GateSteps
  <2>2. gateReceipt[r].kind = "none" => gateReceipt[r] = None
    BY <1>0, ReportKinds DEF None
  <2>3. claimed => "adapter" \notin posts[r] /\ receipt = Plain("dispatching")
    BY PlainReports DEF Claimed, Written, RequestInv, GatewayRecords
  <2>4. GateMay(r, k, pc, answer, receipt)
    BY <2>2, <2>3, PlainReports
       DEF GateMay, RequestInv, GatewayRecords, Terminal, Claimed, GateOwning
  <2>. HIDE DEF receipt, claimed, pc, answer
  <2>. QED BY <1>1, <1>9, <2>1, <2>4, GateStep DEF GateClaim
<1>10. ASSUME NEW ack \in Acks, GateSave(r, k, ack)
       PROVE  RequestInv(r)'
  <2> DEFINE payload == gate[r][k].answer
             saved == IF Written(ack) THEN Finalized(gateReceipt[r], payload) ELSE gateReceipt[r]
             heard == ack = "done" /\ saved = payload
             pc == IF heard THEN "answered" ELSE "failing"
             answer == IF heard THEN payload ELSE None
  <2>1. /\ saved \in Report /\ gateReceipt' = [gateReceipt EXCEPT ![r] = saved]
        /\ pc \in GateSteps /\ answer \in Report /\ GateGoes(r, k, pc, answer)
    BY <1>0, <1>10, Reports, Updates DEF GateSave, GateSteps
  <2>2. /\ gate[r][k].pc \in GateOwning /\ gateReceipt[r].kind # "none"
        /\ \/ payload = Rejected /\ Unbilled(r)
           \/ payload = Completed(evidence[r]) /\ evidence[r] # NoUsage
    BY <1>10 DEF GateSave, RequestInv, OneGatewayCall, GateOwning
  <2>3. saved = gateReceipt[r] \/ (saved = payload /\ ~Terminal(gateReceipt[r]))
    BY DEF Finalized, Terminal
  <2>4. GateMay(r, k, pc, answer, saved)
    <3>. HIDE DEF saved, payload
    <3>. QED BY <2>2, <2>3, PlainReports
             DEF GateMay, RequestInv, GatewayRecords, Terminal, GateOwning
  <2>. HIDE DEF saved, pc, answer
  <2>. QED BY <1>1, <1>10, <2>1, <2>4, GateStep DEF GateSave
<1>11. ASSUME NEW ack \in Acks, NEW stopped \in BOOLEAN, GateFail(r, k, ack, stopped)
       PROVE  RequestInv(r)'
  <2> DEFINE receipt == IF Written(ack) THEN Doubted(gateReceipt[r]) ELSE gateReceipt[r]
  <2>1. /\ receipt \in Report /\ gateReceipt' = [gateReceipt EXCEPT ![r] = receipt]
        /\ GateGoes(r, k, "answered", Refused) /\ "answered" \in GateSteps /\ Refused \in Report
    BY <1>0, <1>11, Updates, Reports DEF GateFail, GateSteps
  <2>2. gate[r][k].pc \in GateOwning
    BY <1>11 DEF GateFail, GateOwning
  <2>3. GateMay(r, k, "answered", Refused, receipt)
    BY <2>2, PlainReports
       DEF GateMay, RequestInv, GatewayRecords, Terminal, GateOwning, Doubted
  <2>. HIDE DEF receipt
  <2>. QED BY <1>1, <1>11, <2>1, <2>3, GateStep DEF GateFail
<1>. QED
  BY <1>3, <1>4, <1>5, <1>6, <1>7, <1>8, <1>9, <1>10, <1>11, Zenon DEF Gateway

-----------------------------------------------------------------------------
(* The adapter's steps *)

\* What may be written to the adapter's receipt, the evidence (u) and the vendor's
\* books (v), and what a call may come to hold.
AdaptMay(r, j, pc, answer, receipt, u, v) ==
  /\ Terminal(adaptReceipt[r]) => receipt = adaptReceipt[r]
  /\ receipt.kind # "refused"
  /\ adaptReceipt[r].kind # "none" => receipt.kind # "none"
  /\ evidence[r] # NoUsage => u = evidence[r]
  /\ bill[r][j] # NoUsage => v = bill[r][j]
  /\ \/ receipt = adaptReceipt[r] /\ u = evidence[r] /\ v = bill[r][j]
     \/ Touched(r, j) \/ adaptReceipt[r].kind = "none"
  /\ pc \in AdaptOwning \/ v # NoUsage =>
       receipt.kind # "none" /\ (Touched(r, j) \/ adaptReceipt[r].kind = "none")
  /\ u # NoUsage => u \in {evidence[r], v}
  /\ receipt.kind = "completed" => u # NoUsage /\ receipt = Completed(u)
  /\ receipt.kind = "rejected" => u = NoUsage /\ v = NoUsage
  /\ pc \in NotBilledYet => v = NoUsage
  /\ pc \in BeforeAnswer => receipt.kind = "dispatching" /\ u = NoUsage
  /\ pc = "rejectingAgain" => receipt.kind \in {"dispatching", "rejected"} /\ u = NoUsage
  /\ pc = "recording" => v # NoUsage /\ answer = Completed(v)
  /\ pc = "saving" => u # NoUsage /\ answer = Completed(u)
  /\ pc = "answered" /\ Terminal(answer) => answer = receipt

LEMMA AdaptStep ==
  ASSUME TypeOK, NEW r \in Requests, NEW j \in AdaptCopies, RequestInv(r),
         NEW pc \in AdaptSteps, NEW answer \in Report, AdaptGoes(r, j, pc, answer),
         NEW receipt \in Report, adaptReceipt' = [adaptReceipt EXCEPT ![r] = receipt],
         NEW u \in Usages \cup {NoUsage}, evidence' = [evidence EXCEPT ![r] = u],
         NEW v \in Usages \cup {NoUsage}, bill' = [bill EXCEPT ![r][j] = v],
         AdaptMay(r, j, pc, answer, receipt, u, v),
         "adapter" \in posts[r],
         UNCHANGED <<billing, worker, posts, gateway>>
  PROVE  RequestInv(r)'
<1>0. /\ adaptReceipt'[r] = receipt /\ evidence'[r] = u /\ posts' = posts
      /\ bill'[r][j] = v /\ \A i \in AdaptCopies \ {j} : bill'[r][i] = bill[r][i]
  BY DEF TypeOK
<1>1. OneGatewayCall(r)' /\ GatewayRecords(r)'
  <2>1. /\ adaptReceipt[r].kind = "rejected" => adaptReceipt'[r].kind = "rejected"
        /\ evidence[r] # NoUsage => evidence'[r] = evidence[r]
    BY <1>0 DEF AdaptMay, Terminal
  <2>. QED BY <1>0, <2>1, GatewayFrame DEF RequestInv, gateway
<1>2. HoldRecords(r)'
  BY <1>0, HoldFrame DEF RequestInv, billing, gateway
<1>3. /\ adapt'[r][j].pc = pc /\ adapt'[r][j].answer = answer
      /\ \A i \in AdaptCopies \ {j} : adapt'[r][i] = adapt[r][i]
  BY AdaptMoves
<1>4. \A i \in AdaptCopies \ {j} : Touched(r, i)' <=> Touched(r, i)
  BY <1>0, <1>3 DEF Touched
<1>5. Touched(r, j)' <=> pc \in AdaptOwning \/ v # NoUsage
  BY <1>0, <1>3 DEF Touched
\* Where another call owns the request, this one writes nothing.
<1>6. \A i \in AdaptCopies \ {j} : Touched(r, i) =>
        ~Touched(r, j)' /\ receipt = adaptReceipt[r] /\ u = evidence[r]
  BY <1>5 DEF RequestInv, OneAdapterCall, AdaptMay
<1>7. \A i, l \in AdaptCopies : Touched(r, i)' /\ Touched(r, l)' => i = l
  BY <1>4, <1>6 DEF RequestInv, OneAdapterCall
<1>8. ASSUME NEW i \in AdaptCopies
      PROVE  /\ Touched(r, i)' => receipt.kind # "none"
             /\ adapt'[r][i].pc \in NotBilledYet => bill'[r][i] = NoUsage
             /\ adapt'[r][i].pc \in BeforeAnswer => receipt.kind = "dispatching" /\ u = NoUsage
             /\ adapt'[r][i].pc = "rejectingAgain" =>
                  receipt.kind \in {"dispatching", "rejected"} /\ u = NoUsage
             /\ adapt'[r][i].pc = "recording" =>
                  bill'[r][i] # NoUsage /\ adapt'[r][i].answer = Completed(bill'[r][i])
             /\ adapt'[r][i].pc = "saving" =>
                  u # NoUsage /\ adapt'[r][i].answer = Completed(u)
             /\ adapt'[r][i].pc = "answered" /\ Terminal(adapt'[r][i].answer) =>
                  adapt'[r][i].answer = receipt
  <2>1. CASE i = j
    BY <1>0, <1>3, <1>5, <2>1 DEF AdaptMay
  <2>2. CASE i # j
    <3>1. adapt'[r][i] = adapt[r][i] /\ bill'[r][i] = bill[r][i] /\ (Touched(r, i)' <=> Touched(r, i))
      BY <1>0, <1>3, <1>4, <2>2
    <3>2. CASE Touched(r, i)
      <4>1. receipt = adaptReceipt[r] /\ u = evidence[r]
        BY <1>6, <2>2, <3>2
      <4>. QED BY <3>1, <4>1 DEF RequestInv, OneAdapterCall, AdapterRecords
    <3>3. CASE ~Touched(r, i)
      <4>1. bill[r][i] = NoUsage /\ adapt[r][i].pc \notin AdaptOwning
        BY <3>3 DEF Touched
      <4>2. adapt[r][i].pc = "answered" /\ Terminal(adapt[r][i].answer) =>
              adapt[r][i].answer = receipt
        BY DEF RequestInv, AdapterRecords, AdaptMay
      <4>. QED BY <3>1, <3>3, <4>1, <4>2 DEF AdaptOwning, BeforeAnswer
    <3>. QED BY <3>2, <3>3
  <2>. QED BY <2>1, <2>2
<1>9. OneAdapterCall(r)'
  BY <1>0, <1>7, <1>8 DEF OneAdapterCall
<1>10. u # NoUsage => \E i \in AdaptCopies : bill'[r][i] = u
  <2>1. CASE u = evidence[r] /\ u # NoUsage
    <3>1. PICK i \in AdaptCopies : bill[r][i] = u
      BY <2>1 DEF RequestInv, AdapterRecords
    <3>2. bill'[r][i] = u
      BY <1>0, <2>1, <3>1 DEF AdaptMay
    <3>. QED BY <3>2
  <2>2. CASE u = v
    BY <1>0, <2>2
  <2>. QED BY <2>1, <2>2 DEF AdaptMay
<1>11. receipt.kind = "rejected" => u = NoUsage /\ \A i \in AdaptCopies : bill'[r][i] = NoUsage
  <2>1. ASSUME receipt.kind = "rejected", NEW i \in AdaptCopies \ {j}
        PROVE  bill[r][i] = NoUsage
    <3>1. CASE Touched(r, i)
      BY <1>6, <2>1, <3>1 DEF RequestInv, AdapterRecords
    <3>2. CASE ~Touched(r, i)
      BY <3>2 DEF Touched
    <3>. QED BY <3>1, <3>2
  <2>. QED BY <1>0, <2>1 DEF AdaptMay
<1>12. AdapterRecords(r)'
  BY <1>0, <1>8, <1>10, <1>11 DEF AdaptMay, AdapterRecords
<1>. QED BY <1>1, <1>2, <1>9, <1>12 DEF RequestInv

LEMMA AdapterKeeps ==
  ASSUME TypeOK, NEW r \in Requests, NEW j \in AdaptCopies, RequestInv(r), Adapter(r, j)
  PROVE  RequestInv(r)'
<1>0. /\ adaptReceipt[r] \in Report
      /\ adaptReceipt = [adaptReceipt EXCEPT ![r] = adaptReceipt[r]]
      /\ evidence[r] \in Usages \cup {NoUsage} /\ evidence = [evidence EXCEPT ![r] = evidence[r]]
      /\ bill[r][j] \in Usages \cup {NoUsage} /\ bill = [bill EXCEPT ![r][j] = bill[r][j]]
      /\ adapt[r][j].answer \in Report
  BY DEF TypeOK, CallAt
<1>1. adapt[r][j].pc # "idle" => "adapter" \in posts[r]
  BY DEF RequestInv, AdapterRecords
<1>2. ASSUME NEW pc \in AdaptSteps, NEW answer \in Report, AdaptGoes(r, j, pc, answer),
             adapt[r][j].pc # "idle" \/ "adapter" \in posts[r],
             pc \in AdaptOwning => adapt[r][j].pc \in AdaptOwning,
             pc \in NotBilledYet => adapt[r][j].pc \in NotBilledYet,
             pc \in BeforeAnswer \cup {"rejectingAgain"} => adapt[r][j].pc \in BeforeAnswer,
             pc \notin {"recording", "saving"},
             pc = "answered" => ~Terminal(answer),
             UNCHANGED <<billing, switch, worker, posts, gateway, adaptReceipt, evidence, bill>>
      PROVE  RequestInv(r)'
  <2>1. AdaptMay(r, j, pc, answer, adaptReceipt[r], evidence[r], bill[r][j])
    <3>1. adaptReceipt[r].kind = "rejected" => bill[r][j] = NoUsage
      BY DEF RequestInv, AdapterRecords
    <3>2. /\ pc \in NotBilledYet => bill[r][j] = NoUsage
          /\ pc \in BeforeAnswer \cup {"rejectingAgain"} =>
               adaptReceipt[r].kind = "dispatching" /\ evidence[r] = NoUsage
      BY <1>2 DEF RequestInv, OneAdapterCall
    <3>3. pc \in AdaptOwning \/ bill[r][j] # NoUsage =>
            adaptReceipt[r].kind # "none" /\ Touched(r, j)
      BY <1>2 DEF RequestInv, OneAdapterCall, Touched
    <3>. QED BY <1>2, <3>1, <3>2, <3>3 DEF AdaptMay, RequestInv, AdapterRecords
  <2>. QED BY <1>0, <1>1, <1>2, <2>1, AdaptStep
<1>3. CASE AdaptReceive(r, j)
  BY <1>2, <1>3, Reports, PlainReports
     DEF AdaptReceive, AdaptSteps, AdaptOwning, BeforeAnswer, NotBilledYet, Terminal
<1>4. CASE AdaptCheck(r, j)
  BY <1>2, <1>4, Reports, PlainReports
     DEF AdaptCheck, AdaptSteps, AdaptOwning, BeforeAnswer, NotBilledYet, Terminal
<1>5. CASE AdaptPass(r, j)
  BY <1>2, <1>5, Reports
     DEF AdaptPass, AdaptSteps, AdaptOwning, BeforeAnswer, NotBilledYet
<1>6. CASE AdaptTurnAway(r, j)
  BY <1>2, <1>6, Reports
     DEF AdaptTurnAway, AdaptSteps, AdaptOwning, BeforeAnswer, NotBilledYet
<1>7. CASE VendorUnreached(r, j)
  BY <1>2, <1>7, Reports
     DEF VendorUnreached, AfterDispatchError, AdaptSteps, AdaptOwning, BeforeAnswer, NotBilledYet
<1>8. ASSUME NEW v \in Usages, VendorBills(r, j, v)
      PROVE  RequestInv(r)'
  <2>1. PICK pc \in {"recording"} \cup AfterDispatchError : \E answer \in Report :
          AdaptGoes(r, j, pc, answer) /\ (pc = "recording" => answer = Completed(v))
    BY <1>8, Reports DEF VendorBills, AfterDispatchError
  <2>2. PICK answer \in Report :
          AdaptGoes(r, j, pc, answer) /\ (pc = "recording" => answer = Completed(v))
    BY <2>1
  <2>3. /\ bill[r][j] = NoUsage /\ adaptReceipt[r].kind = "dispatching" /\ evidence[r] = NoUsage
        /\ Touched(r, j) /\ v # NoUsage
    BY <1>8, DispatchAssumption
       DEF VendorBills, RequestInv, OneAdapterCall, Touched, AdaptOwning, BeforeAnswer, NotBilledYet
  <2>4. AdaptMay(r, j, pc, answer, adaptReceipt[r], evidence[r], v)
    BY <2>1, <2>2, <2>3
       DEF AdaptMay, Terminal, AfterDispatchError, BeforeAnswer, NotBilledYet
  <2>5. pc \in AdaptSteps
    BY DEF AfterDispatchError, AdaptSteps
  <2>. QED BY <1>0, <1>1, <1>8, <2>2, <2>4, <2>5, AdaptStep DEF VendorBills
<1>9. ASSUME NEW ack \in Acks, AdaptClaim(r, j, ack)
      PROVE  RequestInv(r)'
  <2> DEFINE receipt == IF adaptReceipt[r] = None /\ Written(ack) THEN Plain("dispatching")
                        ELSE adaptReceipt[r]
             claimed == Claimed(adaptReceipt[r], ack)
             pc == IF claimed THEN "gated" ELSE "answered"
             answer == IF claimed THEN None ELSE Refused
  <2>1. /\ receipt \in Report /\ adaptReceipt' = [adaptReceipt EXCEPT ![r] = receipt]
        /\ pc \in AdaptSteps /\ answer \in Report /\ AdaptGoes(r, j, pc, answer)
    BY <1>0, <1>9, Reports DEF AdaptClaim, AdaptSteps
  <2>2. claimed => receipt = Plain("dispatching") /\ adaptReceipt[r] = None
    BY DEF Claimed, Written
  <2>3. bill[r][j] = NoUsage
    BY <1>9 DEF AdaptClaim, RequestInv, OneAdapterCall, NotBilledYet
  <2>4. evidence[r] # NoUsage => adaptReceipt[r].kind # "none"
    <3>1. evidence[r] # NoUsage => \E i \in AdaptCopies : Touched(r, i)
      BY DEF RequestInv, AdapterRecords, Touched
    <3>. QED BY <3>1 DEF RequestInv, OneAdapterCall
  <2>5. receipt = adaptReceipt[r] \/ (receipt = Plain("dispatching") /\ adaptReceipt[r] = None)
    OBVIOUS
  <2>6. AdaptMay(r, j, pc, answer, receipt, evidence[r], bill[r][j])
    <3>. HIDE DEF receipt, claimed
    <3>. QED BY <2>2, <2>3, <2>4, <2>5, PlainReports
             DEF AdaptMay, RequestInv, AdapterRecords, Terminal, AdaptOwning, BeforeAnswer,
                 NotBilledYet
  <2>. HIDE DEF receipt, claimed, pc, answer
  <2>. QED BY <1>0, <1>1, <1>9, <2>1, <2>6, AdaptStep DEF AdaptClaim
<1>10. ASSUME NEW ack \in Acks, AdaptReject(r, j, ack)
       PROVE  RequestInv(r)'
  <2> DEFINE saved == IF Written(ack) THEN Finalized(adaptReceipt[r], Rejected) ELSE adaptReceipt[r]
             heard == ack = "done" /\ saved = Rejected
             pc == IF ~heard /\ adapt[r][j].pc = "rejecting" THEN "rejectingAgain" ELSE "answered"
             answer == IF heard \/ adapt[r][j].pc = "rejecting" THEN Rejected ELSE Refused
  <2>1. /\ saved \in Report /\ adaptReceipt' = [adaptReceipt EXCEPT ![r] = saved]
        /\ pc \in AdaptSteps /\ answer \in Report /\ AdaptGoes(r, j, pc, answer)
    BY <1>0, <1>10, Reports, Updates DEF AdaptReject, AdaptSteps
  <2>2. /\ bill[r][j] = NoUsage /\ evidence[r] = NoUsage /\ Touched(r, j)
        /\ adaptReceipt[r].kind \in {"dispatching", "rejected"}
        /\ adapt[r][j].pc = "rejecting" => adaptReceipt[r].kind = "dispatching"
    BY <1>10
       DEF AdaptReject, RequestInv, OneAdapterCall, Touched, AdaptOwning, BeforeAnswer, NotBilledYet
  <2>3. saved = adaptReceipt[r] \/ (saved = Rejected /\ adaptReceipt[r].kind = "dispatching")
    BY <2>2 DEF Finalized
  <2>4. AdaptMay(r, j, pc, answer, saved, evidence[r], bill[r][j])
    <3>. HIDE DEF saved
    <3>. QED BY <2>2, <2>3, PlainReports
             DEF AdaptMay, Terminal, AdaptOwning, BeforeAnswer, NotBilledYet
  <2>. HIDE DEF saved, pc, answer
  <2>. QED BY <1>0, <1>1, <1>10, <2>1, <2>4, AdaptStep DEF AdaptReject
<1>11. ASSUME NEW ack \in Acks, AdaptRecord(r, j, ack)
       PROVE  RequestInv(r)'
  <2> DEFINE v == bill[r][j]
             u == IF Written(ack) THEN v ELSE NoUsage
             pc == IF ack = "done" THEN "saving" ELSE "failing"
             answer == IF ack = "done" THEN Completed(v) ELSE None
  <2>1. /\ v # NoUsage /\ adapt[r][j].answer = Completed(v) /\ evidence[r] = NoUsage
        /\ adaptReceipt[r].kind = "dispatching" /\ Touched(r, j)
    BY <1>11 DEF AdaptRecord, RequestInv, OneAdapterCall, Touched, BeforeAnswer
  <2>1a. v \in Usages /\ adapt[r][j].answer.usage = v
    BY <2>1, PlainReports DEF TypeOK
  <2>1b. /\ u \in Usages \cup {NoUsage}
         /\ pc \in AdaptSteps /\ answer \in Report
    BY <2>1a, Reports DEF AdaptSteps
  <2>1c. evidence' = [evidence EXCEPT ![r] = u]
    BY <1>11, <2>1, <2>1a DEF AdaptRecord
  <2>1d. AdaptGoes(r, j, pc, answer)
    BY <1>11, <2>1 DEF AdaptRecord
  <2>2. /\ evidence' = [evidence EXCEPT ![r] = u] /\ u \in Usages \cup {NoUsage}
        /\ pc \in AdaptSteps /\ answer \in Report /\ AdaptGoes(r, j, pc, answer)
    BY <2>1b, <2>1c, <2>1d
  <2>3. ack = "done" => u = v
    BY DEF Written
  <2>4. AdaptMay(r, j, pc, answer, adaptReceipt[r], u, v)
    <3>. HIDE DEF u, v
    <3>1. u = v \/ u = NoUsage
      BY DEF u
    <3>. QED BY <2>1, <2>3, <3>1
             DEF AdaptMay, Terminal, AdaptOwning, BeforeAnswer, NotBilledYet, v
  <2>. HIDE DEF u, pc, answer
  <2>. QED BY <1>0, <1>1, <1>11, <2>2, <2>4, AdaptStep DEF AdaptRecord
<1>12. ASSUME NEW ack \in Acks, AdaptSave(r, j, ack)
       PROVE  RequestInv(r)'
  <2> DEFINE payload == adapt[r][j].answer
             saved == IF Written(ack) THEN Finalized(adaptReceipt[r], payload) ELSE adaptReceipt[r]
  <2>1. /\ saved \in Report /\ adaptReceipt' = [adaptReceipt EXCEPT ![r] = saved]
    BY <1>0, <1>12, Updates DEF AdaptSave
  <2>2. PICK pc \in {"answered", "failing"} : \E answer \in Report :
          AdaptGoes(r, j, pc, answer) /\ (pc = "answered" => answer = payload /\ saved = payload)
    BY <1>0, <1>12, Reports DEF AdaptSave
  <2>3. PICK answer \in Report :
          AdaptGoes(r, j, pc, answer) /\ (pc = "answered" => answer = payload /\ saved = payload)
    BY <2>2
  <2>4. /\ evidence[r] # NoUsage /\ payload = Completed(evidence[r])
        /\ Touched(r, j) /\ adaptReceipt[r].kind # "none"
    BY <1>12 DEF AdaptSave, RequestInv, OneAdapterCall, Touched, AdaptOwning
  <2>5. saved = adaptReceipt[r] \/ (saved = payload /\ ~Terminal(adaptReceipt[r]))
    BY DEF Finalized, Terminal
  <2>6. AdaptMay(r, j, pc, answer, saved, evidence[r], bill[r][j])
    <3>. HIDE DEF saved, payload
    <3>. QED BY <2>2, <2>3, <2>4, <2>5, PlainReports
             DEF AdaptMay, RequestInv, AdapterRecords, Terminal, AdaptOwning, BeforeAnswer,
                 NotBilledYet
  <2>7. pc \in AdaptSteps
    BY DEF AdaptSteps
  <2>. HIDE DEF saved
  <2>. QED BY <1>0, <1>1, <1>12, <2>1, <2>3, <2>6, <2>7, AdaptStep DEF AdaptSave
<1>13. ASSUME NEW ack \in Acks, NEW stopped \in BOOLEAN, AdaptFail(r, j, ack, stopped)
       PROVE  RequestInv(r)'
  <2> DEFINE receipt == IF Written(ack) THEN Doubted(adaptReceipt[r]) ELSE adaptReceipt[r]
  <2>1. /\ receipt \in Report /\ adaptReceipt' = [adaptReceipt EXCEPT ![r] = receipt]
        /\ AdaptGoes(r, j, "answered", Refused) /\ "answered" \in AdaptSteps /\ Refused \in Report
    BY <1>0, <1>13, Updates, Reports DEF AdaptFail, AdaptSteps
  <2>2. Touched(r, j) /\ adaptReceipt[r].kind # "none"
    BY <1>13 DEF AdaptFail, RequestInv, OneAdapterCall, Touched, AdaptOwning
  <2>3. AdaptMay(r, j, "answered", Refused, receipt, evidence[r], bill[r][j])
    BY <2>2, PlainReports
       DEF AdaptMay, RequestInv, AdapterRecords, Terminal, AdaptOwning, BeforeAnswer, NotBilledYet,
           Doubted
  <2>. HIDE DEF receipt
  <2>. QED BY <1>0, <1>1, <1>13, <2>1, <2>3, AdaptStep DEF AdaptFail
<1>. QED
  BY <1>3, <1>4, <1>5, <1>6, <1>7, <1>8, <1>9, <1>10, <1>11, <1>12, <1>13, Zenon DEF Adapter

-----------------------------------------------------------------------------
(* The operator's steps, time and the sweep *)

LEMMA OperatorKeeps ==
  ASSUME TypeOK, NEW r \in Requests, RequestInv(r), Operator(r) \/ Expire(r) \/ Sweep(r)
  PROVE  RequestInv(r)'
<1>0. /\ hold \in [Requests -> {"absent", "settled", "released"} \cup OpenStates]
      /\ booked \in [Requests -> Usages \cup {NoUsage}]
      /\ gateReceipt \in [Requests -> Report] /\ adaptReceipt[r] \in Report
  BY DEF TypeOK
<1>1. ASSUME NEW receipt \in Report, gateReceipt' = [gateReceipt EXCEPT ![r] = receipt],
             gateReceipt[r].kind \in {"dispatching", "unknown"},
             receipt.kind \notin {"none", "refused"},
             Terminal(receipt) => "adapter" \in posts[r],
             receipt.kind = "rejected" => Unbilled(r),
             receipt.kind = "completed" => evidence[r] # NoUsage /\ receipt = Completed(evidence[r]),
             UNCHANGED <<billing, worker, posts, gate, adapter>>
      PROVE  RequestInv(r)'
  <2>0. gateReceipt'[r] = receipt /\ ~Terminal(gateReceipt[r])
    BY <1>0, <1>1 DEF Terminal
  <2>1. OneAdapterCall(r)' /\ AdapterRecords(r)'
    BY <1>1, AdapterFrame DEF RequestInv, adapter
  <2>2. HoldRecords(r)'
    BY <1>1, <2>0, HoldFrame DEF RequestInv, billing
  <2>3. Unbilled(r)' <=> Unbilled(r)
    BY <1>1 DEF Unbilled, adapter
  <2>4. GatewayRecords(r)'
    BY <1>1, <2>0, <2>3 DEF RequestInv, GatewayRecords, adapter
  <2>5. \A k \in GateCopies :
          /\ gate[r][k].pc = "gated" => ~Terminal(receipt)
          /\ gate[r][k].pc = "answered" => ~Terminal(gate[r][k].answer)
    BY <1>1, <2>0 DEF RequestInv, OneGatewayCall
  <2>6. OneGatewayCall(r)'
    BY <1>1, <2>0, <2>3, <2>5 DEF RequestInv, OneGatewayCall, Terminal, adapter
  <2>. QED BY <2>1, <2>2, <2>4, <2>6 DEF RequestInv
<1>2. ASSUME NEW ack \in Acks, Recover(r, ack)
      PROVE  RequestInv(r)'
  <2> DEFINE receipt == ProjectedReceipt(r)
  <2>1. receipt \in Report /\ gateReceipt' = [gateReceipt EXCEPT ![r] = receipt]
    BY <1>2, Reports DEF Recover, Finalized, ProjectedReceipt, TypeOK
  <2>2. receipt.kind = "rejected" => Unbilled(r)
    BY PlainReports DEF ProjectedReceipt, Unbilled
  <2>3. receipt.kind = "completed" => evidence[r] # NoUsage /\ receipt = Completed(evidence[r])
    BY DEF ProjectedReceipt, RequestInv, AdapterRecords, Terminal
  <2>4. Terminal(receipt) => "adapter" \in posts[r]
    BY DEF ProjectedReceipt, RequestInv, AdapterRecords, Terminal
  <2>5. Terminal(receipt)
    BY <1>2 DEF Recover
  <2>. HIDE DEF receipt
  <2>. QED BY <1>1, <1>2, <2>1, <2>2, <2>3, <2>4, <2>5 DEF Recover, Terminal
<1>3. ASSUME NEW ack \in Acks, NEW stopped \in BOOLEAN, RecoverInVain(r, ack, stopped)
      PROVE  RequestInv(r)'
  <2> DEFINE receipt == IF Written(ack) THEN Doubted(gateReceipt[r]) ELSE gateReceipt[r]
  <2>1. receipt \in Report /\ gateReceipt' = [gateReceipt EXCEPT ![r] = receipt]
    BY <1>0, <1>3, Updates DEF RecoverInVain
  <2>2. receipt.kind \in {"dispatching", "unknown"}
    BY <1>3, PlainReports DEF RecoverInVain, Doubted
  <2>. HIDE DEF receipt
  <2>. QED BY <1>1, <1>3, <2>1, <2>2 DEF RecoverInVain, Terminal
<1>4. ASSUME HoldRecords(r)', UNCHANGED <<posts, gateway, adapter>>
      PROVE  RequestInv(r)'
  BY <1>4, AdapterFrame, GatewayFrame DEF RequestInv, gateway, adapter
<1>5. ASSUME NEW ack \in Acks, Reconcile(r, ack)
      PROVE  RequestInv(r)'
  <2>1. /\ gateReceipt[r].kind = "rejected" => gateReceipt[r] = Rejected
        /\ gateReceipt[r].kind = "completed" =>
             gateReceipt[r] = Completed(gateReceipt[r].usage) /\ gateReceipt[r].usage # NoUsage
    BY <1>0, ReportKinds, DispatchAssumption DEF Rejected
  <2>2. HoldRecords(r)'
    <3>1. /\ worker' = worker /\ posts' = posts /\ gateReceipt' = gateReceipt
          /\ hold'[r] = IF gateReceipt[r] = Rejected THEN "released" ELSE "settled"
          /\ booked'[r] = gateReceipt[r].usage
      BY <1>0, <1>5 DEF Reconcile, gateway
    <3>2. worker[r].pc \notin {"output", "rejected", "cancelled"}
      BY <1>5 DEF Reconcile, RequestInv, HoldRecords
    <3>3. CASE gateReceipt[r].kind = "rejected"
      BY <2>1, <3>1, <3>2, <3>3, PlainReports DEF Rejected, RequestInv, HoldRecords
    <3>4. CASE gateReceipt[r].kind = "completed"
      BY <2>1, <3>1, <3>2, <3>4, PlainReports DEF RequestInv, HoldRecords
    <3>. QED BY <1>5, <3>3, <3>4 DEF Reconcile, Terminal
  <2>. QED BY <1>4, <1>5, <2>2 DEF Reconcile
<1>6. CASE Expire(r)
  <2>1. HoldRecords(r)'
    BY <1>6, HoldFrame DEF Expire, RequestInv, gateway
  <2>. QED BY <1>4, <1>6, <2>1 DEF Expire
<1>7. CASE Sweep(r)
  <2>1. HoldRecords(r)'
    BY <1>0, <1>7 DEF Sweep, RequestInv, HoldRecords, gateway
  <2>. QED BY <1>4, <1>7, <2>1 DEF Sweep
<1>. QED BY <1>2, <1>3, <1>5, <1>6, <1>7 DEF Operator

-----------------------------------------------------------------------------
(* The invariant is inductive *)

LEMMA InitInv == Init => IInv
<1>. SUFFICES ASSUME Init PROVE IInv
  OBVIOUS
<1>1. TypeOK
  BY Reports
     DEF Init, TypeOK, Call, CallAt, WorkerSteps, GateSteps, AdaptSteps, Switches, OpenStates
<1>2. ASSUME NEW r \in Requests
      PROVE  RequestInv(r)
  <2>1. /\ posts[r] = {} /\ evidence[r] = NoUsage /\ worker[r].pc = "idle"
        /\ adaptReceipt[r] = None /\ gateReceipt[r] = None
        /\ hold[r] = "absent" /\ booked[r] = NoUsage
        /\ \A k \in GateCopies : gate[r][k].pc = "idle"
        /\ \A j \in AdaptCopies : adapt[r][j].pc = "idle" /\ bill[r][j] = NoUsage
    BY DEF Init, Call
  <2>2. OneAdapterCall(r) /\ AdapterRecords(r)
    BY <2>1, PlainReports
       DEF OneAdapterCall, AdapterRecords, Touched, AdaptOwning, BeforeAnswer, NotBilledYet
  <2>3. OneGatewayCall(r) /\ GatewayRecords(r)
    BY <2>1, PlainReports DEF OneGatewayCall, GatewayRecords, GateOwning
  <2>4. HoldRecords(r)
    BY <2>1 DEF HoldRecords
  <2>. QED BY <2>2, <2>3, <2>4 DEF RequestInv
<1>. QED BY <1>1, <1>2 DEF IInv

\* Every step is one request's, or the operator's hand on a switch, or none.
LEMMA NextKeeps == IInv /\ [Next]_vars => IInv'
<1>. SUFFICES ASSUME IInv, [Next]_vars PROVE IInv'
  OBVIOUS
<1>0. TypeOK /\ \A q \in Requests : RequestInv(q)
  BY DEF IInv
<1>1. ASSUME NEW r \in Requests, TypeOK', Others(r), RequestInv(r)'
      PROVE  IInv'
  BY <1>0, <1>1, RequestFrame DEF IInv, Others
<1>2. ASSUME NEW r \in Requests, Worker(r)
      PROVE  IInv'
  BY <1>0, <1>1, <1>2, WorkerEffect, WorkerKeeps
<1>3. ASSUME NEW r \in Requests, NEW k \in GateCopies, Gateway(r, k)
      PROVE  IInv'
  BY <1>0, <1>1, <1>3, GatewayEffect, GatewayKeeps
<1>4. ASSUME NEW r \in Requests, NEW j \in AdaptCopies, Adapter(r, j)
      PROVE  IInv'
  BY <1>0, <1>1, <1>4, AdapterEffect, AdapterKeeps
<1>5. ASSUME NEW r \in Requests, Operator(r) \/ Expire(r) \/ Sweep(r)
      PROVE  IInv'
  BY <1>0, <1>1, <1>5, OperatorEffect, OperatorKeeps
<1>6. ASSUME NEW s \in Switches, NEW on \in BOOLEAN, SetSwitch(s, on)
      PROVE  IInv'
  BY <1>0, <1>6, SwitchEffect, RequestFrame DEF IInv
<1>7. CASE UNCHANGED vars
  <2>1. TypeOK' /\ \A q \in Requests : Same(q)
    BY <1>0, <1>7 DEF vars, billing, gateway, adapter, TypeOK, Same
  <2>. QED BY <1>0, <2>1, RequestFrame DEF IInv
<1>. QED BY <1>2, <1>3, <1>4, <1>5, <1>6, <1>7 DEF Next

LEMMA Invariance == Spec => []IInv
  BY InitInv, NextKeeps, PTL DEF Spec

-----------------------------------------------------------------------------
(* The properties of one state *)

\* Receipts, holds, calls and books stay in their domains.
THEOREM TypeCorrect == Spec => []TypeOK
  BY Invariance, PTL DEF IInv

\* Whatever is delivered twice and whichever acknowledgement is lost, the vendor
\* works at most once for a reservation: one claim in metered-gateway.mjs and one in
\* gemini-adapter.mjs stand before it.
THEOREM VendorWorksOnce == Spec => []BilledAtMostOnce
<1>1. IInv => BilledAtMostOnce
  BY DEF IInv, RequestInv, OneAdapterCall, Touched, BilledAtMostOnce
<1>. QED BY <1>1, Invariance, PTL

\* A rejection, wherever it was said, is kept in a receipt the adapter's calls see.
LEMMA RefusedIsUnbilled ==
  ASSUME NEW r \in Requests, RequestInv(r), Unbilled(r)
  PROVE  \A j \in AdaptCopies : bill[r][j] = NoUsage /\ adapt[r][j].pc # "dispatch"
  BY DEF Unbilled, RequestInv, OneAdapterCall, AdapterRecords, BeforeAnswer, NotBilledYet

LEMMA ReleasedIsUnbilled ==
  ASSUME NEW r \in Requests, RequestInv(r),
         hold[r] \in {"held", "released"} \/ worker[r].pc = "releasing"
  PROVE  Unbilled(r)
  BY DEF RequestInv, HoldRecords, GatewayRecords, Unbilled

\* chat-execution.mjs gives credits back only for a request that was never sent or
\* that was refused, on record, before the vendor could be reached.
THEOREM RefundsAreSafe == Spec => []RefundedNeverBilled
<1>1. IInv => RefundedNeverBilled
  BY ReleasedIsUnbilled, RefusedIsUnbilled DEF IInv, RefundedNeverBilled
<1>. QED BY <1>1, Invariance, PTL

LEMMA CompletedIsEvidence ==
  ASSUME NEW r \in Requests, RequestInv(r), gateReceipt[r].kind = "completed"
  PROVE  /\ evidence[r] # NoUsage /\ gateReceipt[r].usage = evidence[r]
         /\ \E j \in AdaptCopies : bill[r][j] = evidence[r]
  BY PlainReports DEF RequestInv, GatewayRecords, AdapterRecords

\* A settlement, by the Worker or by chat-gateway-reconciliation.mjs, books what the
\* vendor billed.
THEOREM SettlementsAreExact == Spec => []SettledAsBilled
<1>1. ASSUME NEW r \in Requests, RequestInv(r), hold[r] = "settled"
      PROVE  \E j \in AdaptCopies : bill[r][j] = booked[r] /\ booked[r] # NoUsage
  <2>1. gateReceipt[r] = Completed(booked[r]) /\ booked[r] # NoUsage
    BY <1>1 DEF RequestInv, HoldRecords
  <2>. QED BY <1>1, <2>1, CompletedIsEvidence, PlainReports
<1>2. IInv => SettledAsBilled
  BY <1>1 DEF IInv, SettledAsBilled
<1>. QED BY <1>2, Invariance, PTL

\* Evidence that gemini-adapter.mjs committed can be shown, taken over by the
\* gateway and settled, whatever fails after it.
THEOREM EvidenceSurvives == Spec => []EvidenceRecoverable
<1>1. ASSUME NEW r \in Requests, RequestInv(r), evidence[r] # NoUsage
      PROVE  /\ ProjectedReceipt(r) = Completed(evidence[r])
             /\ ~Terminal(gateReceipt[r]) \/ gateReceipt[r] = Completed(evidence[r])
             /\ hold[r] \notin {"absent", "held", "released"}
             /\ hold[r] = "settled" => booked[r] = evidence[r]
  <2>1. ~Unbilled(r) /\ "gateway" \in posts[r]
    BY <1>1 DEF Unbilled, RequestInv, AdapterRecords, GatewayRecords
  <2>2. ProjectedReceipt(r) = Completed(evidence[r])
    BY <1>1, <2>1 DEF ProjectedReceipt, Terminal, Unbilled, RequestInv, AdapterRecords
  <2>3. ~Terminal(gateReceipt[r]) \/ gateReceipt[r] = Completed(evidence[r])
    BY <1>1, <2>1 DEF Terminal, RequestInv, GatewayRecords
  <2>4. hold[r] \notin {"absent", "held", "released"}
    BY <1>1, <2>1, ReleasedIsUnbilled DEF RequestInv, HoldRecords
  <2>5. hold[r] = "settled" => booked[r] = evidence[r]
    BY <1>1, PlainReports, CompletedIsEvidence DEF RequestInv, HoldRecords
  <2>. QED BY <2>2, <2>3, <2>4, <2>5
<1>2. IInv => EvidenceRecoverable
  <2>1. ASSUME IInv, NEW r \in Requests
        PROVE  hold[r] \in {"absent", "settled", "released", "held", "started", "unknown"}
    BY <2>1 DEF IInv, TypeOK, OpenStates
  <2>. QED BY <1>1, <2>1 DEF IInv, EvidenceRecoverable
<1>. QED BY <1>2, Invariance, PTL

\* What executeChat tells the client agrees with what became of the hold.
THEOREM RepliesAreTrue == Spec => []ReplyMatchesHold
<1>1. IInv => ReplyMatchesHold
  BY DEF IInv, RequestInv, HoldRecords, ReplyMatchesHold
<1>. QED BY <1>1, Invariance, PTL

-----------------------------------------------------------------------------
(* What a step may never do *)

LEMMA StepKeeps ==
  ASSUME TypeOK, NEW r \in Requests, Others(r), Kept(r)
  PROVE  \A q \in Requests : Kept(q)
  BY DEF Others, Same, Kept

\* gateway/schema.sql, gemini-adapter/schema.sql and the reservation's transition
\* trigger, with the guards of finalize, unknown, settleChat and releaseChat: what is
\* final stays as it is, whoever comes late.
THEOREM FinalIsFinal == Spec => RecordsFinal
<1>1. ASSUME TypeOK, [Next]_vars
      PROVE  [\A r \in Requests : Kept(r)]_vars
  <2>. USE DEF billing, gateway, adapter, Kept
  <2>0. /\ hold \in [Requests -> {"absent", "settled", "released"} \cup OpenStates]
        /\ DOMAIN booked = Requests /\ DOMAIN gateReceipt = Requests
        /\ DOMAIN adaptReceipt = Requests /\ DOMAIN evidence = Requests
    BY <1>1 DEF TypeOK
  <2>1. ASSUME NEW r \in Requests, Worker(r)
        PROVE  Kept(r)
    <3>1. CASE GiveUp(r) \/ \E k \in GateCopies : ReceiveReply(r, k)
      BY <3>1 DEF GiveUp, ReceiveReply, WorkerGoes
    <3>2. ASSUME NEW ack \in Acks,
                 \/ Reserve(r, ack) \/ Cancel(r, ack) \/ BeginDispatch(r, ack) \/ UndoDispatch(r, ack)
                 \/ ReleaseRejected(r, ack) \/ SettleReply(r, ack)
                 \/ StopBilling(r, ack) \/ MarkUnknown(r, ack)
          PROVE  Kept(r)
      BY <2>0, <3>2
         DEF Reserve, Cancel, BeginDispatch, UndoDispatch, ReleaseHeld, ReleaseRejected,
             SettleReply, StopBilling, MarkUnknown, InDoubt, OpenStates
    <3>. QED BY <2>1, <3>1, <3>2 DEF Worker
  <2>2. ASSUME NEW r \in Requests, NEW k \in GateCopies, Gateway(r, k)
        PROVE  Kept(r)
    <3>1. CASE UNCHANGED <<billing, gateReceipt, adapter>>
      BY <3>1
    <3>2. ASSUME NEW ack \in Acks, GateClaim(r, k, ack)
          PROVE  Kept(r)
      BY <2>0, <3>2, PlainReports DEF GateClaim, Terminal
    <3>3. ASSUME NEW ack \in Acks, GateSave(r, k, ack)
          PROVE  Kept(r)
      BY <2>0, <3>3 DEF GateSave, Finalized, Terminal
    <3>4. ASSUME NEW ack \in Acks, NEW stopped \in BOOLEAN, GateFail(r, k, ack, stopped)
          PROVE  Kept(r)
      BY <2>0, <3>4 DEF GateFail, Doubted, Terminal
    <3>. QED
      BY <2>2, <3>1, <3>2, <3>3, <3>4
         DEF Gateway, GateReceive, GateCheck, GateForward, GateTurnAway, GateHear, GateLoseAnswer
  <2>3. ASSUME NEW r \in Requests, NEW j \in AdaptCopies, Adapter(r, j)
        PROVE  Kept(r)
    <3>1. CASE UNCHANGED <<billing, gateway, adaptReceipt, evidence>>
      BY <3>1
    <3>2. ASSUME NEW ack \in Acks, AdaptClaim(r, j, ack)
          PROVE  Kept(r)
      BY <2>0, <3>2, PlainReports DEF AdaptClaim, Terminal
    <3>3. ASSUME NEW ack \in Acks, AdaptReject(r, j, ack) \/ AdaptSave(r, j, ack)
          PROVE  Kept(r)
      BY <2>0, <3>3 DEF AdaptReject, AdaptSave, Finalized, Terminal
    <3>4. ASSUME NEW ack \in Acks, AdaptRecord(r, j, ack)
          PROVE  Kept(r)
      BY <2>0, <3>4 DEF AdaptRecord
    <3>5. ASSUME NEW ack \in Acks, NEW stopped \in BOOLEAN, AdaptFail(r, j, ack, stopped)
          PROVE  Kept(r)
      BY <2>0, <3>5 DEF AdaptFail, Doubted, Terminal
    <3>. QED
      BY <2>3, <3>1, <3>2, <3>3, <3>4, <3>5
         DEF Adapter, AdaptReceive, AdaptCheck, AdaptPass, AdaptTurnAway, VendorUnreached, VendorBills
  <2>4. ASSUME NEW r \in Requests, Operator(r) \/ Expire(r) \/ Sweep(r)
        PROVE  Kept(r)
    BY <2>0, <2>4
       DEF Operator, Recover, RecoverInVain, Reconcile, Expire, Sweep, Finalized, Doubted, Terminal
  <2>5. ASSUME NEW s \in Switches, NEW on \in BOOLEAN, SetSwitch(s, on)
        PROVE  \A q \in Requests : Kept(q)
    BY <2>5 DEF SetSwitch
  <2>. QED
    BY <1>1, <2>1, <2>2, <2>3, <2>4, <2>5, StepKeeps,
       WorkerEffect, GatewayEffect, AdapterEffect, OperatorEffect DEF Next
<1>. QED BY <1>1, TypeCorrect, PTL DEF Spec, RecordsFinal

-----------------------------------------------------------------------------
(* The chain keeps its promise *)

LEMMA BillFound ==
  ASSUME NEW b \in [AdaptCopies -> Usages \cup {NoUsage}],
         \A i, j \in AdaptCopies : b[i] # NoUsage /\ b[j] # NoUsage => i = j
  PROVE  /\ \A j \in AdaptCopies : b[j] # NoUsage => BillIn(b) = b[j]
         /\ (\A j \in AdaptCopies : b[j] = NoUsage) => BillIn(b) = NoUsage
<1>1. ASSUME NEW j \in AdaptCopies, b[j] # NoUsage
      PROVE  BillIn(b) = b[j]
  <2> DEFINE u == CHOOSE u \in Usages : \E i \in AdaptCopies : b[i] = u
  <2>1. b[j] \in Usages
    BY <1>1
  <2>2. u \in Usages /\ \E i \in AdaptCopies : b[i] = u
    BY <2>1
  <2>3. PICK i \in AdaptCopies : b[i] = u
    BY <2>2
  <2>4. i = j
    BY <1>1, <2>2, <2>3, DispatchAssumption
  <2>5. BillIn(b) = u
    BY <1>1 DEF BillIn
  <2>. QED BY <2>3, <2>4, <2>5
<1>2. ASSUME \A j \in AdaptCopies : b[j] = NoUsage
      PROVE  BillIn(b) = NoUsage
  BY <1>2 DEF BillIn
<1>. QED BY <1>1, <1>2

LEMMA BillKnown ==
  ASSUME TypeOK, NEW r \in Requests, RequestInv(r)
  PROVE  /\ \A j \in AdaptCopies : bill[r][j] # NoUsage => BillOf(r) = bill[r][j]
         /\ Unbilled(r) => BillOf(r) = NoUsage
<1>1. bill[r] \in [AdaptCopies -> Usages \cup {NoUsage}]
  BY DEF TypeOK
<1>2. \A i, j \in AdaptCopies : bill[r][i] # NoUsage /\ bill[r][j] # NoUsage => i = j
  BY DEF RequestInv, OneAdapterCall, Touched
<1>3. Unbilled(r) => \A j \in AdaptCopies : bill[r][j] = NoUsage
  BY RefusedIsUnbilled
<1>. QED BY <1>1, <1>2, <1>3, BillFound DEF BillOf

\* What one request's step looks like from outside.
Seen(r) ==
  \/ PhaseOf(r)' = PhaseOf(r) /\ BillOf(r)' = BillOf(r) /\ booked'[r] = booked[r]
  \/ /\ PhaseOf(r) = "none" /\ PhaseOf(r)' = "held"
     /\ BillOf(r)' = BillOf(r) /\ booked'[r] = booked[r]
  \/ /\ PhaseOf(r) = "held" /\ PhaseOf(r)' = "dispatched"
     /\ BillOf(r)' = BillOf(r) /\ booked'[r] = booked[r]
  \/ /\ PhaseOf(r) = "dispatched" /\ PhaseOf(r)' = "dispatched" /\ booked'[r] = booked[r]
     /\ BillOf(r) = NoUsage /\ BillOf(r)' \in Usages
  \/ /\ PhaseOf(r) = "dispatched" /\ PhaseOf(r)' = "charged"
     /\ BillOf(r) # NoUsage /\ BillOf(r)' = BillOf(r) /\ booked'[r] = BillOf(r)
  \/ /\ PhaseOf(r) \in {"held", "dispatched"} /\ PhaseOf(r)' = "refunded"
     /\ BillOf(r) = NoUsage /\ BillOf(r)' = BillOf(r) /\ booked'[r] = booked[r]

LEMMA SeenIsAbstract ==
  ASSUME TypeOK, TypeOK', NEW r \in Requests, Others(r), Seen(r)
  PROVE  [Abstract!PaidNext]_(Abstract!paidVars)
<1> DEFINE phase == [q \in Requests |-> PhaseOf(q)]
           billed == [q \in Requests |-> BillOf(q)]
<1>1. \A q \in Requests \ {r} :
        PhaseOf(q)' = PhaseOf(q) /\ BillOf(q)' = BillOf(q) /\ booked'[q] = booked[q]
  BY DEF Others, Same, PhaseOf, BillOf
<1>2. /\ phase' = [phase EXCEPT ![r] = PhaseOf(r)'] /\ phase[r] = PhaseOf(r)
      /\ PhaseOf(r)' = PhaseOf(r) => phase' = phase
  BY <1>1
<1>3. /\ billed' = [billed EXCEPT ![r] = BillOf(r)'] /\ billed[r] = BillOf(r)
      /\ BillOf(r)' = BillOf(r) => billed' = billed
  BY <1>1
<1>4. /\ booked' = [booked EXCEPT ![r] = booked'[r]]
      /\ booked'[r] = booked[r] => booked' = booked
  <2>1. /\ booked \in [Requests -> Usages \cup {NoUsage}]
        /\ booked' \in [Requests -> Usages \cup {NoUsage}]
    BY DEF TypeOK
  <2>2. \A q \in Requests \ {r} : booked'[q] = booked[q]
    BY <1>1
  <2>. QED BY <2>1, <2>2
<1>. HIDE DEF phase, billed
<1>5. \/ UNCHANGED <<phase, billed, booked>>
      \/ phase[r] = "none" /\ phase' = [phase EXCEPT ![r] = "held"] /\ UNCHANGED <<billed, booked>>
      \/ phase[r] = "held" /\ phase' = [phase EXCEPT ![r] = "dispatched"] /\ UNCHANGED <<billed, booked>>
      \/ /\ phase[r] = "dispatched" /\ billed[r] = NoUsage
         /\ \E u \in Usages : billed' = [billed EXCEPT ![r] = u]
         /\ UNCHANGED <<phase, booked>>
      \/ /\ phase[r] = "dispatched" /\ billed[r] # NoUsage
         /\ phase' = [phase EXCEPT ![r] = "charged"]
         /\ booked' = [booked EXCEPT ![r] = billed[r]] /\ UNCHANGED billed
      \/ /\ phase[r] \in {"held", "dispatched"} /\ billed[r] = NoUsage
         /\ phase' = [phase EXCEPT ![r] = "refunded"] /\ UNCHANGED <<billed, booked>>
  BY <1>2, <1>3, <1>4 DEF Seen
<1>. QED
  BY <1>5
     DEF phase, billed, Abstract!PaidNext, Abstract!paidVars, Abstract!Hold, Abstract!Dispatch,
         Abstract!Bill, Abstract!Charge, Abstract!Refund

LEMMA WorkerSeen ==
  ASSUME TypeOK, NEW r \in Requests, RequestInv(r), Worker(r)
  PROVE  Seen(r)
<1>. USE DEF billing, gateway, adapter
<1>0. /\ hold \in [Requests -> {"absent", "settled", "released"} \cup OpenStates]
      /\ booked \in [Requests -> Usages \cup {NoUsage}]
  BY DEF TypeOK
<1>1. BillOf(r)' = BillOf(r)
  BY DEF Worker, GiveUp, ReceiveReply, WorkerGoes, Reserve, Cancel, UndoDispatch, ReleaseHeld,
         BeginDispatch, ReleaseRejected, SettleReply, StopBilling, MarkUnknown, BillOf
<1>2. hold[r] = "held" \/ worker[r].pc = "releasing" => BillOf(r) = NoUsage
  BY ReleasedIsUnbilled, BillKnown
<1>3. CASE GiveUp(r) \/ \E k \in GateCopies : ReceiveReply(r, k)
  BY <1>1, <1>3 DEF GiveUp, ReceiveReply, WorkerGoes, Seen, PhaseOf
<1>4. ASSUME NEW ack \in Acks, Reserve(r, ack)
      PROVE  Seen(r)
  BY <1>0, <1>1, <1>4 DEF Reserve, Seen, PhaseOf
<1>5. ASSUME NEW ack \in Acks, Cancel(r, ack) \/ UndoDispatch(r, ack)
      PROVE  Seen(r)
  <2>1. /\ hold'[r] = hold[r] \/ (hold[r] = "held" /\ hold'[r] = "released")
        /\ booked' = booked
    BY <1>0, <1>5 DEF Cancel, UndoDispatch, ReleaseHeld
  <2>. QED BY <1>1, <1>2, <2>1 DEF Seen, PhaseOf
<1>6. ASSUME NEW ack \in Acks, BeginDispatch(r, ack)
      PROVE  Seen(r)
  BY <1>0, <1>1, <1>6 DEF BeginDispatch, Seen, PhaseOf
<1>7. ASSUME NEW ack \in Acks, ReleaseRejected(r, ack)
      PROVE  Seen(r)
  <2>1. /\ hold'[r] = hold[r] \/ (hold[r] \in OpenStates /\ hold'[r] = "released")
        /\ booked' = booked
    BY <1>0, <1>7 DEF ReleaseRejected
  <2>2. BillOf(r) = NoUsage
    BY <1>2, <1>7 DEF ReleaseRejected
  <2>. QED BY <1>1, <2>1, <2>2 DEF Seen, PhaseOf, OpenStates
<1>8. ASSUME NEW ack \in Acks, SettleReply(r, ack)
      PROVE  Seen(r)
  <2>1. /\ gateReceipt[r].kind = "completed" /\ worker[r].answer.usage = gateReceipt[r].usage
        /\ gateReceipt[r].usage # NoUsage
    BY <1>8, CompletedIsEvidence DEF SettleReply, RequestInv, HoldRecords
  <2>2. BillOf(r) = gateReceipt[r].usage
    BY <2>1, CompletedIsEvidence, BillKnown
  <2>3. \/ hold'[r] = hold[r] /\ booked'[r] = booked[r]
        \/ /\ hold[r] \in {"started", "unknown"} /\ hold'[r] = "settled"
           /\ booked'[r] = BillOf(r)
    BY <1>0, <1>8, <2>1, <2>2 DEF SettleReply
  <2>. QED BY <1>1, <2>1, <2>2, <2>3 DEF Seen, PhaseOf
<1>9. ASSUME NEW ack \in Acks, StopBilling(r, ack)
      PROVE  Seen(r)
  BY <1>1, <1>9 DEF StopBilling, Seen, PhaseOf
<1>10. ASSUME NEW ack \in Acks, MarkUnknown(r, ack)
       PROVE  Seen(r)
  <2>1. /\ hold'[r] = hold[r] \/ (hold[r] = "started" /\ hold'[r] = "unknown")
        /\ booked' = booked
    BY <1>0, <1>10 DEF MarkUnknown, InDoubt
  <2>. QED BY <1>1, <2>1 DEF Seen, PhaseOf
<1>. QED BY <1>3, <1>4, <1>5, <1>6, <1>7, <1>8, <1>9, <1>10 DEF Worker

LEMMA VendorSeen ==
  ASSUME TypeOK, TypeOK', NEW r \in Requests, RequestInv(r), RequestInv(r)',
         NEW j \in AdaptCopies, NEW v \in Usages, VendorBills(r, j, v)
  PROVE  Seen(r)
<1>1. /\ adapt[r][j].pc = "dispatch" /\ bill'[r][j] = v /\ v # NoUsage
      /\ hold' = hold /\ booked' = booked
      /\ hold[r] \in {"absent", "settled", "released"} \cup OpenStates
  BY DispatchAssumption DEF VendorBills, TypeOK, billing
<1>2. PhaseOf(r) = "dispatched" /\ PhaseOf(r)' = "dispatched"
  <2>1. /\ evidence[r] = NoUsage /\ ~Unbilled(r)
    BY <1>1, RefusedIsUnbilled DEF RequestInv, OneAdapterCall, BeforeAnswer
  <2>2. hold[r] \notin {"absent", "held", "released"}
    BY <2>1, ReleasedIsUnbilled DEF RequestInv, HoldRecords, GatewayRecords, Unbilled
  <2>3. hold[r] # "settled"
    BY <2>1, PlainReports DEF RequestInv, HoldRecords, GatewayRecords
  <2>. QED BY <1>1, <2>2, <2>3 DEF PhaseOf, OpenStates
<1>3. BillOf(r) = NoUsage
  <2>1. \A i \in AdaptCopies : bill[r][i] = NoUsage
    BY <1>1 DEF RequestInv, OneAdapterCall, Touched, AdaptOwning, BeforeAnswer, NotBilledYet
  <2>2. bill[r] \in [AdaptCopies -> Usages \cup {NoUsage}]
    BY DEF TypeOK
  <2>. QED BY <2>1, <2>2, BillFound DEF BillOf
<1>4. BillOf(r)' = v
  <2>1. bill'[r] \in [AdaptCopies -> Usages \cup {NoUsage}]
    BY DEF TypeOK
  <2>2. \A i, k \in AdaptCopies : bill'[r][i] # NoUsage /\ bill'[r][k] # NoUsage => i = k
    BY DEF RequestInv, OneAdapterCall, Touched
  <2>. QED BY <1>1, <2>1, <2>2, BillFound DEF BillOf
<1>. QED BY <1>1, <1>2, <1>3, <1>4 DEF Seen

LEMMA OperatorSeen ==
  ASSUME TypeOK, NEW r \in Requests, RequestInv(r), Operator(r) \/ Expire(r) \/ Sweep(r)
  PROVE  Seen(r)
<1>. USE DEF billing, gateway, adapter
<1>0. /\ hold \in [Requests -> {"absent", "settled", "released"} \cup OpenStates]
      /\ booked \in [Requests -> Usages \cup {NoUsage}] /\ gateReceipt[r] \in Report
  BY DEF TypeOK
<1>1. BillOf(r)' = BillOf(r)
  BY DEF Operator, Recover, RecoverInVain, Reconcile, Expire, Sweep, BillOf
<1>2. CASE Expire(r) \/ \E ack \in Acks : Recover(r, ack) \/ \E s \in BOOLEAN : RecoverInVain(r, ack, s)
  BY <1>1, <1>2 DEF Expire, Recover, RecoverInVain, Seen, PhaseOf
<1>3. CASE Sweep(r)
  <2>1. BillOf(r) = NoUsage
    BY <1>3, ReleasedIsUnbilled, BillKnown DEF Sweep
  <2>. QED BY <1>0, <1>1, <1>3, <2>1 DEF Sweep, Seen, PhaseOf
<1>4. ASSUME NEW ack \in Acks, Reconcile(r, ack)
      PROVE  Seen(r)
  <2>1. /\ hold[r] \in {"started", "unknown"} /\ booked[r] = NoUsage
        /\ booked'[r] = gateReceipt[r].usage
        /\ hold'[r] = IF gateReceipt[r] = Rejected THEN "released" ELSE "settled"
    BY <1>0, <1>4 DEF Reconcile, RequestInv, HoldRecords
  <2>2. CASE gateReceipt[r].kind = "rejected"
    <3>1. gateReceipt[r] = Rejected /\ gateReceipt[r].usage = NoUsage
      BY <1>0, <2>2, ReportKinds, PlainReports DEF Rejected
    <3>2. BillOf(r) = NoUsage
      BY <2>2, BillKnown DEF RequestInv, GatewayRecords
    <3>. QED BY <1>1, <2>1, <3>1, <3>2 DEF Seen, PhaseOf
  <2>3. CASE gateReceipt[r].kind = "completed"
    <3>1. gateReceipt[r] # Rejected
      BY <2>3, PlainReports
    <3>2. BillOf(r) = gateReceipt[r].usage /\ BillOf(r) # NoUsage
      BY <2>3, CompletedIsEvidence, BillKnown
    <3>. QED BY <1>1, <2>1, <3>1, <3>2 DEF Seen, PhaseOf
  <2>. QED BY <1>4, <2>2, <2>3 DEF Reconcile, Terminal
<1>. QED BY <1>2, <1>3, <1>4 DEF Operator

\* Seen from outside, the three services and the operator are one paid request: the
\* vendor bills at most once, and the hold ends as a charge of exactly that bill or
\* as a refund of a request that was not billed.
THEOREM ChainKeepsPromise == Spec => ImplementsPaidRequest
<1>1. Init => Abstract!PaidInit
  <2>. SUFFICES ASSUME Init PROVE Abstract!PaidInit
    OBVIOUS
  <2>1. \A r \in Requests : BillOf(r) = NoUsage
    BY BillFound DEF Init, BillOf
  <2>2. \A r \in Requests : PhaseOf(r) = "none"
    BY DEF Init, PhaseOf
  <2>. QED BY <2>1, <2>2 DEF Init, Abstract!PaidInit
<1>2. IInv /\ IInv' /\ [Next]_vars => [Abstract!PaidNext]_(Abstract!paidVars)
  <2>. SUFFICES ASSUME IInv, IInv', [Next]_vars
                PROVE  [Abstract!PaidNext]_(Abstract!paidVars)
    OBVIOUS
  <2>0. /\ TypeOK /\ TypeOK'
        /\ \A r \in Requests : RequestInv(r) /\ RequestInv(r)'
    BY DEF IInv
  <2>1. ASSUME NEW r \in Requests, Worker(r)
        PROVE  [Abstract!PaidNext]_(Abstract!paidVars)
    BY <2>0, <2>1, WorkerEffect, WorkerSeen, SeenIsAbstract
  <2>2. ASSUME UNCHANGED <<hold, booked, bill>>
        PROVE  [Abstract!PaidNext]_(Abstract!paidVars)
    <3>1. \A r \in Requests : PhaseOf(r)' = PhaseOf(r) /\ BillOf(r)' = BillOf(r)
      BY <2>2 DEF PhaseOf, BillOf
    <3>. QED BY <2>2, <3>1 DEF Abstract!paidVars
  <2>3. ASSUME NEW r \in Requests, NEW k \in GateCopies, Gateway(r, k)
        PROVE  UNCHANGED <<hold, booked, bill>>
    BY <2>3
       DEF Gateway, GateReceive, GateCheck, GateForward, GateTurnAway, GateHear, GateLoseAnswer,
           GateClaim, GateSave, GateFail, billing, adapter
  <2>4. ASSUME NEW r \in Requests, NEW j \in AdaptCopies, Adapter(r, j)
        PROVE  [Abstract!PaidNext]_(Abstract!paidVars)
    <3>1. ASSUME NEW v \in Usages, VendorBills(r, j, v)
          PROVE  [Abstract!PaidNext]_(Abstract!paidVars)
      BY <2>0, <2>4, <3>1, AdapterEffect, VendorSeen, SeenIsAbstract
    <3>2. (\A v \in Usages : ~VendorBills(r, j, v)) => UNCHANGED <<hold, booked, bill>>
      BY <2>4
         DEF Adapter, AdaptReceive, AdaptCheck, AdaptPass, AdaptTurnAway, VendorUnreached,
             AdaptClaim, AdaptReject, AdaptRecord, AdaptSave, AdaptFail, billing
    <3>. QED BY <2>2, <3>1, <3>2
  <2>5. ASSUME NEW r \in Requests, Operator(r) \/ Expire(r) \/ Sweep(r)
        PROVE  [Abstract!PaidNext]_(Abstract!paidVars)
    BY <2>0, <2>5, OperatorEffect, OperatorSeen, SeenIsAbstract
  <2>6. ASSUME NEW s \in Switches, NEW on \in BOOLEAN, SetSwitch(s, on)
        PROVE  UNCHANGED <<hold, booked, bill>>
    BY <2>6 DEF SetSwitch, billing, adapter
  <2>7. CASE UNCHANGED vars
    BY <2>2, <2>7 DEF vars, billing, adapter
  <2>. QED BY <2>1, <2>2, <2>3, <2>4, <2>5, <2>6, <2>7 DEF Next
<1>. QED
  BY <1>1, <1>2, Invariance, PTL DEF Spec, ImplementsPaidRequest, Abstract!PaidSpec
================================================================================
