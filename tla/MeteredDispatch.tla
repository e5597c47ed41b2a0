--------------------------- MODULE MeteredDispatch ---------------------------
(***************************************************************************)
(* One paid chat request on its way through three services, each with a    *)
(* database of its own and no transaction across them: the Worker          *)
(* (backend/chat-execution.mjs), the metered gateway (metered-gateway.mjs) *)
(* and the Gemini adapter (gemini-adapter.mjs), plus the operator's        *)
(* recovery and reconciliation of what was left in doubt.                  *)
(*                                                                         *)
(* Every await is a step boundary.  A POST may be delivered late, more     *)
(* than once, or never; an answer may be lost; a write may be refused, or  *)
(* take effect and lose its acknowledgement.  A process that crashed is    *)
(* one that takes no further step: nothing it kept in memory is resumed.   *)
(***************************************************************************)
EXTENDS FiniteSets

CONSTANTS
  Requests,
  Usages, NoUsage,   \* what the vendor may measure
  GateCopies,        \* deliveries of the Worker's POST to the gateway
  AdaptCopies,       \* deliveries of the gateway's POST to the adapter
  Acks               \* outcomes of a database write

ASSUME DispatchAssumption ==
  /\ NoUsage \notin Usages
  /\ Acks \subseteq {"done", "lost", "failed"}

VARIABLES
  hold,      \* usage_reservations: status and, while reserved, provider_state
  booked,    \* the usage a settlement booked
  expired,   \* expires_at has passed
  switch,    \* chat_billing_policy and the two gateway_control rows
  worker,    \* executeChat's call
  posts,     \* services the request was posted to
  gate,      \* the gateway's calls of generate
  gateReceipt,
  adapt,     \* the adapter's calls of generate
  adaptReceipt,
  evidence,  \* adapter_vendor_evidence
  bill       \* the vendor's books: what it billed for each call of the adapter

billing == <<hold, booked, expired>>
gateway == <<gate, gateReceipt>>
adapter == <<adapt, adaptReceipt, evidence, bill>>
vars == <<billing, switch, worker, posts, gateway, adapter>>

-----------------------------------------------------------------------------
(* Receipts, answers and writes *)

Plain(kind) == [kind |-> kind, usage |-> NoUsage]
None == Plain("none")
Refused == Plain("refused")     \* any reply that is no envelope
Rejected == Plain("rejected")
Completed(u) == [kind |-> "completed", usage |-> u]

\* The table's CHECK: only a completed receipt carries usage, and always.
Report ==
  {Plain(kind) : kind \in {"none", "refused", "dispatching", "unknown", "rejected"}}
  \cup {Completed(u) : u \in Usages}

Terminal(report) == report.kind \in {"rejected", "completed"}

Written(ack) == ack # "failed"

\* Seeded fault: the caller does not wait for the write it reports.
Attempted(matched, ack) == matched

\* The statement changed a row, and the caller knows.
Confirmed(matched, ack) == matched /\ ack = "done"

\* finalize's UPDATE; gateway_receipt_update protects a terminal receipt.
Finalized(receipt, payload) ==
  IF receipt.kind \in {"dispatching", "unknown"} THEN payload ELSE receipt

\* Seeded fault: the UPDATE does not ask for a receipt still dispatching.
DoubtedAnyway(receipt) == [receipt EXCEPT !.kind = "unknown"]

\* unknown's UPDATE.
Doubted(receipt) == IF receipt.kind = "dispatching" THEN Plain("unknown") ELSE receipt

Call(pc, answer) == [pc |-> pc, answer |-> answer]

OpenStates == {"held", "started", "unknown"}
Dispatchable(r) == hold[r] = "started" /\ ~expired[r]
AllOn == \A s \in DOMAIN switch : switch[s]

-----------------------------------------------------------------------------
(* The Worker: executeChat *)

Reserve(r, ack) ==
  /\ worker[r].pc = "idle" /\ hold[r] = "absent"
  /\ switch["billing"]
  /\ hold' = [hold EXCEPT ![r] = IF Written(ack) THEN "held" ELSE @]
  /\ worker' = [worker EXCEPT ![r] = Call(IF Confirmed(TRUE, ack) THEN "reserved" ELSE "error", None)]
  /\ UNCHANGED <<booked, expired, switch, posts, gateway, adapter>>

\* releaseChat without evidence: only an undispatched hold.
ReleaseHeld(r, ack, reply) ==
  /\ hold' = [hold EXCEPT ![r] = IF @ = "held" /\ Written(ack) THEN "released" ELSE @]
  /\ worker' = [worker EXCEPT ![r] =
       Call(IF Confirmed(hold[r] = "held", ack) THEN reply ELSE "error", None)]
  /\ UNCHANGED <<booked, expired, switch, posts, gateway, adapter>>

Cancel(r, ack) == worker[r].pc = "reserved" /\ ReleaseHeld(r, ack, "cancelled")

\* The account's own conditions may also refuse: that is a write that failed.
BeginDispatch(r, ack) ==
  LET started == hold[r] = "held" /\ switch["billing"] /\ ~expired[r] /\ Written(ack)
      sent == started /\ ack = "done"
  IN
  /\ worker[r].pc = "reserved"
  /\ hold' = [hold EXCEPT ![r] = IF started THEN "started" ELSE @]
  /\ worker' = [worker EXCEPT ![r] = Call(IF sent THEN "waiting" ELSE "undoing", None)]
  /\ posts' = [posts EXCEPT ![r] = IF sent THEN @ \cup {"gateway"} ELSE @]
  /\ UNCHANGED <<booked, expired, switch, gateway, adapter>>

UndoDispatch(r, ack) == worker[r].pc = "undoing" /\ ReleaseHeld(r, ack, "error")

WorkerGoes(r, pc, answer) ==
  /\ worker' = [worker EXCEPT ![r] = Call(pc, answer)]
  /\ UNCHANGED <<billing, switch, posts, gateway, adapter>>

\* Timeout, cancellation or a lost connection; or a body that is not JSON.
GiveUp(r) ==
  /\ worker[r].pc = "waiting"
  /\ \E pc \in {"holding", "stopping"} : WorkerGoes(r, pc, None)

\* Seeded fault: every envelope is settled.
SettlesEnvelopes(kind) == IF kind \in {"rejected", "completed"} THEN "settling" ELSE "stopping"

AfterReply(kind) ==
  CASE kind = "rejected" -> "releasing"
    [] kind = "completed" -> "settling"
    [] OTHER -> "stopping"

ReceiveReply(r, k) ==
  /\ worker[r].pc = "waiting" /\ gate[r][k].pc = "answered"
  /\ WorkerGoes(r, AfterReply(gate[r][k].answer.kind), gate[r][k].answer)

ReleaseRejected(r, ack) ==
  LET open == hold[r] \in OpenStates IN
  /\ worker[r].pc = "releasing"
  /\ hold' = [hold EXCEPT ![r] = IF open /\ Written(ack) THEN "released" ELSE @]
  /\ worker' = [worker EXCEPT ![r].pc = IF Confirmed(open, ack) THEN "rejected" ELSE "error"]
  /\ UNCHANGED <<booked, expired, switch, posts, gateway, adapter>>

SettleReply(r, ack) ==
  LET open == hold[r] \in {"started", "unknown"} IN
  /\ worker[r].pc = "settling"
  /\ hold' = [hold EXCEPT ![r] = IF open /\ Written(ack) THEN "settled" ELSE @]
  /\ booked' = [booked EXCEPT ![r] = IF open /\ Written(ack) THEN worker[r].answer.usage ELSE @]
  /\ worker' = [worker EXCEPT ![r].pc = IF Confirmed(open, ack) THEN "output" ELSE "holding"]
  /\ UNCHANGED <<expired, switch, posts, gateway, adapter>>

StopBilling(r, ack) ==
  /\ worker[r].pc = "stopping"
  /\ switch' = [switch EXCEPT !["billing"] = IF Written(ack) THEN FALSE ELSE @]
  /\ worker' = [worker EXCEPT ![r].pc = "holding"]
  /\ UNCHANGED <<billing, posts, gateway, adapter>>

\* Seeded fault: a failed or late answer is taken for a failed request.
ReleasesInDoubt(state) == IF state = "started" THEN "released" ELSE state

InDoubt(state) == IF state = "started" THEN "unknown" ELSE state

\* holdUnknown: the hold stays, whatever becomes of this write.
MarkUnknown(r, ack) ==
  /\ worker[r].pc = "holding"
  /\ hold' = [hold EXCEPT ![r] = IF Written(ack) THEN InDoubt(@) ELSE @]
  /\ worker' = [worker EXCEPT ![r].pc = "reconcile"]
  /\ UNCHANGED <<booked, expired, switch, posts, gateway, adapter>>

-----------------------------------------------------------------------------
(* The gateway: generate, one call for each delivery of the POST *)

GateGoes(r, k, pc, answer) == gate' = [gate EXCEPT ![r][k] = Call(pc, answer)]

GateReceive(r, k) ==
  /\ gate[r][k].pc = "idle" /\ "gateway" \in posts[r]
  /\ IF gateReceipt[r] = None
     THEN GateGoes(r, k, "check", None)
     ELSE GateGoes(r, k, "answered", Refused)
  /\ UNCHANGED <<billing, switch, worker, posts, gateReceipt, adapter>>

GateCheck(r, k) ==
  /\ gate[r][k].pc = "check"
  /\ IF Dispatchable(r)
     THEN GateGoes(r, k, "claim", None)
     ELSE GateGoes(r, k, "answered", Refused)
  /\ UNCHANGED <<billing, switch, worker, posts, gateReceipt, adapter>>

\* Seeded fault: INSERT OR IGNORE, which a second call takes for its own claim.
ClaimIgnored(receipt, ack) == ack = "done"

\* The INSERT took effect and was acknowledged: this call owns the request.
Claimed(receipt, ack) == receipt = None /\ ack = "done"

GateClaim(r, k, ack) ==
  /\ gate[r][k].pc = "claim"
  /\ gateReceipt' = [gateReceipt EXCEPT ![r] =
       IF @ = None /\ Written(ack) THEN Plain("dispatching") ELSE @]
  /\ IF Claimed(gateReceipt[r], ack)
     THEN GateGoes(r, k, "gated", None)
     ELSE GateGoes(r, k, "answered", Refused)
  /\ UNCHANGED <<billing, switch, worker, posts, adapter>>

\* The two switches are read one after the other; the model reads them at once.
GateForward(r, k) ==
  /\ gate[r][k].pc = "gated"
  /\ switch["gateway"] /\ switch["billing"]
  /\ GateGoes(r, k, "calling", None)
  /\ posts' = [posts EXCEPT ![r] = @ \cup {"adapter"}]
  /\ UNCHANGED <<billing, switch, worker, gateReceipt, adapter>>

\* Stopped, or the Worker gave up, before anything was forwarded.
GateTurnAway(r, k) ==
  /\ gate[r][k].pc = "gated"
  /\ ~switch["gateway"] \/ ~switch["billing"] \/ worker[r].pc # "waiting"
  /\ GateGoes(r, k, "saving", Rejected)
  /\ UNCHANGED <<billing, switch, worker, posts, gateReceipt, adapter>>

GateHear(r, k, j) ==
  LET answer == adapt[r][j].answer IN
  /\ gate[r][k].pc = "calling" /\ adapt[r][j].pc = "answered"
  /\ IF Terminal(answer)
     THEN GateGoes(r, k, "saving", answer)
     ELSE GateGoes(r, k, "failing", None)
  /\ UNCHANGED <<billing, switch, worker, posts, gateReceipt, adapter>>

\* A switch could not be read; a timeout, a lost connection or an answer out of contract.
GateLoseAnswer(r, k) ==
  /\ \/ gate[r][k].pc = "gated" /\ GateGoes(r, k, "failing", None)
     \/ /\ gate[r][k].pc = "calling"
        /\ \E pc \in {"failing", "violated"} : GateGoes(r, k, pc, None)
  /\ UNCHANGED <<billing, switch, worker, posts, gateReceipt, adapter>>

\* finalize, which reads the receipt back and compares, then the reply.
GateSave(r, k, ack) ==
  LET payload == gate[r][k].answer
      saved == IF Written(ack) THEN Finalized(gateReceipt[r], payload) ELSE gateReceipt[r]
  IN
  /\ gate[r][k].pc = "saving"
  /\ gateReceipt' = [gateReceipt EXCEPT ![r] = saved]
  /\ IF ack = "done" /\ saved = payload
     THEN GateGoes(r, k, "answered", payload)
     ELSE GateGoes(r, k, "failing", None)
  /\ UNCHANGED <<billing, switch, worker, posts, adapter>>

\* unknown: two writes, each of which may fail unnoticed; the second may stop spending.
GateFail(r, k, ack, stopped) ==
  /\ gate[r][k].pc \in {"failing", "violated"}
  /\ stopped => gate[r][k].pc = "violated"
  /\ switch' = [switch EXCEPT !["gateway"] = @ /\ ~stopped]
  /\ gateReceipt' = [gateReceipt EXCEPT ![r] = IF Written(ack) THEN Doubted(@) ELSE @]
  /\ GateGoes(r, k, "answered", Refused)
  /\ UNCHANGED <<billing, worker, posts, adapter>>

-----------------------------------------------------------------------------
(* The adapter: generate, one call for each delivery of the gateway's POST *)

AdaptGoes(r, j, pc, answer) == adapt' = [adapt EXCEPT ![r][j] = Call(pc, answer)]

AdaptReceive(r, j) ==
  /\ adapt[r][j].pc = "idle" /\ "adapter" \in posts[r]
  /\ IF adaptReceipt[r] = None
     THEN AdaptGoes(r, j, "check", None)
     ELSE AdaptGoes(r, j, "answered", Refused)
  /\ UNCHANGED <<billing, switch, worker, posts, gateway, adaptReceipt, evidence, bill>>

AdaptCheck(r, j) ==
  /\ adapt[r][j].pc = "check"
  /\ IF Dispatchable(r) /\ gateReceipt[r].kind = "dispatching"
     THEN AdaptGoes(r, j, "claim", None)
     ELSE AdaptGoes(r, j, "answered", Refused)
  /\ UNCHANGED <<billing, switch, worker, posts, gateway, adaptReceipt, evidence, bill>>

AdaptClaim(r, j, ack) ==
  /\ adapt[r][j].pc = "claim"
  /\ adaptReceipt' = [adaptReceipt EXCEPT ![r] =
       IF @ = None /\ Written(ack) THEN Plain("dispatching") ELSE @]
  /\ IF Claimed(adaptReceipt[r], ack)
     THEN AdaptGoes(r, j, "gated", None)
     ELSE AdaptGoes(r, j, "answered", Refused)
  /\ UNCHANGED <<billing, switch, worker, posts, gateway, evidence, bill>>

\* Both passes over the stop controls, the second with the reservation, around
\* the token count; the claim is read last.
AdaptPass(r, j) ==
  /\ \/ adapt[r][j].pc = "gated" /\ AllOn /\ AdaptGoes(r, j, "recheck", None)
     \/ adapt[r][j].pc = "recheck" /\ AllOn /\ Dispatchable(r) /\ AdaptGoes(r, j, "confirm", None)
     \/ /\ adapt[r][j].pc = "confirm" /\ gateReceipt[r].kind = "dispatching"
        /\ AdaptGoes(r, j, "dispatch", None)
  /\ UNCHANGED <<billing, switch, worker, posts, gateway, adaptReceipt, evidence, bill>>

\* Stopped, aborted, over the token budget, or any error before the dispatch: the
\* first two are refused in the try and once more in its catch, an error only there.
AdaptTurnAway(r, j) ==
  /\ adapt[r][j].pc \in {"gated", "recheck", "confirm"}
  /\ \E pc \in {"rejecting", "rejectingAgain"} : AdaptGoes(r, j, pc, Rejected)
  /\ UNCHANGED <<billing, switch, worker, posts, gateway, adaptReceipt, evidence, bill>>

AdaptReject(r, j, ack) ==
  LET saved == IF Written(ack) THEN Finalized(adaptReceipt[r], Rejected) ELSE adaptReceipt[r] IN
  /\ adapt[r][j].pc \in {"rejecting", "rejectingAgain"}
  /\ adaptReceipt' = [adaptReceipt EXCEPT ![r] = saved]
  /\ CASE ack = "done" /\ saved = Rejected -> AdaptGoes(r, j, "answered", Rejected)
       [] ~(ack = "done" /\ saved = Rejected) /\ adapt[r][j].pc = "rejecting" ->
            AdaptGoes(r, j, "rejectingAgain", Rejected)
       [] OTHER -> AdaptGoes(r, j, "answered", Refused)
  /\ UNCHANGED <<billing, switch, worker, posts, gateway, evidence, bill>>

\* Seeded fault: a call the vendor did not answer counts as not dispatched.
TakenForRefused == {"rejecting"}

\* The answer was lost, or breaks the usage contract.
AfterDispatchError == {"failing", "violated"}

VendorBills(r, j, u) ==
  /\ adapt[r][j].pc = "dispatch"
  /\ bill' = [bill EXCEPT ![r][j] = u]
  /\ \/ AdaptGoes(r, j, "recording", Completed(u))
     \/ \E pc \in AfterDispatchError : AdaptGoes(r, j, pc, None)
  /\ UNCHANGED <<billing, switch, worker, posts, gateway, adaptReceipt, evidence>>

VendorUnreached(r, j) ==
  /\ adapt[r][j].pc = "dispatch"
  /\ \E pc \in AfterDispatchError : AdaptGoes(r, j, pc, None)
  /\ UNCHANGED <<billing, switch, worker, posts, gateway, adaptReceipt, evidence, bill>>

\* The evidence is committed, once, before the receipt is final (adapter_evidence_guard).
AdaptRecord(r, j, ack) ==
  LET accepted == evidence[r] = NoUsage /\ adaptReceipt[r].kind \in {"dispatching", "unknown"} IN
  /\ adapt[r][j].pc = "recording"
  /\ evidence' = [evidence EXCEPT ![r] =
       IF accepted /\ Written(ack) THEN adapt[r][j].answer.usage ELSE @]
  /\ IF accepted /\ ack = "done"
     THEN AdaptGoes(r, j, "saving", adapt[r][j].answer)
     ELSE AdaptGoes(r, j, "failing", None)
  /\ UNCHANGED <<billing, switch, worker, posts, gateway, adaptReceipt, bill>>

\* finalize; an answer without usable text fails after its receipt is final.
AdaptSave(r, j, ack) ==
  LET payload == adapt[r][j].answer
      saved == IF Written(ack) THEN Finalized(adaptReceipt[r], payload) ELSE adaptReceipt[r]
  IN
  /\ adapt[r][j].pc = "saving"
  /\ adaptReceipt' = [adaptReceipt EXCEPT ![r] = saved]
  /\ \/ ack = "done" /\ saved = payload /\ AdaptGoes(r, j, "answered", payload)
     \/ AdaptGoes(r, j, "failing", None)
  /\ UNCHANGED <<billing, switch, worker, posts, gateway, evidence, bill>>

AdaptFail(r, j, ack, stopped) ==
  /\ adapt[r][j].pc \in {"failing", "violated"}
  /\ stopped => adapt[r][j].pc = "violated"
  /\ switch' = [switch EXCEPT !["adapter"] = @ /\ ~stopped]
  /\ adaptReceipt' = [adaptReceipt EXCEPT ![r] = IF Written(ack) THEN Doubted(@) ELSE @]
  /\ AdaptGoes(r, j, "answered", Refused)
  /\ UNCHANGED <<billing, worker, posts, gateway, evidence, bill>>

-----------------------------------------------------------------------------
(* The operator: recoverGatewayReceipt and reconcileChatFromGateway *)

\* Seeded fault: lookup does not know of evidence whose receipt was not finalized.
ReceiptOnly(r) == adaptReceipt[r]

\* GET /receipts of the adapter shows committed evidence as completed.
ProjectedReceipt(r) ==
  IF ~Terminal(adaptReceipt[r]) /\ evidence[r] # NoUsage
  THEN Completed(evidence[r]) ELSE adaptReceipt[r]

\* What is read here no longer changes once it is terminal, so reading and saving
\* are one step.
Recover(r, ack) ==
  /\ gateReceipt[r].kind \in {"dispatching", "unknown"}
  /\ Terminal(ProjectedReceipt(r)) /\ Written(ack)
  /\ gateReceipt' = [gateReceipt EXCEPT ![r] = Finalized(@, ProjectedReceipt(r))]
  /\ UNCHANGED <<billing, switch, worker, posts, gate, adapter>>

\* An open or unreadable receipt counts as a broken contract and stops the gateway;
\* an unreachable adapter, or one without the receipt, does not.
RecoverInVain(r, ack, stopped) ==
  /\ gateReceipt[r].kind \in {"dispatching", "unknown"}
  /\ switch' = [switch EXCEPT !["gateway"] = @ /\ ~stopped]
  /\ gateReceipt' = [gateReceipt EXCEPT ![r] = IF Written(ack) THEN Doubted(@) ELSE @]
  /\ UNCHANGED <<billing, worker, posts, gate, adapter>>

Reconcile(r, ack) ==
  LET receipt == gateReceipt[r] IN
  /\ hold[r] \in {"started", "unknown"}
  /\ Terminal(receipt) /\ Written(ack)
  /\ hold' = [hold EXCEPT ![r] = IF receipt = Rejected THEN "released" ELSE "settled"]
  /\ booked' = [booked EXCEPT ![r] = receipt.usage]
  /\ UNCHANGED <<expired, switch, worker, posts, gateway, adapter>>

SetSwitch(s, on) ==
  /\ switch' = [switch EXCEPT ![s] = on]
  /\ UNCHANGED <<billing, worker, posts, gateway, adapter>>

(* Time, and the scheduled sweep *)

Expire(r) ==
  /\ hold[r] # "absent" /\ ~expired[r]
  /\ expired' = [expired EXCEPT ![r] = TRUE]
  /\ UNCHANGED <<hold, booked, switch, worker, posts, gateway, adapter>>

Sweep(r) ==
  /\ hold[r] = "held" /\ expired[r]
  /\ hold' = [hold EXCEPT ![r] = "released"]
  /\ UNCHANGED <<booked, expired, switch, worker, posts, gateway, adapter>>

-----------------------------------------------------------------------------
Switches == {"billing", "gateway", "adapter"}

Init ==
  /\ hold = [r \in Requests |-> "absent"]
  /\ booked = [r \in Requests |-> NoUsage]
  /\ expired = [r \in Requests |-> FALSE]
  /\ switch = [s \in Switches |-> TRUE]
  /\ worker = [r \in Requests |-> Call("idle", None)]
  /\ posts = [r \in Requests |-> {}]
  /\ gate = [r \in Requests |-> [k \in GateCopies |-> Call("idle", None)]]
  /\ gateReceipt = [r \in Requests |-> None]
  /\ adapt = [r \in Requests |-> [j \in AdaptCopies |-> Call("idle", None)]]
  /\ adaptReceipt = [r \in Requests |-> None]
  /\ evidence = [r \in Requests |-> NoUsage]
  /\ bill = [r \in Requests |-> [j \in AdaptCopies |-> NoUsage]]

Worker(r) ==
  \/ GiveUp(r)
  \/ \E k \in GateCopies : ReceiveReply(r, k)
  \/ \E ack \in Acks :
       \/ Reserve(r, ack) \/ Cancel(r, ack) \/ BeginDispatch(r, ack) \/ UndoDispatch(r, ack)
       \/ ReleaseRejected(r, ack) \/ SettleReply(r, ack)
       \/ StopBilling(r, ack) \/ MarkUnknown(r, ack)

Gateway(r, k) ==
  \/ GateReceive(r, k) \/ GateCheck(r, k) \/ GateForward(r, k) \/ GateTurnAway(r, k)
  \/ \E j \in AdaptCopies : GateHear(r, k, j)
  \/ GateLoseAnswer(r, k)
  \/ \E ack \in Acks :
       \/ GateClaim(r, k, ack) \/ GateSave(r, k, ack)
       \/ \E stopped \in BOOLEAN : GateFail(r, k, ack, stopped)

Adapter(r, j) ==
  \/ AdaptReceive(r, j) \/ AdaptCheck(r, j) \/ AdaptPass(r, j) \/ AdaptTurnAway(r, j)
  \/ VendorUnreached(r, j)
  \/ \E u \in Usages : VendorBills(r, j, u)
  \/ \E ack \in Acks :
       \/ AdaptClaim(r, j, ack) \/ AdaptReject(r, j, ack)
       \/ AdaptRecord(r, j, ack) \/ AdaptSave(r, j, ack)
       \/ \E stopped \in BOOLEAN : AdaptFail(r, j, ack, stopped)

Operator(r) ==
  \E ack \in Acks :
    \/ Recover(r, ack) \/ Reconcile(r, ack)
    \/ \E stopped \in BOOLEAN : RecoverInVain(r, ack, stopped)

Next ==
  \/ \E r \in Requests :
       \/ Worker(r)
       \/ \E k \in GateCopies : Gateway(r, k)
       \/ \E j \in AdaptCopies : Adapter(r, j)
       \/ Operator(r)
       \/ Expire(r) \/ Sweep(r)
  \/ \E s \in Switches, on \in BOOLEAN : SetSwitch(s, on)

Spec == Init /\ [][Next]_vars

-----------------------------------------------------------------------------
(* Properties *)

WorkerSteps == {"idle", "reserved", "undoing", "waiting", "releasing", "settling",
                "stopping", "holding"}
Replies == {"output", "rejected", "cancelled", "reconcile", "error"}
GateSteps == {"idle", "check", "claim", "gated", "calling", "saving", "failing", "violated",
              "answered"}
AdaptSteps == {"idle", "check", "claim", "gated", "recheck", "confirm", "dispatch", "rejecting",
               "rejectingAgain", "recording", "saving", "failing", "violated", "answered"}

CallAt(steps) == [pc : steps, answer : Report]

TypeOK ==
  /\ hold \in [Requests -> {"absent", "settled", "released"} \cup OpenStates]
  /\ booked \in [Requests -> Usages \cup {NoUsage}]
  /\ expired \in [Requests -> BOOLEAN]
  /\ switch \in [Switches -> BOOLEAN]
  /\ worker \in [Requests -> CallAt(WorkerSteps \cup Replies)]
  /\ posts \in [Requests -> SUBSET {"gateway", "adapter"}]
  /\ gate \in [Requests -> [GateCopies -> CallAt(GateSteps)]]
  /\ gateReceipt \in [Requests -> Report]
  /\ adapt \in [Requests -> [AdaptCopies -> CallAt(AdaptSteps)]]
  /\ adaptReceipt \in [Requests -> Report]
  /\ evidence \in [Requests -> Usages \cup {NoUsage}]
  /\ bill \in [Requests -> [AdaptCopies -> Usages \cup {NoUsage}]]

\* However often the POSTs are delivered and whichever claim loses its
\* acknowledgement, the vendor works at most once for a reservation.
BilledAtMostOnce ==
  \A r \in Requests : \A i, j \in AdaptCopies :
    bill[r][i] # NoUsage /\ bill[r][j] # NoUsage => i = j

\* Credits go back only when the vendor has not billed, and no call that is still
\* on its way can reach the vendor any more.
RefundedNeverBilled ==
  \A r \in Requests : hold[r] = "released" =>
    \A j \in AdaptCopies : bill[r][j] = NoUsage /\ adapt[r][j].pc # "dispatch"

\* A settlement books what the vendor billed, whichever of the Worker and the
\* operator got there, and along whichever chain of receipts.
SettledAsBilled ==
  \A r \in Requests : hold[r] = "settled" =>
    \E j \in AdaptCopies : bill[r][j] = booked[r] /\ booked[r] # NoUsage

\* Committed vendor evidence can always be settled: the adapter shows it, and the
\* gateway holds it or can still take it, so the operator needs no second generation.
EvidenceRecoverable ==
  \A r \in Requests : evidence[r] # NoUsage =>
    /\ ProjectedReceipt(r) = Completed(evidence[r])
    /\ ~Terminal(gateReceipt[r]) \/ gateReceipt[r] = Completed(evidence[r])
    /\ hold[r] \in {"started", "unknown"} \/ (hold[r] = "settled" /\ booked[r] = evidence[r])

\* What the client was told is what became of its credits: an answer was charged as
\* measured, and a rejection or a cancellation gave everything back.
ReplyMatchesHold ==
  \A r \in Requests :
    /\ worker[r].pc = "output" => hold[r] = "settled" /\ booked[r] = worker[r].answer.usage
    /\ worker[r].pc \in {"rejected", "cancelled"} => hold[r] = "released"

\* A terminal receipt, recorded evidence and a closed hold are never rewritten, by
\* late answers, a recovery or a second call.
Kept(r) ==
  /\ Terminal(gateReceipt[r]) => gateReceipt'[r] = gateReceipt[r]
  /\ Terminal(adaptReceipt[r]) => adaptReceipt'[r] = adaptReceipt[r]
  /\ evidence[r] # NoUsage => evidence'[r] = evidence[r]
  /\ hold[r] \in {"settled", "released"} => hold'[r] = hold[r] /\ booked'[r] = booked[r]

RecordsFinal == [][\A r \in Requests : Kept(r)]_vars

\* docs/atomic-chat-billing.md says that repeating a settlement with the same usage
\* returns the receipt: then a Worker that finds the operator's settlement of the
\* very same usage answers, and does not report its settlement unconfirmed.
Repeated(r) ==
  worker[r].pc = "settling" /\ hold[r] = "settled" /\ booked[r] = worker[r].answer.usage

RepeatSettlementReturnsReceipt ==
  [][\A r \in Requests : Repeated(r) => worker'[r].pc # "holding"]_vars

-----------------------------------------------------------------------------
(* The promise this chain keeps *)

PhaseOf(r) ==
  CASE hold[r] = "absent" -> "none"
    [] hold[r] = "held" -> "held"
    [] hold[r] \in {"started", "unknown"} -> "dispatched"
    [] hold[r] = "settled" -> "charged"
    [] hold[r] = "released" -> "refunded"

\* What the vendor billed, in the books b of one request.
BillIn(b) ==
  IF \E j \in AdaptCopies : b[j] # NoUsage
  THEN CHOOSE u \in Usages : \E j \in AdaptCopies : b[j] = u
  ELSE NoUsage

BillOf(r) == BillIn(bill[r])

Abstract == INSTANCE PaidRequest WITH
  phase <- [r \in Requests |-> PhaseOf(r)],
  billed <- [r \in Requests |-> BillOf(r)],
  charged <- booked

\* Every step of the chain is one step of the paid request, or none.
ImplementsPaidRequest == Abstract!PaidSpec
=============================================================================
