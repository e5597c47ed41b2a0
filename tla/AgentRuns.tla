------------------------------ MODULE AgentRuns ------------------------------
(***************************************************************************)
(* Agent runs: the Worker that creates and cancels them, the queue that    *)
(* delivers each at least once, the consumer that claims a run, holds its  *)
(* budget and calls the metered provider, and the operator who closes what *)
(* was left in doubt (backend/worker.mjs, agent-runtime.mjs and            *)
(* agent-reconciliation.mjs).                                              *)
(*                                                                         *)
(* Every await is a step boundary.  A write may be refused, or take effect *)
(* and lose its acknowledgement; a consumer that died takes no more steps, *)
(* and one that asked for a retry is a further delivery.                   *)
(***************************************************************************)
EXTENDS FiniteSets, Integers

CONSTANTS
  Calls,       \* requests to create a run; a run is named after its request
  OwnerOf, KeyOf,
  Deliveries,  \* what the queue may hand to a consumer
  DeliveriesOf,
  Acks,        \* outcomes of a database write
  MaxActive    \* active runs of one owner (two, in the code)

ASSUME AgentAssumption ==
  /\ IsFiniteSet(Calls)
  /\ DeliveriesOf \in [Calls -> SUBSET Deliveries]
  /\ Acks \subseteq {"done", "lost", "failed"}
  /\ MaxActive \in Nat

VARIABLES
  create,    \* createAgent's call
  status,    \* agent_runs
  stale,     \* queued for more than five minutes
  sent,      \* the run is in the queue
  worker,    \* prepareAgentExecution's call for each delivery
  hold,      \* the run's row of usage_reservations
  expired,   \* expires_at has passed
  provider,  \* what the metered provider made of the run's POST
  billing    \* chat_billing_policy.enabled

runs == <<create, status, stale, sent>>
money == <<hold, expired, billing>>
vars == <<runs, worker, money, provider>>

-----------------------------------------------------------------------------
Active == {"queued", "planning", "running", "awaiting_approval"}
Ended == {"completed", "failed", "cancelled", "expired"}
InDispatch == {"started", "unknown"}

Written(ack) == ack # "failed"

\* Seeded fault: the caller does not wait for the write it relies on.
Attempted(matched, ack) == matched

\* The statement changed a row, and the caller knows.
Confirmed(matched, ack) == matched /\ ack = "done"

ActiveOf(owner) == {b \in Calls : OwnerOf[b] = owner /\ status[b] \in Active}

\* Seeded fault: only the friendly count before the insert keeps the cap.
Uncapped(owner) == TRUE

\* agent_runs_active_cap_insert.
UnderCap(owner) == Cardinality(ActiveOf(owner)) < MaxActive

\* UNIQUE(owner_id, idempotency_key).
SameKey(c) ==
  {b \in Calls : OwnerOf[b] = OwnerOf[c] /\ KeyOf[b] = KeyOf[c] /\ status[b] # "absent"}

-----------------------------------------------------------------------------
(* createAgent and mutateRun *)

CreateGoes(c, pc) == create' = [create EXCEPT ![c] = pc]

\* The lookup by key and the friendly count, of which a later insert relies on neither.
Screen(c) ==
  /\ create[c] = "idle"
  /\ CreateGoes(c, IF SameKey(c) = {} /\ Cardinality(ActiveOf(OwnerOf[c])) < MaxActive
                   THEN "inserting" ELSE "replied")
  /\ UNCHANGED <<status, stale, sent, worker, money, provider>>

\* After an error the row is looked up by its key and, if there, answered as it stands.
Insert(c, ack) ==
  LET accepted == SameKey(c) = {} /\ UnderCap(OwnerOf[c]) IN
  /\ create[c] = "inserting"
  /\ status' = [status EXCEPT ![c] = IF accepted /\ Written(ack) THEN "queued" ELSE @]
  /\ CreateGoes(c, IF Confirmed(accepted, ack) THEN "sending" ELSE "replied")
  /\ UNCHANGED <<stale, sent, worker, money, provider>>

\* AGENT_QUEUE.send; one that throws may have enqueued the message.
Send(c) ==
  /\ create[c] = "sending"
  /\ \/ sent' = [sent EXCEPT ![c] = TRUE] /\ CreateGoes(c, "replied")
     \/ \E queued \in BOOLEAN : sent' = [sent EXCEPT ![c] = queued] /\ CreateGoes(c, "undoing")
  /\ UNCHANGED <<status, stale, worker, money, provider>>

UndoSend(c, ack) ==
  /\ create[c] = "undoing"
  /\ status' = [status EXCEPT ![c] = IF @ = "queued" /\ Written(ack) THEN "failed" ELSE @]
  /\ CreateGoes(c, "replied")
  /\ UNCHANGED <<stale, sent, worker, money, provider>>

\* mutateRun, whose UPDATE repeats what its read asked.
Cancel(c) ==
  /\ status[c] \in Active
  /\ status' = [status EXCEPT ![c] = "cancelled"]
  /\ UNCHANGED <<create, stale, sent, worker, money, provider>>

Age(c) ==
  /\ status[c] = "queued" /\ ~stale[c]
  /\ stale' = [stale EXCEPT ![c] = TRUE]
  /\ UNCHANGED <<create, status, sent, worker, money, provider>>

-----------------------------------------------------------------------------
(* The queue consumer: claimAgentRun *)

At(c, d, pc) == worker[c][d] = pc
Goes(c, d, pc) == worker' = [worker EXCEPT ![c][d] = pc]
Marks(c, from, to, ack) ==
  status' = [status EXCEPT ![c] = IF @ \in from /\ Written(ack) THEN to ELSE @]

\* Only a queued run goes on; any other delivery is acknowledged.
Receive(c, d) ==
  /\ At(c, d, "idle") /\ sent[c]
  /\ Goes(c, d, IF status[c] = "queued" THEN "claiming" ELSE "acked")
  /\ UNCHANGED <<runs, money, provider>>

\* Seeded fault: the claim does not ask for a run still queued.
ClaimsActive(c) == status[c] \in {"queued", "planning"} /\ ~stale[c]

Claimable(c) == status[c] = "queued" /\ ~stale[c]

Claim(c, d, ack) ==
  /\ At(c, d, "claiming")
  /\ status' = [status EXCEPT ![c] = IF Claimable(c) /\ Written(ack) THEN "planning" ELSE @]
  /\ Goes(c, d, CASE Confirmed(Claimable(c), ack) -> "claimed"
                  [] ~Claimable(c) /\ ack = "done" -> "expiring"
                  [] OTHER -> "acked")
  /\ UNCHANGED <<create, stale, sent, money, provider>>

ExpireStale(c, d, ack) ==
  /\ At(c, d, "expiring")
  /\ status' = [status EXCEPT ![c] =
       IF @ = "queued" /\ stale[c] /\ Written(ack) THEN "expired" ELSE @]
  /\ Goes(c, d, "acked")
  /\ UNCHANGED <<create, stale, sent, money, provider>>

\* The claimed row is read back; a cancellation in between ends the call.
ReadClaimed(c, d) ==
  /\ At(c, d, "claimed")
  /\ Goes(c, d, IF status[c] = "planning" THEN "budgeting" ELSE "over")
  /\ UNCHANGED <<runs, money, provider>>

-----------------------------------------------------------------------------
(* The queue consumer: prepareAgentExecution *)

\* A held budget is either given back at once, where no provider is connected, or used.
Reserve(c, d, ack) ==
  LET accepted == hold[c] = "absent" /\ billing IN
  /\ At(c, d, "budgeting")
  /\ hold' = [hold EXCEPT ![c] = IF accepted /\ Written(ack) THEN "held" ELSE @]
  /\ IF Confirmed(accepted, ack)
     THEN \E pc \in {"activating", "unplugging"} : Goes(c, d, pc)
     ELSE Goes(c, d, "failing")
  /\ UNCHANGED <<runs, expired, billing, provider>>

\* releaseChat without evidence: only a hold not yet dispatched.
Undispatched(c, ack) ==
  hold' = [hold EXCEPT ![c] = IF @ = "held" /\ Written(ack) THEN "released" ELSE @]

AfterRelease(pc) == IF pc = "unplugging" THEN "closing" ELSE "over"

Release(c, d, ack) ==
  /\ worker[c][d] \in {"unplugging", "withdrawing"}
  /\ Undispatched(c, ack)
  /\ Goes(c, d, IF Confirmed(hold[c] = "held", ack) THEN AfterRelease(worker[c][d]) ELSE "undoing")
  /\ UNCHANGED <<runs, expired, billing, provider>>

\* A terminal write that found the run cancelled is done; any other miss throws.
AfterEnding(c, from, ack, else) ==
  IF ack = "done" /\ status[c] \in from \cup {"cancelled"} THEN "over" ELSE else

Close(c, d, ack) ==
  /\ At(c, d, "closing")
  /\ Marks(c, {"planning"}, "failed", ack)
  /\ Goes(c, d, AfterEnding(c, {"planning"}, ack, "failing"))
  /\ UNCHANGED <<create, stale, sent, money, provider>>

Activate(c, d, ack) ==
  /\ At(c, d, "activating")
  /\ Marks(c, {"planning"}, "running", ack)
  /\ Goes(c, d, CASE ack = "done" /\ status[c] = "planning" -> "starting"
                  [] ack = "done" /\ status[c] = "cancelled" -> "withdrawing"
                  [] OTHER -> "undoing")
  /\ UNCHANGED <<create, stale, sent, money, provider>>

BeginDispatch(c, d, ack) ==
  LET accepted == hold[c] = "held" /\ billing /\ ~expired[c] IN
  /\ At(c, d, "starting")
  /\ hold' = [hold EXCEPT ![c] = IF accepted /\ Written(ack) THEN "started" ELSE @]
  /\ Goes(c, d, IF Confirmed(accepted, ack) THEN "posting" ELSE "undoing")
  /\ UNCHANGED <<runs, expired, billing, provider>>

Post(c, d) ==
  /\ At(c, d, "posting")
  /\ provider' = [provider EXCEPT ![c] = "posted"]
  /\ Goes(c, d, "waiting")
  /\ UNCHANGED <<runs, money>>

\* A timeout, a lost connection or a body that is no JSON; or an answer out of contract.
LoseAnswer(c, d) ==
  /\ At(c, d, "waiting")
  /\ \E pc \in {"doubting", "stopping"} : Goes(c, d, pc)
  /\ UNCHANGED <<runs, money, provider>>

Hear(c, d) ==
  /\ At(c, d, "waiting") /\ provider[c] \in {"rejected", "billed"}
  /\ Goes(c, d, IF provider[c] = "rejected" THEN "returning" ELSE "settling")
  /\ UNCHANGED <<runs, money, provider>>

ReturnRejected(c, d, ack) ==
  LET open == hold[c] \in {"held"} \cup InDispatch IN
  /\ At(c, d, "returning")
  /\ hold' = [hold EXCEPT ![c] = IF open /\ Written(ack) THEN "released" ELSE @]
  /\ Goes(c, d, IF Confirmed(open, ack) THEN "rejecting" ELSE "doubtingAgain")
  /\ UNCHANGED <<runs, expired, billing, provider>>

\* What this write finds is ignored; only an error is noticed, and the hold is closed.
MarkRejected(c, d, ack) ==
  /\ At(c, d, "rejecting")
  /\ Marks(c, {"running"}, "failed", ack)
  /\ Goes(c, d, IF ack = "done" THEN "over" ELSE "failing")
  /\ UNCHANGED <<create, stale, sent, money, provider>>

StopBilling(c, d, ack) ==
  /\ At(c, d, "stopping")
  /\ billing' = (billing /\ ~Written(ack))
  /\ Goes(c, d, "doubtingContract")
  /\ UNCHANGED <<runs, hold, expired, provider>>

\* Seeded fault: an answer that did not come is taken for a run that did not happen.
GivesBack(state) == IF state = "started" THEN "released" ELSE state

InDoubt(state) == IF state = "started" THEN "unknown" ELSE state

AfterDoubt(pc) ==
  CASE pc = "doubting" -> "markingUncertain"
    [] pc = "doubtingContract" -> "markingContract"
    [] pc = "doubtingAgain" -> "failing"

\* holdAgentUnknown: an error of this write throws, once into the handler's catch,
\* which tries again, and from there out of the handler, with the run still running.
Doubt(c, d, ack) ==
  LET pc == worker[c][d] IN
  /\ pc \in {"doubting", "doubtingContract", "doubtingAgain"}
  /\ hold' = [hold EXCEPT ![c] = IF Written(ack) THEN InDoubt(@) ELSE @]
  /\ Goes(c, d, CASE ack = "done" -> AfterDoubt(pc)
                  [] ack # "done" /\ pc # "doubtingAgain" -> "doubtingAgain"
                  [] OTHER -> "over")
  /\ UNCHANGED <<runs, expired, billing, provider>>

MarkDoubtful(c, d, ack) ==
  /\ worker[c][d] \in {"markingUncertain", "markingContract"}
  /\ Marks(c, {"running"}, "failed", ack)
  /\ Goes(c, d,
       IF At(c, d, "markingUncertain")
       THEN AfterEnding(c, {"running"}, ack, "doubtingAgain")
       ELSE IF ack = "done" THEN "over" ELSE "doubtingAgain")
  /\ UNCHANGED <<create, stale, sent, money, provider>>

Settle(c, d, ack) ==
  LET open == hold[c] \in InDispatch IN
  /\ At(c, d, "settling")
  /\ hold' = [hold EXCEPT ![c] = IF open /\ Written(ack) THEN "settled" ELSE @]
  /\ Goes(c, d, IF Confirmed(open, ack) THEN "completing" ELSE "doubtingAgain")
  /\ UNCHANGED <<runs, expired, billing, provider>>

Complete(c, d, ack) ==
  /\ At(c, d, "completing")
  /\ Marks(c, {"running"}, "completed", ack)
  /\ Goes(c, d, AfterEnding(c, {"running"}, ack, "failing"))
  /\ UNCHANGED <<create, stale, sent, money, provider>>

\* The catch before the dispatch: an error of this release is swallowed.
Undo(c, d, ack) ==
  /\ At(c, d, "undoing")
  /\ Undispatched(c, ack)
  /\ Goes(c, d, "failing")
  /\ UNCHANGED <<runs, expired, billing, provider>>

\* Seeded fault: the catch fails the run whatever has become of it.
Unsettled == Active \cup Ended

\* What the handler's catch may still fail.
Failable == {"planning", "running"}

Fail(c, d, ack) ==
  /\ At(c, d, "failing")
  /\ Marks(c, Failable, "failed", ack)
  /\ Goes(c, d, "over")
  /\ UNCHANGED <<create, stale, sent, money, provider>>

-----------------------------------------------------------------------------
(* The provider, the operator, time and the scheduled sweep *)

Answer(c, outcome) ==
  /\ provider[c] = "posted"
  /\ provider' = [provider EXCEPT ![c] = outcome]
  /\ UNCHANGED <<runs, worker, money>>

\* reconcileAgent, with the provider's evidence: what it billed, or that it did not.
Reconcile(c) ==
  /\ hold[c] \in InDispatch /\ provider[c] \in {"rejected", "billed"}
  /\ hold' = [hold EXCEPT ![c] = IF provider[c] = "billed" THEN "settled" ELSE "released"]
  /\ UNCHANGED <<runs, worker, expired, billing, provider>>

ExpireHold(c) ==
  /\ hold[c] = "held" /\ ~expired[c]
  /\ expired' = [expired EXCEPT ![c] = TRUE]
  /\ UNCHANGED <<runs, worker, hold, billing, provider>>

Sweep(c) ==
  /\ hold[c] = "held" /\ expired[c]
  /\ hold' = [hold EXCEPT ![c] = "released"]
  /\ UNCHANGED <<runs, worker, expired, billing, provider>>

EnableBilling ==
  /\ ~billing /\ billing' = TRUE
  /\ UNCHANGED <<runs, worker, hold, expired, provider>>

-----------------------------------------------------------------------------
Init ==
  /\ create = [c \in Calls |-> "idle"]
  /\ status = [c \in Calls |-> "absent"]
  /\ stale = [c \in Calls |-> FALSE]
  /\ sent = [c \in Calls |-> FALSE]
  /\ worker = [c \in Calls |-> [d \in DeliveriesOf[c] |-> "idle"]]
  /\ hold = [c \in Calls |-> "absent"]
  /\ expired = [c \in Calls |-> FALSE]
  /\ provider = [c \in Calls |-> "none"]
  /\ billing = TRUE

Worker(c) ==
  \/ Screen(c) \/ Send(c) \/ Cancel(c)
  \/ \E ack \in Acks : Insert(c, ack) \/ UndoSend(c, ack)

Consumer(c, d) ==
  \/ Receive(c, d) \/ ReadClaimed(c, d) \/ Post(c, d) \/ LoseAnswer(c, d) \/ Hear(c, d)
  \/ \E ack \in Acks :
       \/ Claim(c, d, ack) \/ ExpireStale(c, d, ack) \/ Reserve(c, d, ack)
       \/ Release(c, d, ack) \/ Close(c, d, ack) \/ Activate(c, d, ack)
       \/ BeginDispatch(c, d, ack) \/ ReturnRejected(c, d, ack) \/ MarkRejected(c, d, ack)
       \/ StopBilling(c, d, ack) \/ Doubt(c, d, ack) \/ MarkDoubtful(c, d, ack)
       \/ Settle(c, d, ack) \/ Complete(c, d, ack) \/ Undo(c, d, ack) \/ Fail(c, d, ack)

Others(c) ==
  \/ \E outcome \in {"rejected", "billed"} : Answer(c, outcome)
  \/ Reconcile(c) \/ Age(c) \/ ExpireHold(c) \/ Sweep(c)

Next ==
  \/ \E c \in Calls : Worker(c) \/ Others(c) \/ \E d \in DeliveriesOf[c] : Consumer(c, d)
  \/ EnableBilling

Spec == Init /\ [][Next]_vars

-----------------------------------------------------------------------------
(* Properties *)

CreateSteps == {"idle", "inserting", "sending", "undoing", "replied"}
Claiming == {"idle", "claiming", "expiring", "acked"}
BeforeDispatch == {"claimed", "budgeting", "activating", "unplugging", "withdrawing",
                   "closing", "starting", "undoing"}
AfterDispatch == {"posting", "waiting", "returning", "rejecting", "stopping", "doubting",
                  "doubtingContract", "doubtingAgain", "markingUncertain", "markingContract",
                  "settling", "completing"}
Working == BeforeDispatch \cup AfterDispatch \cup {"failing", "over"}

TypeOK ==
  /\ create \in [Calls -> CreateSteps]
  /\ status \in [Calls -> {"absent"} \cup Active \cup Ended]
  /\ stale \in [Calls -> BOOLEAN]
  /\ sent \in [Calls -> BOOLEAN]
  /\ DOMAIN worker = Calls
  /\ \A c \in Calls : worker[c] \in [DeliveriesOf[c] -> Claiming \cup Working]
  /\ hold \in [Calls -> {"absent", "held", "settled", "released"} \cup InDispatch]
  /\ expired \in [Calls -> BOOLEAN]
  /\ provider \in [Calls -> {"none", "posted", "rejected", "billed"}]
  /\ billing \in BOOLEAN

\* However often the queue delivers a run, and whatever acknowledgement is lost, one
\* delivery at most ever works on it: the others end before they touch the budget.
OneConsumer ==
  \A c \in Calls : \A d, e \in DeliveriesOf[c] :
    worker[c][d] \in Working /\ worker[c][e] \in Working => d = e

\* Creations that all pass the friendly count still leave an owner within the cap.
ActiveRunsBounded ==
  \A c \in Calls : Cardinality(ActiveOf(OwnerOf[c])) <= MaxActive

\* A run is shown as completed only when the provider billed it and its hold is
\* settled, whatever the operator, a cancellation or a lost write did meanwhile.
CompletedWasCharged ==
  \A c \in Calls : status[c] = "completed" => hold[c] = "settled" /\ provider[c] = "billed"

\* A run that ended, by its consumer, its owner or its age, never changes again: a
\* late write of the consumer does not bring a cancelled run back.
RunsEndOnce == [][\A c \in Calls : status[c] \in Ended => status'[c] = status[c]]_vars

PhaseOf(c) ==
  CASE hold[c] = "absent" -> "none"
    [] hold[c] = "held" -> "held"
    [] hold[c] \in InDispatch -> "dispatched"
    [] hold[c] = "settled" -> "charged"
    [] hold[c] = "released" -> "refunded"

BilledFor(c) == IF provider[c] = "billed" THEN "usage" ELSE "nothing"
ChargedFor(c) == IF hold[c] = "settled" THEN "usage" ELSE "nothing"

Abstract == INSTANCE PaidRequest WITH
  Requests <- Calls, Usages <- {"usage"}, NoUsage <- "nothing",
  phase <- [c \in Calls |-> PhaseOf(c)],
  billed <- [c \in Calls |-> BilledFor(c)],
  charged <- [c \in Calls |-> ChargedFor(c)]

\* The budget of a run goes through the same life as a paid chat request: dispatched
\* before it is billed, charged only if billed, given back only if it never will be.
ImplementsPaidRequest == Abstract!PaidSpec
=============================================================================
