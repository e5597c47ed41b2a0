----------------------------- MODULE ChatBilling -----------------------------
(***************************************************************************)
(* The billing database of the chat Worker: backend/chat-billing.mjs over  *)
(* the tables and triggers of migrations 0001 and 0003.  Every operation   *)
(* issues one SQL statement that changes rows; the statement and all the   *)
(* triggers it fires commit or abort together, so each is one action.  A   *)
(* statement that a guard aborts, or that matches no row, changes nothing  *)
(* and is a stuttering step.                                               *)
(*                                                                         *)
(* A request stands for one (owner, idempotency key) and for the row it    *)
(* inserts.  Amounts are the code's integers; time is a clock of ticks.    *)
(***************************************************************************)
EXTENDS Integers, FiniteSets, Functions

CONSTANTS
  Owners, Requests, Prices,
  OwnerOf,           \* the account each request bills
  InputRate, OutputRate, CreditValue, RateScale,   \* price snapshots
  MaxInput, MaxOutput,             \* token ceilings of the Worker configuration
  MaxRequestCost, MaxConcurrent, RequestsPerMinute,
  HourlyCost, DailyCredits, MonthlyCredits,        \* usage_limits
  WorkerCeiling, PolicyCeiling,    \* global daily budget: environment, policy row
  HoldTTL, Minute, Hour, Day, Cycle,               \* durations, in ticks
  Balances,          \* balances the operator may set, of each kind
  AccountStatuses,   \* statuses the operator may give an account
  SweepLimit,        \* rows one sweep may release (100)
  MaxMoney,          \* largest balance billing_account_guard accepts
  MaxTime            \* bound of the model on the clock

ASSUME BillingAssumption ==
  /\ IsFiniteSet(Requests)
  /\ Prices # {}
  /\ OwnerOf \in [Requests -> Owners]
  /\ {MaxConcurrent, MaxMoney, MaxTime, Minute, Hour, Day} \subseteq Nat
  /\ {HoldTTL, Cycle, SweepLimit} \subseteq Nat \ {0}
  /\ AccountStatuses \subseteq {"active", "blocked", "paused"}
  /\ Balances \subseteq 0 .. MaxMoney

\* Token ceilings and rates the configuration check accepts (usageCost, whole).
ASSUME PriceAssumption ==
  /\ MaxInput \in Nat /\ MaxOutput \in Nat
  /\ InputRate \in [Prices -> Nat] /\ OutputRate \in [Prices -> Nat]
  /\ CreditValue \in [Prices -> Nat \ {0}]
  /\ RateScale \in Nat \ {0}

\* The limits of a plan and the budgets are integers of zero or more.
ASSUME LimitsAssumption ==
  {HourlyCost, DailyCredits, MonthlyCredits, WorkerCeiling, PolicyCeiling} \subseteq Nat

VARIABLES
  row,            \* usage_reservations
  account,        \* billing_accounts
  ledger,         \* usage_ledger
  policyEnabled,  \* chat_billing_policy.enabled
  currentPrices,  \* snapshots effective, unexpired and not retired
  now,            \* the database clock
  funded          \* history: credits ever put on the account, less those withdrawn

vars == <<row, account, ledger, policyEnabled, currentPrices, now, funded>>

-----------------------------------------------------------------------------
(* Rows *)

Statuses == {"absent", "reserved", "settled", "released"}
ProviderStates == {"not_started", "started", "unknown", "finished"}

Row ==
  [status : Statuses, provider : ProviderStates, price : Prices,
   estCredits : Nat, estCost : Nat, actCredits : Nat, actCost : Nat,
   created : Nat, settled : Nat]

NoRow ==
  [status |-> "absent", provider |-> "not_started", price |-> CHOOSE p \in Prices : TRUE,
   estCredits |-> 0, estCost |-> 0, actCredits |-> 0, actCost |-> 0,
   created |-> 0, settled |-> 0]

\* active; blocked: active, but its usage_limits row has a blocked_until to come;
\* paused: every other status.
AccountStates == {"active", "blocked", "paused"}

Account ==
  [status : AccountStates, included : Nat, prepaid : Nat,
   reserved : Nat, cycleStart : Nat]

LedgerEvent ==
  [request : Requests, event : {"reserve_included", "reserve_prepaid", "settle", "release"},
   credits : Nat, includedCharged : Nat, prepaidCharged : Nat, unused : Nat]

Larger(a, b) == IF a >= b THEN a ELSE b
Smaller(a, b) == IF a <= b THEN a ELSE b

SumOver(f, S) == SumFunctionOnSet(f, S)

OfOwner(o) == {r \in Requests : OwnerOf[r] = o}
OpenRows == {r \in Requests : row[r].status = "reserved"}
Dispatched == {r \in OpenRows : row[r].provider \in {"started", "unknown"}}
ExpiresAt(r) == row[r].created + HoldTTL
CycleEnd(o) == account[o].cycleStart + Cycle

-----------------------------------------------------------------------------
(* Prices: rounded up once to micro-dollars and once to credits *)

CeilDiv(a, b) == (a + b - 1) \div b

CostOf(p, input, output) ==
  CeilDiv(input * InputRate[p] + output * OutputRate[p], RateScale)

CreditsOf(p, cost) == CeilDiv(cost, CreditValue[p])

EstimatedCost(p) == CostOf(p, MaxInput, MaxOutput)
EstimatedCredits(p) == Larger(1, CreditsOf(p, EstimatedCost(p)))

-----------------------------------------------------------------------------
(* billing_account_guard: every update of an account passes it *)

\* Seeded fault: the balances may fall below what is set aside.
AnyPositive(acct) == {acct.included, acct.prepaid} \subseteq 0 .. MaxMoney /\ acct.reserved >= 0

AccountGuard(acct) ==
  /\ {acct.included, acct.prepaid} \subseteq 0 .. MaxMoney
  /\ acct.reserved \in 0 .. (acct.included + acct.prepaid)

CycleOpen(o) == account[o].cycleStart <= now /\ now < CycleEnd(o)

-----------------------------------------------------------------------------
(* reserveChat's INSERT: chat_reservation_guard, then chat_reservation_hold *)

\* Seeded fault: open holds are left out of the windows.
SettledOnly(r, since, open, spent) ==
  IF row[r].status = "settled" /\ row[r].settled >= since THEN spent ELSE 0

\* What a row counts against a spend window that began at time since.
Counted(r, since, open, spent) ==
  CASE row[r].status = "reserved" -> open
    [] row[r].status = "settled" /\ row[r].settled >= since -> spent
    [] OTHER -> 0

CostSince(S, since) ==
  SumOver([r \in Requests |-> Counted(r, since, row[r].estCost, row[r].actCost)], S)
CreditsSince(S, since) ==
  SumOver([r \in Requests |-> Counted(r, since, row[r].estCredits, row[r].actCredits)], S)

Estimates == [r \in Requests |-> row[r].estCredits]

OpenCredits(o) == SumOver(Estimates, OpenRows \cap OfOwner(o))

RecentRequests(o) ==
  {r \in OfOwner(o) : row[r].status # "absent" /\ row[r].created >= now - Minute}

\* Seeded fault: only the requests already sent count as running.
RoomToRun(o) == Cardinality(Dispatched \cap OfOwner(o)) < MaxConcurrent

HasRoom(o) == Cardinality(OpenRows \cap OfOwner(o)) < MaxConcurrent

WithinLimits(o, cost, credits) ==
  /\ cost <= MaxRequestCost
  /\ HasRoom(o)
  /\ Cardinality(RecentRequests(o)) < RequestsPerMinute
  /\ cost + CostSince(OfOwner(o), now - Hour) <= HourlyCost
  /\ credits + CreditsSince(OfOwner(o), now - Day) <= DailyCredits
  /\ credits + CreditsSince(OfOwner(o), account[o].cycleStart) <= MonthlyCredits
  /\ cost + CostSince(Requests, now - Day) <= Smaller(WorkerCeiling, PolicyCeiling)

ReserveGuard(r, p) ==
  LET o == OwnerOf[r] IN
  /\ row[r].status = "absent"
  /\ policyEnabled
  /\ p \in currentPrices
  /\ account[o].status = "active" /\ CycleOpen(o)
  /\ account[o].reserved = OpenCredits(o)
  /\ EstimatedCredits(p) <= account[o].included + account[o].prepaid - account[o].reserved
  /\ WithinLimits(o, EstimatedCost(p), EstimatedCredits(p))

Event(r, event, credits, fromIncluded, fromPrepaid, unused) ==
  [request |-> r, event |-> event, credits |-> credits, includedCharged |-> fromIncluded,
   prepaidCharged |-> fromPrepaid, unused |-> unused]

\* The part of a hold the ledger books against included credits.
IncludedPart(acct, credits) == Smaller(credits, Larger(0, acct.included - acct.reserved))

\* Seeded fault: a hold that spills over is booked to the prepaid bucket whole.
WholeIfPrepaid(acct, credits) ==
  IF IncludedPart(acct, credits) < credits THEN credits ELSE 0

PrepaidPart(acct, credits) == credits - IncludedPart(acct, credits)

\* The entries of a hold of a included and b prepaid credits; an empty part has none.
HoldEntries(r, a, b) ==
  {Event(r, "reserve_included", n, 0, 0, 0) : n \in {a} \ {0}}
  \cup {Event(r, "reserve_prepaid", n, 0, 0, 0) : n \in {b} \ {0}}

ReserveEvents(r, acct, credits) ==
  HoldEntries(r, IncludedPart(acct, credits), PrepaidPart(acct, credits))

Reserve(r, p) ==
  LET o == OwnerOf[r]
      held == [account[o] EXCEPT !.reserved = @ + EstimatedCredits(p)]
  IN
  /\ ReserveGuard(r, p)
  /\ AccountGuard(held)
  /\ now + HoldTTL <= MaxTime   \* bound: the clock can reach the expiry
  /\ row' = [row EXCEPT ![r] =
       [status |-> "reserved", provider |-> "not_started", price |-> p,
        estCredits |-> EstimatedCredits(p), estCost |-> EstimatedCost(p),
        actCredits |-> 0, actCost |-> 0, created |-> now, settled |-> 0]]
  /\ account' = [account EXCEPT ![o] = held]
  /\ ledger' = ledger \cup ReserveEvents(r, account[o], EstimatedCredits(p))
  /\ UNCHANGED <<policyEnabled, currentPrices, now, funded>>

-----------------------------------------------------------------------------
(* beginDispatch and markUnknown *)

BeginDispatch(r) ==
  /\ row[r].status = "reserved" /\ row[r].provider = "not_started"
  /\ policyEnabled
  /\ now < ExpiresAt(r)
  /\ account[OwnerOf[r]].status \in {"active", "blocked"}   \* a block stops new holds only
  /\ now < CycleEnd(OwnerOf[r])
  /\ row' = [row EXCEPT ![r].provider = "started"]
  /\ UNCHANGED <<account, ledger, policyEnabled, currentPrices, now, funded>>

MarkUnknown(r) ==
  /\ r \in Dispatched
  /\ row' = [row EXCEPT ![r].provider = "unknown"]
  /\ UNCHANGED <<account, ledger, policyEnabled, currentPrices, now, funded>>

-----------------------------------------------------------------------------
(* Closing a hold: chat_reservation_transition, then chat_reservation_finish *)

\* Seeded fault: the unused part of a hold stays set aside.
FreesOnlyUsed(acct, spent, held) ==
  [acct EXCEPT !.included = Larger(0, @ - spent),
               !.prepaid = @ - Larger(0, spent - acct.included),
               !.reserved = @ - spent]

\* Seeded fault: spending past the included credits is not taken from the prepaid ones.
PrepaidUntouched(acct, spent, held) ==
  [acct EXCEPT !.included = Larger(0, @ - spent), !.reserved = @ - held]

\* Included credits pay first; the whole hold is freed.
FinishedAccount(acct, spent, held) ==
  [acct EXCEPT !.included = Larger(0, @ - spent),
               !.prepaid = @ - Larger(0, spent - acct.included),
               !.reserved = @ - held]

ClosedRow(r, status, credits, cost) ==
  [row[r] EXCEPT !.status = status, !.provider = "finished",
                 !.actCredits = credits, !.actCost = cost, !.settled = now]

\* Seeded fault: the prepaid part of the charge is not kept at zero or above.
UnclampedEvent(r, event, booked, spent) ==
  LET acct == account[OwnerOf[r]] IN
  Event(r, event, booked, Smaller(acct.included, spent), spent - acct.included,
        row[r].estCredits - spent)

FinishEvent(r, event, booked, spent) ==
  LET acct == account[OwnerOf[r]] IN
  Event(r, event, booked, Smaller(acct.included, spent), Larger(0, spent - acct.included),
        row[r].estCredits - spent)

\* Seeded fault: a hold settles before it is dispatched.
AnyOpenState(r) == r \in OpenRows

SettleMatches(r) == r \in Dispatched

WithinEstimate(r, credits, cost) == credits <= row[r].estCredits /\ cost <= row[r].estCost

Settle(r, input, output) ==
  LET cost == CostOf(row[r].price, input, output)
      credits == CreditsOf(row[r].price, cost)
      paid == FinishedAccount(account[OwnerOf[r]], credits, row[r].estCredits)
  IN
  /\ SettleMatches(r)
  /\ WithinEstimate(r, credits, cost)
  /\ AccountGuard(paid)
  /\ row' = [row EXCEPT ![r] = ClosedRow(r, "settled", credits, cost)]
  /\ account' = [account EXCEPT ![OwnerOf[r]] = paid]
  /\ ledger' = ledger \cup {FinishEvent(r, "settle", credits, credits)}
  /\ UNCHANGED <<policyEnabled, currentPrices, now, funded>>

\* Seeded fault: the release does not ask whether the row is still open.
EvenClosed(r, confirmed) == row[r].status # "absent" /\ (confirmed \/ row[r].provider = "not_started")

\* A dispatched hold is released only on evidence that nothing was billed.
ReleaseMatches(r, confirmed) ==
  row[r].status = "reserved" /\ (confirmed \/ row[r].provider = "not_started")

Release(r, confirmed) ==
  LET freed == FinishedAccount(account[OwnerOf[r]], 0, row[r].estCredits) IN
  /\ ReleaseMatches(r, confirmed)
  /\ AccountGuard(freed)
  /\ row' = [row EXCEPT ![r] = ClosedRow(r, "released", 0, 0)]
  /\ account' = [account EXCEPT ![OwnerOf[r]] = freed]
  /\ ledger' = ledger \cup {FinishEvent(r, "release", row[r].estCredits, 0)}
  /\ UNCHANGED <<policyEnabled, currentPrices, now, funded>>

-----------------------------------------------------------------------------
(* expireUndispatched: one UPDATE over the oldest expired, undispatched rows *)

\* Seeded fault: the batch takes dispatched rows, which the transition guard refuses.
ExpiredInAnyState == {r \in OpenRows : ExpiresAt(r) <= now}

Expired == {r \in OpenRows : row[r].provider = "not_started" /\ ExpiresAt(r) <= now}

IsBatch(S) ==
  /\ S \subseteq Expired /\ S # {}
  /\ Cardinality(S) = Smaller(SweepLimit, Cardinality(Expired))
  /\ \A r \in S, q \in Expired \ S : ExpiresAt(r) <= ExpiresAt(q)

FreedBy(S, o) ==
  [account[o] EXCEPT !.reserved = @ - SumOver(Estimates, S \cap OfOwner(o))]

\* One refused row, or one refused account, aborts the statement for the whole batch.
TriggersPass(S) ==
  /\ \A r \in S : ReleaseMatches(r, FALSE)
  /\ \A o \in Owners : AccountGuard(FreedBy(S, o))

ExpireUndispatched ==
  \E S \in SUBSET Expired :
    /\ IsBatch(S)
    /\ TriggersPass(S)
    /\ row' = [r \in Requests |-> IF r \in S THEN ClosedRow(r, "released", 0, 0) ELSE row[r]]
    /\ account' = [o \in Owners |-> FreedBy(S, o)]
    /\ ledger' = ledger \cup {FinishEvent(r, "release", row[r].estCredits, 0) : r \in S}
    /\ UNCHANGED <<policyEnabled, currentPrices, now, funded>>

-----------------------------------------------------------------------------
(* The kill switch, which only an operator turns on again *)

SetPolicy(enabled) ==
  /\ policyEnabled' = enabled
  /\ UNCHANGED <<row, account, ledger, currentPrices, now, funded>>

StopBilling == SetPolicy(FALSE)
EnableBilling == SetPolicy(TRUE)

(* The operator's own statements on billing_accounts, each through the guard *)

SetStatus(o, status) ==
  /\ account' = [account EXCEPT ![o].status = status]
  /\ UNCHANGED <<row, ledger, policyEnabled, currentPrices, now, funded>>

CycleMayChange(acct) == acct.reserved = 0

RenewCycle(o) ==
  /\ CycleMayChange(account[o])
  /\ account' = [account EXCEPT ![o].cycleStart = now]
  /\ UNCHANGED <<row, ledger, policyEnabled, currentPrices, now, funded>>

SetBalance(o, included, prepaid) ==
  LET acct == [account[o] EXCEPT !.included = included, !.prepaid = prepaid] IN
  /\ AccountGuard(acct)
  /\ account' = [account EXCEPT ![o] = acct]
  /\ funded' = [funded EXCEPT ![o] =
       @ + (included + prepaid) - (account[o].included + account[o].prepaid)]
  /\ UNCHANGED <<row, ledger, policyEnabled, currentPrices, now>>

\* A snapshot is retired or runs out; it never becomes current again.
ClosePrice(p) ==
  /\ currentPrices' = currentPrices \ {p}
  /\ UNCHANGED <<row, account, ledger, policyEnabled, now, funded>>

Tick ==
  /\ now < MaxTime
  /\ now' = now + 1
  /\ UNCHANGED <<row, account, ledger, policyEnabled, currentPrices, funded>>

-----------------------------------------------------------------------------
Init ==
  /\ row = [r \in Requests |-> NoRow]
  /\ \E included, prepaid \in [Owners -> Balances] :
       account = [o \in Owners |->
         [status |-> "active", included |-> included[o], prepaid |-> prepaid[o],
          reserved |-> 0, cycleStart |-> 0]]
  /\ ledger = {}
  /\ policyEnabled = FALSE   \* the policy row is added switched off
  /\ currentPrices = Prices
  /\ now = 0
  /\ funded = [o \in Owners |-> account[o].included + account[o].prepaid]

Statement ==
  \/ \E r \in Requests : \E p \in Prices : Reserve(r, p)
  \/ \E r \in Requests : BeginDispatch(r) \/ MarkUnknown(r)
  \/ \E r \in Requests : \E input \in 0 .. MaxInput, output \in 0 .. MaxOutput :
       Settle(r, input, output)
  \/ \E r \in Requests : \E confirmed \in BOOLEAN : Release(r, confirmed)
  \/ ExpireUndispatched
  \/ StopBilling

Operator ==
  \/ EnableBilling
  \/ \E o \in Owners : \E status \in AccountStatuses : SetStatus(o, status)
  \/ \E o \in Owners : RenewCycle(o)
  \/ \E o \in Owners : \E included, prepaid \in Balances : SetBalance(o, included, prepaid)
  \/ \E p \in Prices : ClosePrice(p)

Next == Statement \/ Operator \/ Tick

Spec == Init /\ [][Next]_vars

\* The scheduled handler runs the sweep every five minutes, and time passes.
FairSpec == Spec /\ WF_vars(ExpireUndispatched) /\ WF_vars(Tick)

-----------------------------------------------------------------------------
(* Properties *)

\* Types, and the balance guard that holds of every account at every moment.
TypeOK ==
  /\ row \in [Requests -> Row]
  /\ account \in [Owners -> Account]
  /\ \A o \in Owners : AccountGuard(account[o])
  /\ ledger \subseteq LedgerEvent
  /\ policyEnabled \in BOOLEAN
  /\ currentPrices \subseteq Prices
  /\ now \in 0 .. MaxTime
  /\ funded \in [Owners -> Int]

\* reserved_credits is the sum of the owner's open estimates after every statement,
\* so the guard's BILLING_RECONCILIATION_REQUIRED never locks an account out.
HoldsMatchRows == \A o \in Owners : account[o].reserved = OpenCredits(o)

EventsOf(r, types) == {e \in ledger : e.request = r /\ e.event \in types}
HoldTypes == {"reserve_included", "reserve_prepaid"}

HoldMatches(r) ==
  \E a, b \in 0 .. row[r].estCredits :
    /\ a + b = row[r].estCredits
    /\ EventsOf(r, HoldTypes) = HoldEntries(r, a, b)

SettleEntryMatches(r) ==
  IF row[r].status = "settled"
  THEN \E a, b \in 0 .. row[r].actCredits :
         /\ a + b = row[r].actCredits
         /\ EventsOf(r, {"settle"}) = {Event(r, "settle", row[r].actCredits, a, b,
                                            row[r].estCredits - row[r].actCredits)}
  ELSE EventsOf(r, {"settle"}) = {}

ReleaseEntryMatches(r) ==
  EventsOf(r, {"release"}) =
    IF row[r].status = "released"
    THEN {Event(r, "release", row[r].estCredits, 0, 0, row[r].estCredits)}
    ELSE {}

\* The ledger tells the same story as the row, request by request: the two hold
\* entries add up to the estimate, and a row is closed exactly when it has one
\* closing entry, which books what the row says and splits it between the buckets.
LedgerMatchesRow(r) ==
  IF row[r].status = "absent" THEN EventsOf(r, {"settle", "release"} \cup HoldTypes) = {}
  ELSE HoldMatches(r) /\ SettleEntryMatches(r) /\ ReleaseEntryMatches(r)

LedgerMatchesRows == \A r \in Requests : LedgerMatchesRow(r)

LedgerSum(o, types, amount(_)) ==
  SumOver([e \in ledger |-> amount(e)],
          {e \in ledger : OwnerOf[e.request] = o /\ e.event \in types})

\* Replaying an owner's ledger from the credits funded gives the account: what is
\* left is what was funded less what was settled, and what is set aside is what was
\* held less what the closing entries freed.
LedgerReplaysAccount ==
  \A o \in Owners :
    /\ account[o].included + account[o].prepaid
         = funded[o] - LedgerSum(o, {"settle"}, LAMBDA e : e.credits)
    /\ account[o].reserved
         = LedgerSum(o, HoldTypes, LAMBDA e : e.credits)
           - LedgerSum(o, {"settle"}, LAMBDA e : e.credits + e.unused)
           - LedgerSum(o, {"release"}, LAMBDA e : e.credits)

\* Work the provider measured within the ceilings can always be booked: no other
\* request, renewal or balance change makes its settlement abort, and neither can
\* its release on evidence.
ClosingNeverBlocked ==
  \A r \in Dispatched :
    LET acct == account[OwnerOf[r]] IN
    /\ \A input \in 0 .. MaxInput, output \in 0 .. MaxOutput :
         LET cost == CostOf(row[r].price, input, output)
             credits == CreditsOf(row[r].price, cost)
         IN /\ WithinEstimate(r, credits, cost)
            /\ AccountGuard(FinishedAccount(acct, credits, row[r].estCredits))
    /\ AccountGuard(FinishedAccount(acct, 0, row[r].estCredits))

\* The sweep always has a batch to take when a hold ran out undispatched, and no row or
\* account in any such batch makes a trigger abort it, which every later sweep would meet again.
SweepNeverBlocked ==
  /\ Expired # {} => \E S \in SUBSET Expired : IsBatch(S)
  /\ \A S \in SUBSET Expired : IsBatch(S) => TriggersPass(S)

\* An owner's open holds, dispatched or not, never exceed the plan's concurrency.
OpenHoldsBounded == \A o \in Owners : Cardinality(OpenRows \cap OfOwner(o)) <= MaxConcurrent

\* No order of holds, settlements and clock ticks spends past a limit: open holds and
\* settled work together stay under each window's limit at all times, not only
\* when a request is admitted.
SpendWithinLimits ==
  /\ \A o \in Owners :
       /\ CostSince(OfOwner(o), now - Hour) <= HourlyCost
       /\ CreditsSince(OfOwner(o), now - Day) <= DailyCredits
       /\ CreditsSince(OfOwner(o), account[o].cycleStart) <= MonthlyCredits
  /\ CostSince(Requests, now - Day) <= Smaller(WorkerCeiling, PolicyCeiling)

\* A closed row and its ledger entries are final, and no entry is ever withdrawn,
\* whatever late settlement, release or sweep still arrives.
Final(r) ==
  row[r].status \in {"settled", "released"} =>
    /\ row'[r] = row[r]
    /\ \A e \in ledger' \ ledger : e.request # r

ClosedIsFinal == [][ledger \subseteq ledger' /\ \A r \in Requests : Final(r)]_vars

\* A hold whose Worker died before dispatch does not stay on the account for ever.
UndispatchedHoldEnds ==
  \A r \in Requests :
    (row[r].status = "reserved" /\ row[r].provider = "not_started")
      ~> ~(row[r].status = "reserved" /\ row[r].provider = "not_started")

-----------------------------------------------------------------------------
(* The abstract life of a hold, which this module implements *)

PhaseOf(r) ==
  CASE row[r].status = "absent" -> "none"
    [] row[r].status = "reserved" /\ row[r].provider = "not_started" -> "held"
    [] row[r].status = "reserved" /\ row[r].provider # "not_started" -> "dispatched"
    [] row[r].status = "settled" -> "charged"
    [] row[r].status = "released" -> "refunded"

Abstract == INSTANCE CreditHold WITH
  phase <- [r \in Requests |-> PhaseOf(r)],
  quote <- [r \in Requests |-> row[r].estCredits],
  charged <- [r \in Requests |-> row[r].actCredits]

\* Every statement is one step of the abstract hold, or none.
ImplementsCreditHold == Abstract!HoldSpec
=============================================================================
