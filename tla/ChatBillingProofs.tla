------------------------- MODULE ChatBillingProofs -------------------------
(***************************************************************************)
(* Proofs about ChatBilling for every set of owners, requests and prices.  *)
(***************************************************************************)
EXTENDS ChatBilling, FiniteSetTheorems, TLAPS

(* Arithmetic of the price snapshots *)

LEMMA CeilDivNat ==
  ASSUME NEW a \in Nat, NEW b \in Nat \ {0}
  PROVE  CeilDiv(a, b) \in Nat
  BY DEF CeilDiv

LEMMA CostNat ==
  ASSUME NEW p \in Prices, NEW i \in 0 .. MaxInput, NEW o \in 0 .. MaxOutput
  PROVE  CostOf(p, i, o) \in Nat
<1>1. i * InputRate[p] \in Nat /\ o * OutputRate[p] \in Nat
  BY PriceAssumption
<1>2. i * InputRate[p] + o * OutputRate[p] \in Nat
  BY <1>1
<1>. QED BY <1>2, CeilDivNat, PriceAssumption DEF CostOf

LEMMA CreditsNat ==
  ASSUME NEW p \in Prices, NEW cost \in Nat
  PROVE  CreditsOf(p, cost) \in Nat
  BY CeilDivNat, PriceAssumption DEF CreditsOf

LEMMA EstimateNat ==
  ASSUME NEW p \in Prices
  PROVE  EstimatedCost(p) \in Nat /\ EstimatedCredits(p) \in Nat \ {0}
<1>1. EstimatedCost(p) \in Nat
  BY CostNat, PriceAssumption DEF EstimatedCost
<1>2. CreditsOf(p, EstimatedCost(p)) \in Nat
  BY <1>1, CreditsNat
<1>. QED BY <1>1, <1>2 DEF EstimatedCredits, Larger

(* An account that passes the guard keeps its type *)

LEMMA AccountUpdate ==
  ASSUME NEW acct \in Account, NEW i \in Nat, NEW p \in Nat, NEW v \in Nat
  PROVE  [acct EXCEPT !.included = i, !.prepaid = p, !.reserved = v] \in Account
  BY DEF Account, AccountStates

LEMMA GuardedAccount ==
  ASSUME NEW acct \in Account, NEW i, NEW p, NEW v,
         AccountGuard([acct EXCEPT !.included = i, !.prepaid = p, !.reserved = v])
  PROVE  [acct EXCEPT !.included = i, !.prepaid = p, !.reserved = v] \in Account
<1>1. i \in Nat /\ p \in Nat
  BY BillingAssumption DEF AccountGuard, Account, AccountStates
<1>2. v \in 0 .. (i + p)
  BY DEF AccountGuard, Account, AccountStates
<1>3. v \in Nat
  BY <1>1, <1>2
<1>. QED BY <1>1, <1>3, AccountUpdate

LEMMA FinishedType ==
  ASSUME NEW acct \in Account, NEW spent, NEW held,
         AccountGuard(FinishedAccount(acct, spent, held))
  PROVE  FinishedAccount(acct, spent, held) \in Account
  BY GuardedAccount DEF FinishedAccount

LEMMA ReserveEventsType ==
  ASSUME NEW r \in Requests, NEW acct \in Account, NEW credits \in Nat
  PROVE  /\ IncludedPart(acct, credits) \in 0 .. credits
         /\ PrepaidPart(acct, credits) \in 0 .. credits
         /\ IncludedPart(acct, credits) + PrepaidPart(acct, credits) = credits
         /\ ReserveEvents(r, acct, credits) \subseteq LedgerEvent
<1>1. /\ IncludedPart(acct, credits) \in 0 .. credits
      /\ PrepaidPart(acct, credits) \in 0 .. credits
      /\ IncludedPart(acct, credits) + PrepaidPart(acct, credits) = credits
  BY DEF Account, AccountStates, IncludedPart, PrepaidPart, Smaller, Larger
<1>. QED BY <1>1 DEF ReserveEvents, HoldEntries, Event, LedgerEvent

LEMMA FinishEventType ==
  ASSUME TypeOK, NEW r \in Requests, NEW event \in {"settle", "release"},
         NEW booked \in Nat, NEW spent \in 0 .. row[r].estCredits
  PROVE  /\ FinishEvent(r, event, booked, spent) \in LedgerEvent
         /\ \E a, b \in 0 .. spent :
              /\ a + b = spent
              /\ FinishEvent(r, event, booked, spent)
                   = Event(r, event, booked, a, b, row[r].estCredits - spent)
<1>. DEFINE acct == account[OwnerOf[r]]
<1>1. acct.included \in Nat /\ row[r].estCredits \in Nat
  BY BillingAssumption DEF TypeOK, Account, AccountStates, Row
<1>2. /\ Smaller(acct.included, spent) \in 0 .. spent
      /\ Larger(0, spent - acct.included) \in 0 .. spent
      /\ Smaller(acct.included, spent) + Larger(0, spent - acct.included) = spent
      /\ row[r].estCredits - spent \in Nat
  BY <1>1 DEF Smaller, Larger
<1>3. FinishEvent(r, event, booked, spent)
        = Event(r, event, booked, Smaller(acct.included, spent),
                Larger(0, spent - acct.included), row[r].estCredits - spent)
  BY DEF FinishEvent
<1>4. FinishEvent(r, event, booked, spent) \in LedgerEvent
  BY <1>2, <1>3 DEF Event, LedgerEvent
<1>. QED BY <1>2, <1>3, <1>4
-----------------------------------------------------------------------------
(* Type correctness *)

LEMMA InitTypeOK == Init => TypeOK
<1>. SUFFICES ASSUME Init PROVE TypeOK
  OBVIOUS
<1>1. NoRow \in Row
  BY BillingAssumption DEF NoRow, Row, Statuses, ProviderStates
<1>2. account \in [Owners -> Account] /\ \A o \in Owners : AccountGuard(account[o])
  <2>1. PICK included \in [Owners -> Balances], prepaid \in [Owners -> Balances] :
          account = [o \in Owners |->
            [status |-> "active", included |-> included[o], prepaid |-> prepaid[o],
             reserved |-> 0, cycleStart |-> 0]]
    BY DEF Init
  <2>2. ASSUME NEW o \in Owners
        PROVE  included[o] \in 0 .. MaxMoney /\ prepaid[o] \in 0 .. MaxMoney
    BY BillingAssumption
  <2>3. MaxMoney \in Nat
    BY BillingAssumption
  <2>. QED BY <2>1, <2>2, <2>3 DEF Account, AccountStates, AccountGuard
<1>3. ASSUME NEW o \in Owners
      PROVE  account[o].included + account[o].prepaid \in Int
  <2>1. account[o] \in Account
    BY <1>2
  <2>2. account[o].included \in Nat /\ account[o].prepaid \in Nat
    BY <2>1 DEF Account, AccountStates
  <2>. QED BY <2>2
<1>4. funded \in [Owners -> Int]
  BY <1>3 DEF Init
<1>5. row \in [Requests -> Row]
  BY <1>1 DEF Init
<1>6. now \in 0 .. MaxTime
  BY BillingAssumption DEF Init
<1>7. ledger \subseteq LedgerEvent /\ policyEnabled \in BOOLEAN /\ currentPrices \subseteq Prices
  BY DEF Init
<1>. QED BY <1>2, <1>4, <1>5, <1>6, <1>7 DEF TypeOK

LEMMA ClosedRowType ==
  ASSUME TypeOK, NEW r \in Requests, NEW status \in {"settled", "released"},
         NEW spent \in Nat, NEW cost \in Nat
  PROVE  ClosedRow(r, status, spent, cost) \in Row
<1>1. row[r] \in Row
  BY DEF TypeOK
<1>2. now \in Nat
  BY BillingAssumption DEF TypeOK
<1>3. status \in Statuses /\ "finished" \in ProviderStates
  BY DEF Statuses, ProviderStates
<1>. HIDE DEF Statuses, ProviderStates
<1>. QED BY <1>1, <1>2, <1>3 DEF ClosedRow, Row

\* A statement that closes r, of whichever kind, keeps the types.
LEMMA CloseType ==
  ASSUME TypeOK, NEW r \in Requests, NEW status \in {"settled", "released"},
         NEW event \in {"settle", "release"}, NEW booked \in Nat,
         NEW spent \in 0 .. row[r].estCredits, NEW cost \in Nat,
         AccountGuard(FinishedAccount(account[OwnerOf[r]], spent, row[r].estCredits)),
         row' = [row EXCEPT ![r] = ClosedRow(r, status, spent, cost)],
         account' = [account EXCEPT ![OwnerOf[r]] =
           FinishedAccount(account[OwnerOf[r]], spent, row[r].estCredits)],
         ledger' = ledger \cup {FinishEvent(r, event, booked, spent)},
         UNCHANGED <<policyEnabled, currentPrices, now, funded>>
  PROVE  TypeOK'
<1>1. ClosedRow(r, status, spent, cost) \in Row
  <2>1. row[r].estCredits \in Nat
    BY DEF TypeOK, Row
  <2>. QED BY <2>1, ClosedRowType
<1>2. OwnerOf[r] \in Owners
  BY BillingAssumption
<1>3. FinishedAccount(account[OwnerOf[r]], spent, row[r].estCredits) \in Account
  BY <1>2, FinishedType DEF TypeOK
<1>4. /\ account' \in [Owners -> Account]
      /\ \A o \in Owners : AccountGuard(account'[o])
  BY <1>2, <1>3 DEF TypeOK
<1>5. FinishEvent(r, event, booked, spent) \in LedgerEvent
  BY FinishEventType
<1>. QED BY <1>1, <1>4, <1>5 DEF TypeOK

LEMMA ReserveType ==
  ASSUME TypeOK, NEW r \in Requests, NEW p \in Prices, Reserve(r, p)
  PROVE  TypeOK'
<1>. DEFINE o == OwnerOf[r]
            credits == EstimatedCredits(p)
            held == [account[o] EXCEPT !.reserved = @ + credits]
            new == [status |-> "reserved", provider |-> "not_started", price |-> p,
                    estCredits |-> credits, estCost |-> EstimatedCost(p),
                    actCredits |-> 0, actCost |-> 0, created |-> now, settled |-> 0]
<1>1. o \in Owners
  BY BillingAssumption
<1>2. credits \in Nat /\ EstimatedCost(p) \in Nat
  BY EstimateNat
<1>3. now \in Nat
  BY BillingAssumption DEF TypeOK
<1>4. new \in Row
  BY <1>2, <1>3 DEF Row, Statuses, ProviderStates
<1>5. row' \in [Requests -> Row]
  BY <1>4 DEF Reserve, TypeOK
<1>6. held \in Account
  BY <1>1, <1>2 DEF TypeOK, Account, AccountStates
<1>7. /\ account' \in [Owners -> Account]
      /\ \A q \in Owners : AccountGuard(account'[q])
  BY <1>1, <1>6 DEF Reserve, TypeOK
<1>8. ledger' \subseteq LedgerEvent
  BY <1>1, <1>2, ReserveEventsType DEF Reserve, TypeOK
<1>. QED BY <1>5, <1>7, <1>8 DEF Reserve, TypeOK

LEMMA SettleType ==
  ASSUME TypeOK, NEW r \in Requests, NEW input \in 0 .. MaxInput,
         NEW output \in 0 .. MaxOutput, Settle(r, input, output)
  PROVE  TypeOK'
<1>. DEFINE cost == CostOf(row[r].price, input, output)
            credits == CreditsOf(row[r].price, cost)
<1>1. row[r].price \in Prices /\ row[r].estCredits \in Nat
  BY DEF TypeOK, Row
<1>2. cost \in Nat
  BY <1>1, CostNat
<1>3. credits \in Nat
  BY <1>1, <1>2, CreditsNat
<1>4. credits \in 0 .. row[r].estCredits
  BY <1>1, <1>3 DEF Settle, WithinEstimate
<1>. QED BY <1>2, <1>3, <1>4, CloseType DEF Settle

LEMMA ReleaseType ==
  ASSUME TypeOK, NEW r \in Requests, NEW confirmed \in BOOLEAN, Release(r, confirmed)
  PROVE  TypeOK'
<1>1. row[r].estCredits \in Nat
  BY DEF TypeOK, Row
<1>2. 0 \in 0 .. row[r].estCredits
  BY <1>1
<1>. QED BY <1>1, <1>2, CloseType DEF Release

LEMMA ExpireType ==
  ASSUME TypeOK, ExpireUndispatched
  PROVE  TypeOK'
<1>1. PICK S \in SUBSET Expired :
        /\ \A o \in Owners : AccountGuard(FreedBy(S, o))
        /\ row' = [r \in Requests |->
             IF r \in S THEN ClosedRow(r, "released", 0, 0) ELSE row[r]]
        /\ account' = [o \in Owners |-> FreedBy(S, o)]
        /\ ledger' = ledger \cup {FinishEvent(r, "release", row[r].estCredits, 0) : r \in S}
        /\ UNCHANGED <<policyEnabled, currentPrices, now, funded>>
  BY DEF ExpireUndispatched, TriggersPass
<1>2. S \subseteq Requests
  BY DEF Expired, OpenRows
<1>3. row' \in [Requests -> Row]
  BY <1>1, ClosedRowType DEF TypeOK
<1>4. ASSUME NEW o \in Owners
      PROVE  FreedBy(S, o) \in Account
  <2>. DEFINE n == account[o].reserved - SumOver(Estimates, S \cap OfOwner(o))
  <2>1. FreedBy(S, o) = [account[o] EXCEPT !.reserved = n]
    BY DEF FreedBy
  <2>. HIDE DEF n
  <2>2. account[o] \in Account
    BY DEF TypeOK
  <2>3. n \in Nat
    BY <1>1, <2>1, <2>2 DEF AccountGuard, Account, AccountStates
  <2>. QED BY <2>1, <2>2, <2>3 DEF Account, AccountStates
<1>5. /\ account' \in [Owners -> Account]
      /\ \A o \in Owners : AccountGuard(account'[o])
  BY <1>1, <1>4
<1>6. ASSUME NEW r \in S
      PROVE  FinishEvent(r, "release", row[r].estCredits, 0) \in LedgerEvent
  <2>1. r \in Requests /\ row[r].estCredits \in Nat /\ 0 \in 0 .. row[r].estCredits
    BY <1>2 DEF TypeOK, Row
  <2>. QED BY <2>1, FinishEventType
<1>7. ledger' \subseteq LedgerEvent
  BY <1>1, <1>6 DEF TypeOK
<1>. QED BY <1>1, <1>3, <1>5, <1>7 DEF TypeOK

LEMMA OperatorType ==
  ASSUME TypeOK, Operator
  PROVE  TypeOK'
<1>1. CASE EnableBilling
  BY <1>1 DEF EnableBilling, SetPolicy, TypeOK
<1>2. ASSUME NEW o \in Owners, NEW status \in AccountStatuses, SetStatus(o, status)
      PROVE  TypeOK'
  <2>1. status \in {"active", "blocked", "paused"}
    BY BillingAssumption
  <2>2. [account[o] EXCEPT !.status = status] \in Account
    BY <2>1 DEF TypeOK, Account, AccountStates
  <2>3. AccountGuard([account[o] EXCEPT !.status = status])
    BY DEF TypeOK, Account, AccountStates, AccountGuard
  <2>4. account' = [account EXCEPT ![o] = [account[o] EXCEPT !.status = status]]
    BY <1>2 DEF SetStatus
  <2>5. account' \in [Owners -> Account] /\ \A q \in Owners : AccountGuard(account'[q])
    BY <2>2, <2>3, <2>4 DEF TypeOK
  <2>. QED BY <1>2, <2>5 DEF SetStatus, TypeOK
<1>3. ASSUME NEW o \in Owners, RenewCycle(o)
      PROVE  TypeOK'
  <2>1. now \in Nat
    BY BillingAssumption DEF TypeOK
  <2>2. [account[o] EXCEPT !.cycleStart = now] \in Account
    BY <2>1 DEF TypeOK, Account, AccountStates
  <2>3. AccountGuard([account[o] EXCEPT !.cycleStart = now])
    BY DEF TypeOK, Account, AccountStates, AccountGuard
  <2>4. account' = [account EXCEPT ![o] = [account[o] EXCEPT !.cycleStart = now]]
    BY <1>3 DEF RenewCycle
  <2>5. account' \in [Owners -> Account] /\ \A q \in Owners : AccountGuard(account'[q])
    BY <2>2, <2>3, <2>4 DEF TypeOK
  <2>. QED BY <1>3, <2>5 DEF RenewCycle, TypeOK
<1>4. ASSUME NEW o \in Owners, NEW included \in Balances, NEW prepaid \in Balances,
             SetBalance(o, included, prepaid)
      PROVE  TypeOK'
  <2>. DEFINE acct == [account[o] EXCEPT !.included = included, !.prepaid = prepaid]
  <2>1. included \in Nat /\ prepaid \in Nat
    <3>1. included \in 0 .. MaxMoney /\ prepaid \in 0 .. MaxMoney /\ MaxMoney \in Nat
      BY BillingAssumption
    <3>. QED BY <3>1
  <2>2. acct \in Account
    BY <2>1 DEF TypeOK, Account, AccountStates
  <2>3. account' \in [Owners -> Account] /\ \A q \in Owners : AccountGuard(account'[q])
    BY <1>4, <2>2 DEF SetBalance, TypeOK
  <2>4. account[o].included \in Nat /\ account[o].prepaid \in Nat
    BY DEF TypeOK, Account, AccountStates
  <2>5. funded' \in [Owners -> Int]
    BY <1>4, <2>1, <2>4 DEF SetBalance, TypeOK
  <2>. QED BY <1>4, <2>3, <2>5 DEF SetBalance, TypeOK
<1>5. ASSUME NEW p \in Prices, ClosePrice(p)
      PROVE  TypeOK'
  BY <1>5 DEF ClosePrice, TypeOK
<1>. QED BY <1>1, <1>2, <1>3, <1>4, <1>5 DEF Operator

LEMMA StepTypeOK == TypeOK /\ [Next]_vars => TypeOK'
<1>. SUFFICES ASSUME TypeOK, [Next]_vars PROVE TypeOK'
  OBVIOUS
<1>1. ASSUME NEW r \in Requests, BeginDispatch(r)
      PROVE  TypeOK'
  <2>1. [row[r] EXCEPT !.provider = "started"] \in Row
    BY DEF TypeOK, Row, ProviderStates
  <2>. QED BY <1>1, <2>1 DEF BeginDispatch, TypeOK
<1>2. ASSUME NEW r \in Requests, MarkUnknown(r)
      PROVE  TypeOK'
  <2>1. [row[r] EXCEPT !.provider = "unknown"] \in Row
    BY DEF TypeOK, Row, ProviderStates
  <2>. QED BY <1>2, <2>1 DEF MarkUnknown, TypeOK
<1>3. CASE StopBilling
  BY <1>3 DEF StopBilling, SetPolicy, TypeOK
<1>4. CASE Statement
  BY <1>1, <1>2, <1>3, <1>4, ReserveType, SettleType, ReleaseType, ExpireType DEF Statement
<1>5. CASE Tick
  BY <1>5, BillingAssumption DEF Tick, TypeOK
<1>6. CASE UNCHANGED vars
  BY <1>6 DEF vars, TypeOK
<1>. QED BY <1>4, <1>5, <1>6, OperatorType DEF Next

\* Every row, account and ledger entry keeps its type, and every account its guard.
THEOREM TypeCorrect == Spec => []TypeOK
  BY InitTypeOK, StepTypeOK, PTL DEF Spec

-----------------------------------------------------------------------------
(* The ledger and the rows *)

\* A step that adds no entry about q and keeps what its row says keeps the match.
LEMMA OthersKeepMatch ==
  ASSUME NEW q, LedgerMatchesRow(q), NEW New,
         ledger' = ledger \cup New, \A e \in New : e.request # q,
         row'[q].status = row[q].status, row'[q].estCredits = row[q].estCredits,
         row'[q].actCredits = row[q].actCredits
  PROVE  LedgerMatchesRow(q)'
<1>1. ASSUME NEW types
      PROVE  EventsOf(q, types)' = EventsOf(q, types)
  BY DEF EventsOf
<1>. QED BY <1>1 DEF LedgerMatchesRow, HoldMatches, SettleEntryMatches, ReleaseEntryMatches,
                       HoldTypes

LEMMA ReserveMatches ==
  ASSUME TypeOK, LedgerMatchesRows, NEW r \in Requests, NEW p \in Prices, Reserve(r, p)
  PROVE  LedgerMatchesRows'
<1>. DEFINE acct == account[OwnerOf[r]]
            credits == EstimatedCredits(p)
            New == ReserveEvents(r, acct, credits)
<1>1. acct \in Account /\ credits \in Nat
  BY BillingAssumption, EstimateNat DEF TypeOK
<1>2. /\ row'[r].status = "reserved" /\ row'[r].estCredits = credits
      /\ \A q \in Requests \ {r} : row'[q] = row[q]
      /\ ledger' = ledger \cup New
  BY DEF Reserve, TypeOK
<1>3. \A e \in New : e.request = r /\ e.event \in HoldTypes
  BY DEF ReserveEvents, HoldEntries, Event, HoldTypes
<1>4. \A e \in ledger : e.request = r => e.event \notin {"settle", "release"} \cup HoldTypes
  BY DEF Reserve, ReserveGuard, LedgerMatchesRows, LedgerMatchesRow, EventsOf
<1>5. EventsOf(r, HoldTypes)' = New
  BY <1>2, <1>3, <1>4 DEF EventsOf
<1>6. EventsOf(r, {"settle"})' = {} /\ EventsOf(r, {"release"})' = {}
  BY <1>2, <1>3, <1>4 DEF EventsOf, HoldTypes
<1>7. HoldMatches(r)'
  <2>1. /\ IncludedPart(acct, credits) \in 0 .. credits
        /\ PrepaidPart(acct, credits) \in 0 .. credits
        /\ IncludedPart(acct, credits) + PrepaidPart(acct, credits) = credits
    BY <1>1, ReserveEventsType
  <2>2. New = HoldEntries(r, IncludedPart(acct, credits), PrepaidPart(acct, credits))
    BY DEF ReserveEvents
  <2>. QED BY <1>2, <1>5, <2>1, <2>2 DEF HoldMatches, HoldTypes, HoldEntries, Event
<1>8. LedgerMatchesRow(r)'
  BY <1>2, <1>6, <1>7 DEF LedgerMatchesRow, SettleEntryMatches, ReleaseEntryMatches
<1>9. ASSUME NEW q \in Requests \ {r}
      PROVE  LedgerMatchesRow(q)'
  BY <1>2, <1>3, OthersKeepMatch DEF LedgerMatchesRows
<1>. QED BY <1>8, <1>9 DEF LedgerMatchesRows

\* Closing r adds the one closing entry its new row calls for.
LEMMA CloseMatches ==
  ASSUME TypeOK, NEW r \in Requests, LedgerMatchesRow(r), r \in OpenRows,
         NEW status, NEW event, NEW booked, NEW spent \in 0 .. row[r].estCredits,
         \/ status = "settled" /\ event = "settle" /\ booked = spent
         \/ status = "released" /\ event = "release" /\ booked = row[r].estCredits /\ spent = 0,
         NEW New, \A e \in New : e.request = r => e = FinishEvent(r, event, booked, spent),
         FinishEvent(r, event, booked, spent) \in New,
         row'[r].status = status, row'[r].estCredits = row[r].estCredits,
         row'[r].actCredits = spent, ledger' = ledger \cup New
  PROVE  LedgerMatchesRow(r)'
<1>. DEFINE f == FinishEvent(r, event, booked, spent)
<1>1. /\ HoldMatches(r)
      /\ EventsOf(r, {"settle"}) = {} /\ EventsOf(r, {"release"}) = {}
  BY DEF OpenRows, LedgerMatchesRow, SettleEntryMatches, ReleaseEntryMatches
<1>2. f.request = r /\ f.event = event /\ event \notin HoldTypes
  BY DEF FinishEvent, Event, HoldTypes
<1>3. /\ EventsOf(r, HoldTypes)' = EventsOf(r, HoldTypes)
      /\ EventsOf(r, {event})' = {f}
      /\ \A other \in {"settle", "release"} \ {event} : EventsOf(r, {other})' = {}
  BY <1>1, <1>2 DEF EventsOf
<1>4. HoldMatches(r)'
  BY <1>1, <1>3 DEF HoldMatches, HoldTypes, HoldEntries, Event
<1>5. PICK a \in 0 .. spent, b \in 0 .. spent :
        /\ a + b = spent
        /\ f = Event(r, event, booked, a, b, row[r].estCredits - spent)
  <2>1. event \in {"settle", "release"} /\ booked \in Nat
    BY DEF TypeOK, Row
  <2>. QED BY <2>1, FinishEventType
<1>6. CASE status = "settled"
  <2>1. EventsOf(r, {"settle"})' = {f} /\ EventsOf(r, {"release"})' = {}
    BY <1>3, <1>6
  <2>2. SettleEntryMatches(r)' /\ ReleaseEntryMatches(r)'
    BY <1>5, <1>6, <2>1 DEF SettleEntryMatches, ReleaseEntryMatches, Event
  <2>. QED BY <1>4, <1>6, <2>2 DEF LedgerMatchesRow
<1>7. CASE status = "released"
  <2>1. EventsOf(r, {"release"})' = {f} /\ EventsOf(r, {"settle"})' = {}
    BY <1>3, <1>7
  <2>2. a = 0 /\ b = 0
    BY <1>5, <1>7
  <2>3. SettleEntryMatches(r)' /\ ReleaseEntryMatches(r)'
    <3>1. row[r].estCredits \in Nat
      BY DEF TypeOK, Row
    <3>. QED BY <1>5, <1>7, <2>1, <2>2, <3>1 DEF SettleEntryMatches, ReleaseEntryMatches, Event
  <2>. QED BY <1>4, <1>7, <2>3 DEF LedgerMatchesRow
<1>. QED BY <1>6, <1>7

LEMMA SettleMatchesLedger ==
  ASSUME TypeOK, LedgerMatchesRows, NEW r \in Requests, NEW input \in 0 .. MaxInput,
         NEW output \in 0 .. MaxOutput, Settle(r, input, output)
  PROVE  LedgerMatchesRows'
<1>. DEFINE cost == CostOf(row[r].price, input, output)
            credits == CreditsOf(row[r].price, cost)
<1>1. /\ r \in OpenRows
      /\ row'[r] = ClosedRow(r, "settled", credits, cost)
      /\ \A q \in Requests \ {r} : row'[q] = row[q]
      /\ ledger' = ledger \cup {FinishEvent(r, "settle", credits, credits)}
  BY DEF Settle, SettleMatches, Dispatched, TypeOK
<1>2. credits \in 0 .. row[r].estCredits
  <2>1. row[r].price \in Prices /\ row[r].estCredits \in Nat
    BY DEF TypeOK, Row
  <2>2. credits \in Nat
    BY <2>1, CostNat, CreditsNat
  <2>. QED BY <2>1, <2>2 DEF Settle, WithinEstimate
<1>3. /\ row'[r].status = "settled" /\ row'[r].estCredits = row[r].estCredits
      /\ row'[r].actCredits = credits
  BY <1>1 DEF ClosedRow, TypeOK, Row
<1>. DEFINE New == {FinishEvent(r, "settle", credits, credits)}
<1>4. /\ \A e \in New : e.request = r /\ e = FinishEvent(r, "settle", credits, credits)
      /\ FinishEvent(r, "settle", credits, credits) \in New
      /\ ledger' = ledger \cup New
  BY <1>1 DEF FinishEvent, Event
<1>. HIDE DEF credits, New
<1>5. LedgerMatchesRow(r)'
  <2>1. LedgerMatchesRow(r)
    BY DEF LedgerMatchesRows
  <2>. QED BY <1>1, <1>2, <1>3, <1>4, <2>1, CloseMatches
<1>6. ASSUME NEW q \in Requests \ {r}
      PROVE  LedgerMatchesRow(q)'
  <2>1. LedgerMatchesRow(q) /\ row'[q] = row[q]
    BY <1>1 DEF LedgerMatchesRows
  <2>2. \A e \in New : e.request # q
    BY <1>4
  <2>. QED BY <1>4, <2>1, <2>2, OthersKeepMatch
<1>. QED BY <1>5, <1>6 DEF LedgerMatchesRows

LEMMA ReleaseMatchesLedger ==
  ASSUME TypeOK, LedgerMatchesRows, NEW r \in Requests, NEW confirmed \in BOOLEAN,
         Release(r, confirmed)
  PROVE  LedgerMatchesRows'
<1>. DEFINE f == FinishEvent(r, "release", row[r].estCredits, 0)
<1>1. /\ r \in OpenRows
      /\ row'[r] = ClosedRow(r, "released", 0, 0)
      /\ \A q \in Requests \ {r} : row'[q] = row[q]
      /\ ledger' = ledger \cup {f}
  BY DEF Release, ReleaseMatches, OpenRows, TypeOK
<1>2. 0 \in 0 .. row[r].estCredits
  BY DEF TypeOK, Row
<1>3. /\ row'[r].status = "released" /\ row'[r].estCredits = row[r].estCredits
      /\ row'[r].actCredits = 0
  BY <1>1 DEF ClosedRow, TypeOK, Row
<1>. DEFINE New == {f}
<1>4. /\ \A e \in New : e.request = r /\ e = FinishEvent(r, "release", row[r].estCredits, 0)
      /\ FinishEvent(r, "release", row[r].estCredits, 0) \in New
      /\ ledger' = ledger \cup New
  BY <1>1 DEF FinishEvent, Event
<1>. HIDE DEF New
<1>5. LedgerMatchesRow(r)'
  <2>1. LedgerMatchesRow(r)
    BY DEF LedgerMatchesRows
  <2>. QED BY <1>1, <1>2, <1>3, <1>4, <2>1, CloseMatches
<1>6. ASSUME NEW q \in Requests \ {r}
      PROVE  LedgerMatchesRow(q)'
  <2>1. LedgerMatchesRow(q) /\ row'[q] = row[q]
    BY <1>1 DEF LedgerMatchesRows
  <2>2. \A e \in New : e.request # q
    BY <1>4
  <2>. QED BY <1>4, <2>1, <2>2, OthersKeepMatch
<1>. QED BY <1>5, <1>6 DEF LedgerMatchesRows

\* What the sweep does to the rows and the ledger, without its batch choice.
LEMMA SweepEffect ==
  ASSUME ExpireUndispatched
  PROVE  \E S \in SUBSET Requests :
           /\ \A r \in S : row[r].status = "reserved" /\ row[r].provider = "not_started"
           /\ row' = [r \in Requests |->
                IF r \in S THEN ClosedRow(r, "released", 0, 0) ELSE row[r]]
           /\ ledger' = ledger \cup
                {FinishEvent(r, "release", row[r].estCredits, 0) : r \in S}
  BY DEF ExpireUndispatched, Expired, OpenRows

LEMMA ExpireMatchesLedger ==
  ASSUME TypeOK, LedgerMatchesRows, ExpireUndispatched
  PROVE  LedgerMatchesRows'
<1>1. PICK S \in SUBSET Requests :
        /\ \A r \in S : row[r].status = "reserved" /\ row[r].provider = "not_started"
        /\ row' = [r \in Requests |->
             IF r \in S THEN ClosedRow(r, "released", 0, 0) ELSE row[r]]
        /\ ledger' = ledger \cup {FinishEvent(r, "release", row[r].estCredits, 0) : r \in S}
  BY SweepEffect
<1>. DEFINE New == {FinishEvent(r, "release", row[r].estCredits, 0) : r \in S}
<1>2. \A r \in S : FinishEvent(r, "release", row[r].estCredits, 0).request = r
  BY DEF FinishEvent, Event
<1>3. ASSUME NEW r \in S
      PROVE  LedgerMatchesRow(r)'
  <2>1. r \in Requests /\ r \in OpenRows /\ 0 \in 0 .. row[r].estCredits
    BY <1>1 DEF OpenRows, TypeOK, Row
  <2>2. row'[r] = ClosedRow(r, "released", 0, 0)
    BY <1>1
  <2>3. /\ row'[r].status = "released" /\ row'[r].estCredits = row[r].estCredits
        /\ row'[r].actCredits = 0
    BY <2>1, <2>2 DEF ClosedRow, TypeOK, Row
  <2>4. \A e \in New : e.request = r => e = FinishEvent(r, "release", row[r].estCredits, 0)
    BY <1>2
  <2>5. FinishEvent(r, "release", row[r].estCredits, 0) \in New
    OBVIOUS
  <2>6. ledger' = ledger \cup New
    BY <1>1
  <2>7. LedgerMatchesRow(r)
    BY <2>1 DEF LedgerMatchesRows
  <2>. HIDE DEF New
  <2>. QED BY <2>1, <2>3, <2>4, <2>5, <2>6, <2>7, CloseMatches
<1>4. ASSUME NEW q \in Requests \ S
      PROVE  LedgerMatchesRow(q)'
  <2>1. row'[q] = row[q] /\ ledger' = ledger \cup New
    BY <1>1
  <2>2. \A e \in New : e.request # q
    BY <1>2
  <2>. HIDE DEF New
  <2>. QED BY <2>1, <2>2, OthersKeepMatch DEF LedgerMatchesRows
<1>. QED BY <1>3, <1>4 DEF LedgerMatchesRows

LEMMA StepLedgerMatches == TypeOK /\ LedgerMatchesRows /\ [Next]_vars => LedgerMatchesRows'
<1>. SUFFICES ASSUME TypeOK, LedgerMatchesRows, [Next]_vars PROVE LedgerMatchesRows'
  OBVIOUS
<1>1. ASSUME ledger' = ledger,
             \A q \in Requests : /\ row'[q].status = row[q].status
                                 /\ row'[q].estCredits = row[q].estCredits
                                 /\ row'[q].actCredits = row[q].actCredits
      PROVE  LedgerMatchesRows'
  <2>1. PICK none : none = {}
    OBVIOUS
  <2>2. ASSUME NEW q \in Requests
        PROVE  LedgerMatchesRow(q)'
    <3>1. LedgerMatchesRow(q)
      BY DEF LedgerMatchesRows
    <3>2. ledger' = ledger \cup none /\ \A e \in none : e.request # q
      BY <1>1, <2>1
    <3>. QED BY <1>1, <3>1, <3>2, OthersKeepMatch
  <2>. QED BY <2>2 DEF LedgerMatchesRows
<1>2. ASSUME NEW r \in Requests, BeginDispatch(r) \/ MarkUnknown(r)
      PROVE  LedgerMatchesRows'
  <2>1. PICK state : row' = [row EXCEPT ![r].provider = state]
    BY <1>2 DEF BeginDispatch, MarkUnknown
  <2>2. \A q \in Requests : row[q] \in Row
    BY DEF TypeOK
  <2>3. \A q \in Requests : /\ row'[q].status = row[q].status
                            /\ row'[q].estCredits = row[q].estCredits
                            /\ row'[q].actCredits = row[q].actCredits
    BY <2>1, <2>2 DEF Row, TypeOK
  <2>. QED BY <1>1, <1>2, <2>3 DEF BeginDispatch, MarkUnknown
<1>3. CASE StopBilling \/ Operator \/ Tick \/ UNCHANGED vars
  BY <1>1, <1>3 DEF StopBilling, Operator, EnableBilling, SetPolicy, SetStatus, RenewCycle,
                    SetBalance, ClosePrice, Tick, vars
<1>4. CASE Statement
  BY <1>2, <1>3, <1>4, ReserveMatches, SettleMatchesLedger, ReleaseMatchesLedger,
     ExpireMatchesLedger DEF Statement
<1>. QED BY <1>3, <1>4 DEF Next

\* For any number of accounts, requests and prices, and in any order of statements,
\* the append-only ledger and the reservation rows tell the same story.
THEOREM LedgerAgrees == Spec => []LedgerMatchesRows
<1>1. Init => LedgerMatchesRows
  BY DEF Init, NoRow, LedgerMatchesRows, LedgerMatchesRow, EventsOf
<1>. QED BY <1>1, TypeCorrect, StepLedgerMatches, PTL DEF Spec

-----------------------------------------------------------------------------
(* Finality *)

LEMMA StepFinal ==
  ASSUME TypeOK, Next
  PROVE  ledger \subseteq ledger' /\ \A r \in Requests : Final(r)
<1>1. ASSUME NEW r \in Requests, NEW p \in Prices, Reserve(r, p)
      PROVE  ledger \subseteq ledger' /\ \A q \in Requests : Final(q)
  <2>1. row[r].status = "absent" /\ \A q \in Requests \ {r} : row'[q] = row[q]
    BY <1>1 DEF Reserve, ReserveGuard, TypeOK
  <2>2. \A e \in ledger' \ ledger : e.request = r
    BY <1>1 DEF Reserve, ReserveEvents, HoldEntries, Event
  <2>. QED BY <1>1, <2>1, <2>2 DEF Reserve, Final
<1>2. ASSUME NEW r \in Requests, BeginDispatch(r) \/ MarkUnknown(r)
      PROVE  ledger \subseteq ledger' /\ \A q \in Requests : Final(q)
  <2>1. row[r].status = "reserved" /\ \A q \in Requests \ {r} : row'[q] = row[q]
    BY <1>2 DEF BeginDispatch, MarkUnknown, Dispatched, OpenRows, TypeOK
  <2>. QED BY <1>2, <2>1 DEF BeginDispatch, MarkUnknown, Final
<1>3. ASSUME NEW r \in Requests, NEW f, row[r].status = "reserved", f.request = r,
             \A q \in Requests \ {r} : row'[q] = row[q], ledger' = ledger \cup {f}
      PROVE  ledger \subseteq ledger' /\ \A q \in Requests : Final(q)
  BY <1>3 DEF Final
<1>4. \A r, event, booked, spent : FinishEvent(r, event, booked, spent).request = r
  BY DEF FinishEvent, Event
<1>5. ASSUME NEW r \in Requests, NEW input, NEW output, Settle(r, input, output)
      PROVE  ledger \subseteq ledger' /\ \A q \in Requests : Final(q)
  <2>1. row[r].status = "reserved" /\ \A q \in Requests \ {r} : row'[q] = row[q]
    BY <1>5 DEF Settle, SettleMatches, Dispatched, OpenRows, TypeOK
  <2>2. PICK f : f.request = r /\ ledger' = ledger \cup {f}
    BY <1>4, <1>5 DEF Settle
  <2>. QED BY <1>3, <2>1, <2>2
<1>6. ASSUME NEW r \in Requests, NEW confirmed, Release(r, confirmed)
      PROVE  ledger \subseteq ledger' /\ \A q \in Requests : Final(q)
  <2>1. row[r].status = "reserved" /\ \A q \in Requests \ {r} : row'[q] = row[q]
    BY <1>6 DEF Release, ReleaseMatches, TypeOK
  <2>2. PICK f : f.request = r /\ ledger' = ledger \cup {f}
    BY <1>4, <1>6 DEF Release
  <2>. QED BY <1>3, <2>1, <2>2
<1>7. CASE ExpireUndispatched
  <2>1. PICK S \in SUBSET Requests :
          /\ \A r \in S : row[r].status = "reserved" /\ row[r].provider = "not_started"
          /\ row' = [r \in Requests |->
               IF r \in S THEN ClosedRow(r, "released", 0, 0) ELSE row[r]]
          /\ ledger' = ledger \cup
               {FinishEvent(r, "release", row[r].estCredits, 0) : r \in S}
    BY <1>7, SweepEffect
  <2>2. \A e \in ledger' \ ledger : e.request \in S
    BY <1>4, <2>1
  <2>. QED BY <2>1, <2>2 DEF Final
<1>8. CASE StopBilling \/ Operator \/ Tick
  <2>1. row' = row /\ ledger' = ledger
    BY <1>8 DEF StopBilling, Operator, EnableBilling, SetPolicy, SetStatus, RenewCycle,
                SetBalance, ClosePrice, Tick
  <2>. QED BY <2>1 DEF Final
<1>. QED BY <1>1, <1>2, <1>5, <1>6, <1>7, <1>8 DEF Next, Statement

\* No late settlement, release or sweep ever changes a closed row or its entries.
THEOREM ClosedNeverChanges == Spec => ClosedIsFinal
<1>1. TypeOK /\ [Next]_vars => [ledger \subseteq ledger' /\ \A r \in Requests : Final(r)]_vars
  BY StepFinal
<1>. QED BY <1>1, TypeCorrect, PTL DEF Spec, ClosedIsFinal

-----------------------------------------------------------------------------
(* Refinement of the abstract hold *)

LEMMA InitHold == Init => Abstract!HoldInit
  BY DEF Init, NoRow, PhaseOf, Abstract!HoldInit

\* Only a settlement takes credits: the strengthening the refinement needs.
TakenOnlyBySettling == \A r \in Requests : row[r].status # "settled" => row[r].actCredits = 0

LEMMA ClosedFields ==
  ASSUME TypeOK, NEW r \in Requests, NEW status, NEW credits, NEW cost
  PROVE  LET new == ClosedRow(r, status, credits, cost) IN
         /\ new.status = status /\ new.provider = "finished" /\ new.actCredits = credits
         /\ new.estCredits = row[r].estCredits
  BY DEF ClosedRow, TypeOK, Row

\* How each statement that writes rows changes them.
LEMMA RowEffect ==
  ASSUME TypeOK, [Next]_vars
  PROVE  \/ row' = row
         \/ \E r \in Requests, n \in Nat \ {0} :
              /\ row[r].status = "absent"
              /\ row'[r].status = "reserved" /\ row'[r].provider = "not_started"
              /\ row'[r].estCredits = n /\ row'[r].actCredits = 0
              /\ \A q \in Requests \ {r} : row'[q] = row[q]
         \/ \E r \in Requests :
              /\ row[r].status = "reserved" /\ row'[r].status = "reserved"
              /\ row'[r].provider \in {"started", "unknown"}
              /\ row'[r].estCredits = row[r].estCredits /\ row'[r].actCredits = row[r].actCredits
              /\ \A q \in Requests \ {r} : row'[q] = row[q]
         \/ \E r \in Requests : \E n \in 0 .. row[r].estCredits :
              /\ r \in Dispatched
              /\ row'[r].status = "settled" /\ row'[r].actCredits = n
              /\ row'[r].estCredits = row[r].estCredits
              /\ \A q \in Requests \ {r} : row'[q] = row[q]
         \/ \E r \in Requests :
              /\ row[r].status = "reserved"
              /\ row'[r].status = "released" /\ row'[r].actCredits = 0
              /\ row'[r].estCredits = row[r].estCredits
              /\ \A q \in Requests \ {r} : row'[q] = row[q]
         \/ \E S \in SUBSET Requests :
              /\ \A r \in S : /\ row[r].status = "reserved" /\ row[r].provider = "not_started"
                             /\ row'[r].status = "released" /\ row'[r].actCredits = 0
                             /\ row'[r].estCredits = row[r].estCredits
              /\ \A q \in Requests \ S : row'[q] = row[q]
<1>1. CASE UNCHANGED vars
  BY <1>1 DEF vars
<1>2. CASE StopBilling \/ Operator \/ Tick
  BY <1>2 DEF StopBilling, Operator, EnableBilling, SetPolicy, SetStatus, RenewCycle,
              SetBalance, ClosePrice, Tick
<1>3. ASSUME NEW r \in Requests, NEW p \in Prices, Reserve(r, p)
      PROVE  /\ row[r].status = "absent"
             /\ row'[r].status = "reserved" /\ row'[r].provider = "not_started"
             /\ row'[r].estCredits = EstimatedCredits(p) /\ row'[r].actCredits = 0
             /\ EstimatedCredits(p) \in Nat \ {0}
             /\ \A q \in Requests \ {r} : row'[q] = row[q]
  BY <1>3, EstimateNat DEF Reserve, ReserveGuard, TypeOK
<1>4. ASSUME NEW r \in Requests, BeginDispatch(r) \/ MarkUnknown(r)
      PROVE  /\ row[r].status = "reserved" /\ row'[r].status = "reserved"
             /\ row'[r].provider \in {"started", "unknown"}
             /\ row'[r].estCredits = row[r].estCredits /\ row'[r].actCredits = row[r].actCredits
             /\ \A q \in Requests \ {r} : row'[q] = row[q]
  BY <1>4 DEF BeginDispatch, MarkUnknown, Dispatched, OpenRows, TypeOK, Row
<1>5. ASSUME NEW r \in Requests, NEW input \in 0 .. MaxInput, NEW output \in 0 .. MaxOutput,
             Settle(r, input, output)
      PROVE  \E n \in 0 .. row[r].estCredits :
               /\ r \in Dispatched
               /\ row'[r].status = "settled" /\ row'[r].actCredits = n
               /\ row'[r].estCredits = row[r].estCredits
               /\ \A q \in Requests \ {r} : row'[q] = row[q]
  <2>. DEFINE cost == CostOf(row[r].price, input, output)
              credits == CreditsOf(row[r].price, cost)
  <2>1. row[r].price \in Prices /\ row[r].estCredits \in Nat
    BY DEF TypeOK, Row
  <2>2. credits \in Nat
    BY <2>1, CostNat, CreditsNat
  <2>3. /\ r \in Dispatched /\ credits <= row[r].estCredits
        /\ row'[r] = ClosedRow(r, "settled", credits, cost)
        /\ \A q \in Requests \ {r} : row'[q] = row[q]
    BY <1>5 DEF Settle, SettleMatches, WithinEstimate, TypeOK
  <2>. HIDE DEF credits, cost
  <2>4. credits \in 0 .. row[r].estCredits
    BY <2>1, <2>2, <2>3
  <2>. QED BY <2>3, <2>4, ClosedFields
<1>6. ASSUME NEW r \in Requests, NEW confirmed \in BOOLEAN, Release(r, confirmed)
      PROVE  /\ row[r].status = "reserved"
             /\ row'[r].status = "released" /\ row'[r].actCredits = 0
             /\ row'[r].estCredits = row[r].estCredits
             /\ \A q \in Requests \ {r} : row'[q] = row[q]
  <2>1. /\ row[r].status = "reserved" /\ row'[r] = ClosedRow(r, "released", 0, 0)
        /\ \A q \in Requests \ {r} : row'[q] = row[q]
    BY <1>6 DEF Release, ReleaseMatches, TypeOK
  <2>. QED BY <2>1, ClosedFields
<1>7. ASSUME ExpireUndispatched
      PROVE  \E S \in SUBSET Requests :
               /\ \A r \in S : /\ row[r].status = "reserved" /\ row[r].provider = "not_started"
                              /\ row'[r].status = "released" /\ row'[r].actCredits = 0
                              /\ row'[r].estCredits = row[r].estCredits
               /\ \A q \in Requests \ S : row'[q] = row[q]
  BY <1>7, SweepEffect, ClosedFields
<1>8. CASE Statement
  BY <1>2, <1>3, <1>4, <1>5, <1>6, <1>7, <1>8 DEF Statement
<1>. QED BY <1>1, <1>2, <1>8 DEF Next

LEMMA StepTaken == TypeOK /\ TakenOnlyBySettling /\ [Next]_vars => TakenOnlyBySettling'
  BY RowEffect DEF TakenOnlyBySettling, Dispatched, OpenRows

LEMMA PhaseValues ==
  ASSUME NEW r
  PROVE  /\ row[r].status = "absent" => PhaseOf(r) = "none"
         /\ row[r].status = "reserved" /\ row[r].provider = "not_started" => PhaseOf(r) = "held"
         /\ row[r].status = "reserved" /\ row[r].provider # "not_started"
              => PhaseOf(r) = "dispatched"
         /\ row[r].status = "settled" => PhaseOf(r) = "charged"
         /\ row[r].status = "released" => PhaseOf(r) = "refunded"
  BY DEF PhaseOf

LEMMA PhaseValuesNext ==
  ASSUME NEW r
  PROVE  /\ row'[r].status = "absent" => PhaseOf(r)' = "none"
         /\ row'[r].status = "reserved" /\ row'[r].provider = "not_started"
              => PhaseOf(r)' = "held"
         /\ row'[r].status = "reserved" /\ row'[r].provider # "not_started"
              => PhaseOf(r)' = "dispatched"
         /\ row'[r].status = "settled" => PhaseOf(r)' = "charged"
         /\ row'[r].status = "released" => PhaseOf(r)' = "refunded"
         /\ row'[r] = row[r] => PhaseOf(r)' = PhaseOf(r)
  BY DEF PhaseOf

LEMMA StepHold ==
  ASSUME TypeOK, TakenOnlyBySettling, [Next]_vars
  PROVE  [Abstract!HoldNext]_(Abstract!holdVars)
<1>. DEFINE Others(r) == \A q \in Requests \ {r} : row'[q] = row[q]
<1>1. CASE row' = row
  BY <1>1, PhaseValuesNext DEF Abstract!holdVars
<1>2. ASSUME NEW r \in Requests, NEW n \in Nat \ {0}, row[r].status = "absent",
             row'[r].status = "reserved", row'[r].provider = "not_started",
             row'[r].estCredits = n, row'[r].actCredits = 0, Others(r)
      PROVE  Abstract!Hold(r)
  <2>1. row[r].actCredits = 0
    BY <1>2 DEF TakenOnlyBySettling
  <2>2. PhaseOf(r) = "none" /\ PhaseOf(r)' = "held"
    BY <1>2, PhaseValues, PhaseValuesNext
  <2>3. \A q \in Requests \ {r} : PhaseOf(q)' = PhaseOf(q)
    BY <1>2, PhaseValuesNext
  <2>. QED BY <1>2, <2>1, <2>2, <2>3 DEF Abstract!Hold
<1>3. ASSUME NEW r \in Requests, row[r].status = "reserved", row'[r].status = "reserved",
             row'[r].provider \in {"started", "unknown"},
             row'[r].estCredits = row[r].estCredits, row'[r].actCredits = row[r].actCredits,
             Others(r)
      PROVE  Abstract!Dispatch(r) \/ UNCHANGED Abstract!holdVars
  <2>1. PhaseOf(r) \in {"held", "dispatched"} /\ PhaseOf(r)' = "dispatched"
    BY <1>3, PhaseValues, PhaseValuesNext
  <2>2. \A q \in Requests \ {r} : PhaseOf(q)' = PhaseOf(q)
    BY <1>3, PhaseValuesNext
  <2>. QED BY <1>3, <2>1, <2>2 DEF Abstract!Dispatch, Abstract!holdVars
<1>4. ASSUME NEW r \in Requests, NEW n \in 0 .. row[r].estCredits, r \in Dispatched,
             row'[r].status = "settled", row'[r].actCredits = n,
             row'[r].estCredits = row[r].estCredits, Others(r)
      PROVE  Abstract!Charge(r)
  <2>1. row[r].status = "reserved" /\ row[r].provider # "not_started"
    BY <1>4 DEF Dispatched, OpenRows
  <2>2. PhaseOf(r) = "dispatched" /\ PhaseOf(r)' = "charged"
    BY <1>4, <2>1, PhaseValues, PhaseValuesNext
  <2>3. \A q \in Requests \ {r} : PhaseOf(q)' = PhaseOf(q)
    BY <1>4, PhaseValuesNext
  <2>. QED BY <1>4, <2>2, <2>3 DEF Abstract!Charge
<1>5. ASSUME NEW r \in Requests, row[r].status = "reserved", row'[r].status = "released",
             row'[r].actCredits = 0, row'[r].estCredits = row[r].estCredits, Others(r)
      PROVE  Abstract!Refund(r)
  <2>1. row[r].actCredits = 0
    BY <1>5 DEF TakenOnlyBySettling
  <2>2. PhaseOf(r) \in {"held", "dispatched"} /\ PhaseOf(r)' = "refunded"
    BY <1>5, PhaseValues, PhaseValuesNext
  <2>3. \A q \in Requests \ {r} : PhaseOf(q)' = PhaseOf(q)
    BY <1>5, PhaseValuesNext
  <2>. QED BY <1>5, <2>1, <2>2, <2>3 DEF Abstract!Refund
<1>6. ASSUME NEW S \in SUBSET Requests,
             \A r \in S : /\ row[r].status = "reserved" /\ row[r].provider = "not_started"
                          /\ row'[r].status = "released" /\ row'[r].actCredits = 0
                          /\ row'[r].estCredits = row[r].estCredits,
             \A q \in Requests \ S : row'[q] = row[q]
      PROVE  Abstract!RefundUndispatched(S)
  <2>1. \A r \in S : row[r].actCredits = 0
    BY <1>6 DEF TakenOnlyBySettling
  <2>2. \A r \in S : PhaseOf(r) = "held" /\ PhaseOf(r)' = "refunded"
    BY <1>6, PhaseValues, PhaseValuesNext
  <2>3. \A q \in Requests \ S : PhaseOf(q)' = PhaseOf(q)
    BY <1>6, PhaseValuesNext
  <2>. QED BY <1>6, <2>1, <2>2, <2>3 DEF Abstract!RefundUndispatched
<1>. QED BY RowEffect, <1>1, <1>2, <1>3, <1>4, <1>5, <1>6 DEF Abstract!HoldNext

\* For every parameter, each billing statement is a step of the abstract hold: no hold
\* is charged twice, charged above its quote, charged undispatched, or both charged
\* and refunded.
THEOREM BillingImplementsCreditHold == Spec => ImplementsCreditHold
<1>1. Init => TakenOnlyBySettling
  BY DEF Init, NoRow, TakenOnlyBySettling
<1>2. Spec => []TakenOnlyBySettling
  BY <1>1, TypeCorrect, StepTaken, PTL DEF Spec
<1>3. TypeOK /\ TakenOnlyBySettling /\ [Next]_vars => [Abstract!HoldNext]_(Abstract!holdVars)
  BY StepHold
<1>. QED BY <1>2, <1>3, InitHold, TypeCorrect, PTL DEF Spec, ImplementsCreditHold, Abstract!HoldSpec

-----------------------------------------------------------------------------
(* Concurrency *)

LEMMA NoOtherReserve ==
  ASSUME TypeOK, [Next]_vars, \A r \in Requests, p \in Prices : ~Reserve(r, p)
  PROVE  \A q \in Requests : row'[q].status = "reserved" => row[q].status = "reserved"
<1>1. ASSUME NEW r \in Requests, BeginDispatch(r) \/ MarkUnknown(r)
      PROVE  row[r].status = "reserved" /\ \A q \in Requests \ {r} : row'[q] = row[q]
  BY <1>1 DEF BeginDispatch, MarkUnknown, Dispatched, OpenRows, TypeOK
<1>2. ASSUME NEW r \in Requests, NEW input, NEW output, Settle(r, input, output)
      PROVE  row[r].status = "reserved" /\ \A q \in Requests \ {r} : row'[q] = row[q]
  BY <1>2 DEF Settle, SettleMatches, Dispatched, OpenRows, TypeOK
<1>3. ASSUME NEW r \in Requests, NEW confirmed, Release(r, confirmed)
      PROVE  row[r].status = "reserved" /\ \A q \in Requests \ {r} : row'[q] = row[q]
  BY <1>3 DEF Release, ReleaseMatches, TypeOK
<1>4. CASE ExpireUndispatched
  BY <1>4, SweepEffect
<1>5. CASE StopBilling \/ Operator \/ Tick \/ UNCHANGED vars
  <2>1. row' = row
    BY <1>5 DEF StopBilling, Operator, EnableBilling, SetPolicy, SetStatus, RenewCycle,
                SetBalance, ClosePrice, Tick, vars
  <2>. QED BY <2>1
<1>. QED BY <1>1, <1>2, <1>3, <1>4, <1>5 DEF Next, Statement

\* Only Reserve opens a hold, and it counts the open ones first.
THEOREM ConcurrencyBounded == Spec => []OpenHoldsBounded
<1>. DEFINE Held(o) == OpenRows \cap OfOwner(o)
<1>1. ASSUME NEW o \in Owners
      PROVE  IsFiniteSet(Held(o)) /\ IsFiniteSet(Held(o))'
             /\ Cardinality(Held(o)) \in Nat /\ Cardinality(Held(o)') \in Nat
  <2>1. Held(o) \subseteq Requests /\ Held(o)' \subseteq Requests
    BY DEF OpenRows
  <2>. QED BY <2>1, BillingAssumption, FS_Subset, FS_CardinalityType
<1>2. Init => OpenHoldsBounded
  <2>. SUFFICES ASSUME Init, NEW o \in Owners PROVE Cardinality(Held(o)) <= MaxConcurrent
    BY DEF OpenHoldsBounded
  <2>1. Held(o) = {}
    BY DEF Init, NoRow, OpenRows
  <2>. QED BY <2>1, FS_EmptySet, BillingAssumption
<1>3. TypeOK /\ OpenHoldsBounded /\ [Next]_vars => OpenHoldsBounded'
  <2>. SUFFICES ASSUME TypeOK, OpenHoldsBounded, [Next]_vars, NEW o \in Owners
                PROVE  Cardinality(Held(o)') <= MaxConcurrent
    BY DEF OpenHoldsBounded
  <2>1. Cardinality(Held(o)) <= MaxConcurrent /\ MaxConcurrent \in Nat
    BY BillingAssumption DEF OpenHoldsBounded
  <2>2. CASE Held(o)' \subseteq Held(o)
    <3>1. Cardinality(Held(o)') <= Cardinality(Held(o))
      BY <1>1, <2>2, FS_Subset
    <3>. QED BY <1>1, <2>1, <3>1
  <2>3. ASSUME NEW r \in Requests, NEW p \in Prices, Reserve(r, p)
        PROVE  Cardinality(Held(o)') <= MaxConcurrent
    <3>1. \A q \in Requests \ {r} : row'[q] = row[q]
      BY <2>3 DEF Reserve, TypeOK
    <3>2. CASE OwnerOf[r] = o
      <4>1. Held(o)' \subseteq Held(o) \cup {r}
        BY <3>1 DEF OpenRows, OfOwner
      <4>2. Cardinality(Held(o)) < MaxConcurrent
        BY <2>3, <3>2 DEF Reserve, ReserveGuard, WithinLimits, HasRoom
      <4>3. r \notin Held(o)
        BY <2>3 DEF Reserve, ReserveGuard, OpenRows
      <4>4. /\ IsFiniteSet(Held(o) \cup {r})
            /\ Cardinality(Held(o) \cup {r}) = Cardinality(Held(o)) + 1
        BY <1>1, <4>3, FS_AddElement
      <4>5. Cardinality(Held(o)') <= Cardinality(Held(o) \cup {r})
        BY <4>1, <4>4, FS_Subset
      <4>6. \A a, b, c, m \in Nat : a < m /\ b = a + 1 /\ c <= b => c <= m
        OBVIOUS
      <4>7. Cardinality(Held(o) \cup {r}) \in Nat
        BY <4>4, FS_CardinalityType
      <4>. HIDE DEF Held
      <4>. QED BY <1>1, <2>1, <4>2, <4>4, <4>5, <4>6, <4>7
    <3>3. CASE OwnerOf[r] # o
      <4>1. Held(o)' \subseteq Held(o)
        BY <3>1, <3>3 DEF OpenRows, OfOwner
      <4>. QED BY <2>2, <4>1
    <3>. QED BY <3>2, <3>3
  <2>4. CASE \A r \in Requests, p \in Prices : ~Reserve(r, p)
    <3>1. \A q \in Requests : row'[q].status = "reserved" => row[q].status = "reserved"
      BY <2>4, NoOtherReserve
    <3>2. Held(o)' \subseteq Held(o)
      BY <3>1 DEF OpenRows, OfOwner
    <3>. QED BY <2>2, <3>2
  <2>. QED BY <2>3, <2>4
<1>. QED BY <1>2, <1>3, TypeCorrect, PTL DEF Spec

-----------------------------------------------------------------------------
(* Sums over finite sets: what the folds of the money properties add up to *)

\* Induction on a finite set: what fails for one of its subsets fails for a smallest one.
LEMMA SmallestFails ==
  ASSUME NEW S, IsFiniteSet(S), NEW Fails \in SUBSET (SUBSET S), Fails # {}
  PROVE  \E T \in Fails : \A U \in Fails : ~(U \subseteq T /\ U # T)
<1>. DEFINE R == StrictSubsetOrdering(S)
<1>1. IsWellFoundedOn(R, SUBSET S)
  BY FS_StrictSubsetOrderingWellFounded, FS_FiniteSubsetsOfFinite
<1>2. \A T, U \in SUBSET S : U \subseteq T /\ U # T => <<U, T>> \in R
  BY DEF StrictSubsetOrdering
<1>. HIDE DEF R
<1>3. \E T \in Fails : \A U \in Fails : <<U, T>> \notin R
  BY <1>1, WFMin
<1>. QED BY <1>2, <1>3

\* The element the library's fold takes out of a set first
Front(s) == CHOOSE x \in s : TRUE

\* i holds the sum of f over every subset of S.
Sums(i, f, S) ==
  i = [s \in SUBSET S |-> IF s = {} THEN 0 ELSE f[Front(s)] + i[s \ {Front(s)}]]

LEMMA FrontIsIn == \A s : s # {} => Front(s) \in s
  BY DEF Front

LEMMA SumsAt ==
  ASSUME NEW i, NEW f, NEW S, Sums(i, f, S), NEW s \in SUBSET S
  PROVE  i[s] = IF s = {} THEN 0 ELSE f[Front(s)] + i[s \ {Front(s)}]
<1>1. PICK j : j = [t \in SUBSET S |-> IF t = {} THEN 0 ELSE f[Front(t)] + i[t \ {Front(t)}]]
  OBVIOUS
<1>2. j[s] = IF s = {} THEN 0 ELSE f[Front(s)] + i[s \ {Front(s)}]
  BY <1>1
<1>3. i = j
  BY <1>1 DEF Sums
<1>. QED BY <1>2, <1>3

\* Functions that hold the sums of f agree where both are defined, and one exists.
LEMMA SumsAgree ==
  ASSUME NEW f, NEW S, IsFiniteSet(S), NEW T \in SUBSET S, NEW i, NEW j,
         Sums(i, f, S), Sums(j, f, T)
  PROVE  \A s \in SUBSET T : i[s] = j[s]
<1>. DEFINE Fails == {s \in SUBSET T : i[s] # j[s]}
<1>. SUFFICES ASSUME Fails # {} PROVE FALSE
  OBVIOUS
<1>1. IsFiniteSet(T)
  BY FS_Subset
<1>2. PICK s \in Fails : \A u \in Fails : ~(u \subseteq s /\ u # s)
  <2>1. Fails \in SUBSET (SUBSET T)
    OBVIOUS
  <2>. HIDE DEF Fails
  <2>. QED BY <1>1, <2>1, SmallestFails
<1>3. s \in SUBSET T /\ s \in SUBSET S /\ i[s] # j[s]
  BY <1>2
<1>4. s # {} => i[s \ {Front(s)}] = j[s \ {Front(s)}]
  BY <1>2, <1>3, FrontIsIn
<1>. QED BY <1>3, <1>4, SumsAt

LEMMA SumsExist ==
  ASSUME NEW f, NEW S, IsFiniteSet(S)
  PROVE  \E i : Sums(i, f, S)
<1>. DEFINE Fails == {T \in SUBSET S : ~\E i : Sums(i, f, T)}
<1>. SUFFICES ASSUME Fails # {} PROVE FALSE
  OBVIOUS
<1>1. PICK T \in Fails : \A U \in Fails : ~(U \subseteq T /\ U # T)
  <2>1. Fails \in SUBSET (SUBSET S)
    OBVIOUS
  <2>. HIDE DEF Fails
  <2>. QED BY <2>1, SmallestFails
<1>. DEFINE g == [U \in SUBSET T |-> CHOOSE i : Sums(i, f, U)]
            i == [s \in SUBSET T |->
                    IF s = {} THEN 0 ELSE f[Front(s)] + g[s \ {Front(s)}][s \ {Front(s)}]]
<1>2. T \in SUBSET S /\ ~\E k : Sums(k, f, T)
  BY <1>1
<1>3. ASSUME NEW U \in SUBSET T, U # T
      PROVE  Sums(g[U], f, U)
  <2>1. \E k : Sums(k, f, U)
    BY <1>1, <1>2, <1>3
  <2>2. PICK k : k = CHOOSE h : Sums(h, f, U)
    OBVIOUS
  <2>3. Sums(k, f, U)
    BY <2>1, <2>2, Zenon
  <2>4. g[U] = k
    BY <2>2
  <2>. QED BY <2>3, <2>4
<1>4. ASSUME NEW U \in SUBSET T, U # T
      PROVE  i[U] = g[U][U]
  <2>1. CASE U = {}
    <3>1. g[U][U] = 0
      BY <1>3, <1>4, <2>1, SumsAt
    <3>2. i[U] = 0
      BY <2>1
    <3>. QED BY <3>1, <3>2
  <2>2. CASE U # {}
    <3>. DEFINE V == U \ {Front(U)}
    <3>1. V \in SUBSET U /\ V # T /\ V \in SUBSET T
      BY <1>4, <2>2, FrontIsIn
    <3>2. Sums(g[U], f, U) /\ Sums(g[V], f, V) /\ IsFiniteSet(U)
      BY <1>2, <1>3, <1>4, <3>1, FS_Subset
    <3>3. g[U][V] = g[V][V]
      BY <3>1, <3>2, SumsAgree
    <3>4. g[U][U] = f[Front(U)] + g[U][V]
      BY <2>2, <3>2, SumsAt
    <3>5. i[U] = f[Front(U)] + g[V][V]
      BY <2>2
    <3>. HIDE DEF i, g, V
    <3>. QED BY <3>3, <3>4, <3>5
  <2>. QED BY <2>1, <2>2
<1>. HIDE DEF Fails
<1>5. i = [s \in SUBSET T |-> IF s = {} THEN 0 ELSE f[Front(s)] + i[s \ {Front(s)}]]
  <2>1. ASSUME NEW s \in SUBSET T, s # {}
        PROVE  i[s \ {Front(s)}] = g[s \ {Front(s)}][s \ {Front(s)}]
    <3>. HIDE DEF i, g
    <3>. QED BY <1>4, <2>1, FrontIsIn
  <2>2. PICK h : h = g
    OBVIOUS
  <2>3. i = [s \in SUBSET T |->
               IF s = {} THEN 0 ELSE f[Front(s)] + h[s \ {Front(s)}][s \ {Front(s)}]]
    BY <2>2
  <2>4. \A s \in SUBSET T : s # {} => i[s \ {Front(s)}] = h[s \ {Front(s)}][s \ {Front(s)}]
    BY <2>1, <2>2
  <2>. HIDE DEF i, g
  <2>. QED BY <2>3, <2>4
<1>. QED BY <1>2, <1>5 DEF Sums

\* The library's fold is that function's value at the whole set.
LEMMA SumIs ==
  ASSUME NEW f, NEW S, IsFiniteSet(S)
  PROVE  \E i : Sums(i, f, S) /\ SumOver(f, S) = i[S]
<1>1. PICK i : i = CHOOSE j : Sums(j, f, S)
  OBVIOUS
<1>2. Sums(i, f, S)
  BY <1>1, SumsExist, Zenon
<1>3. SumOver(f, S) = i[S]
  BY <1>1 DEF SumOver, SumFunctionOnSet, FoldFunctionOnSet, MapThenFoldSet, Sums, Front
<1>. QED BY <1>2, <1>3

LEMMA SumEmpty == ASSUME NEW f PROVE SumOver(f, {}) = 0
  BY SumIs, SumsAt, FS_EmptySet

LEMMA SumFront ==
  ASSUME NEW f, NEW S, IsFiniteSet(S), S # {}
  PROVE  SumOver(f, S) = f[Front(S)] + SumOver(f, S \ {Front(S)})
<1>. DEFINE T == S \ {Front(S)}
<1>1. PICK i : Sums(i, f, S) /\ SumOver(f, S) = i[S]
  BY SumIs
<1>2. IsFiniteSet(T)
  BY FS_Subset
<1>3. PICK j : Sums(j, f, T) /\ SumOver(f, T) = j[T]
  BY <1>2, SumIs
<1>4. i[T] = j[T]
  BY <1>1, <1>3, SumsAgree
<1>5. i[S] = f[Front(S)] + i[T]
  BY <1>1, SumsAt
<1>. QED BY <1>1, <1>3, <1>4, <1>5

IntsOn(f, S) == \A x \in S : f[x] \in Int

\* A sum of integers is one.
LEMMA SumInt ==
  ASSUME NEW f, NEW S, IsFiniteSet(S), IntsOn(f, S)
  PROVE  SumOver(f, S) \in Int
<1>. DEFINE Fails == {T \in SUBSET S : SumOver(f, T) \notin Int}
<1>. SUFFICES ASSUME Fails # {} PROVE FALSE
  OBVIOUS
<1>1. PICK T \in Fails : \A U \in Fails : ~(U \subseteq T /\ U # T)
  <2>1. Fails \in SUBSET (SUBSET S)
    OBVIOUS
  <2>. HIDE DEF Fails
  <2>. QED BY <2>1, SmallestFails
<1>2. T \in SUBSET S /\ IsFiniteSet(T) /\ SumOver(f, T) \notin Int
  BY <1>1, FS_Subset
<1>3. T # {}
  BY <1>2, SumEmpty
<1>4. Front(T) \in T /\ SumOver(f, T \ {Front(T)}) \in Int
  BY <1>1, <1>2, <1>3, FrontIsIn
<1>5. f[Front(T)] \in Int
  BY <1>2, <1>4 DEF IntsOn
<1>. QED BY <1>2, <1>3, <1>4, <1>5, SumFront

\* Any element may be taken out first.
LEMMA SumWithout ==
  ASSUME NEW f, NEW S, IsFiniteSet(S), IntsOn(f, S)
  PROVE  \A x \in S : SumOver(f, S) = f[x] + SumOver(f, S \ {x})
<1>. DEFINE Holds(T) == \A x \in T : SumOver(f, T) = f[x] + SumOver(f, T \ {x})
            Fails == {T \in SUBSET S : ~Holds(T)}
<1>. SUFFICES ASSUME Fails # {} PROVE FALSE
  OBVIOUS
<1>1. PICK T \in Fails : \A U \in Fails : ~(U \subseteq T /\ U # T)
  <2>1. Fails \in SUBSET (SUBSET S)
    OBVIOUS
  <2>. HIDE DEF Fails
  <2>. QED BY <2>1, SmallestFails
<1>2. PICK x \in T : T \in SUBSET S /\ SumOver(f, T) # f[x] + SumOver(f, T \ {x})
  BY <1>1
<1>. DEFINE p == Front(T)
<1>3. p \in T /\ p # x /\ SumOver(f, T) = f[p] + SumOver(f, T \ {p})
  <2>1. IsFiniteSet(T) /\ T # {}
    BY <1>2, FS_Subset
  <2>. QED BY <1>2, <2>1, FrontIsIn, SumFront
<1>4. SumOver(f, T \ {p}) = f[x] + SumOver(f, (T \ {p}) \ {x})
  BY <1>1, <1>2, <1>3
<1>5. SumOver(f, T \ {x}) = f[p] + SumOver(f, (T \ {p}) \ {x})
  <2>1. (T \ {x}) \ {p} = (T \ {p}) \ {x}
    OBVIOUS
  <2>2. SumOver(f, T \ {x}) = f[p] + SumOver(f, (T \ {x}) \ {p})
    BY <1>1, <1>2, <1>3
  <2>. QED BY <2>1, <2>2
<1>6. SumOver(f, (T \ {p}) \ {x}) \in Int
  <2>. DEFINE U == (T \ {p}) \ {x}
  <2>. SUFFICES SumOver(f, U) \in Int
    OBVIOUS
  <2>1. U \in SUBSET S
    BY <1>2
  <2>. HIDE DEF U
  <2>2. IsFiniteSet(U)
    BY <2>1, FS_Subset
  <2>3. IntsOn(f, U)
    BY <2>1 DEF IntsOn
  <2>. QED BY <2>2, <2>3, SumInt
<1>7. f[p] \in Int /\ f[x] \in Int
  BY <1>2, <1>3 DEF IntsOn
<1>. HIDE DEF Fails, Holds, p
<1>. QED BY <1>2, <1>3, <1>4, <1>5, <1>6, <1>7

\* The sum of a union of disjoint sets
LEMMA SumUnion ==
  ASSUME NEW f, NEW S, NEW T, IsFiniteSet(S), IsFiniteSet(T), S \cap T = {}, IntsOn(f, S \cup T)
  PROVE  SumOver(f, S \cup T) = SumOver(f, S) + SumOver(f, T)
<1>. DEFINE Fails == {U \in SUBSET S : SumOver(f, U \cup T) # SumOver(f, U) + SumOver(f, T)}
<1>. SUFFICES ASSUME Fails # {} PROVE FALSE
  OBVIOUS
<1>1. PICK U \in Fails : \A V \in Fails : ~(V \subseteq U /\ V # U)
  <2>1. Fails \in SUBSET (SUBSET S)
    OBVIOUS
  <2>. HIDE DEF Fails
  <2>. QED BY <2>1, SmallestFails
<1>2. U \in SUBSET S /\ SumOver(f, U \cup T) # SumOver(f, U) + SumOver(f, T)
  BY <1>1
<1>3. SumOver(f, T) \in Int
  BY SumInt DEF IntsOn
<1>4. U # {}
  <2>. SUFFICES ASSUME U = {} PROVE FALSE
    OBVIOUS
  <2>1. SumOver(f, U) = 0 /\ U \cup T = T
    BY SumEmpty
  <2>. HIDE DEF Fails
  <2>. QED BY <1>2, <1>3, <2>1
<1>5. PICK x \in U : TRUE
  BY <1>4
<1>6. IsFiniteSet(U) /\ IsFiniteSet(U \cup T) /\ IsFiniteSet(U \ {x})
  BY <1>2, FS_Subset, FS_Union
<1>7. SumOver(f, U) = f[x] + SumOver(f, U \ {x})
  BY <1>2, <1>5, <1>6, SumWithout DEF IntsOn
<1>8. SumOver(f, U \cup T) = f[x] + SumOver(f, (U \ {x}) \cup T)
  <2>1. (U \cup T) \ {x} = (U \ {x}) \cup T
    BY <1>2, <1>5
  <2>2. IntsOn(f, U \cup T)
    BY <1>2 DEF IntsOn
  <2>. QED BY <1>5, <1>6, <2>1, <2>2, SumWithout
<1>9. SumOver(f, (U \ {x}) \cup T) = SumOver(f, U \ {x}) + SumOver(f, T)
  BY <1>1, <1>2, <1>5
<1>10. f[x] \in Int /\ SumOver(f, U \ {x}) \in Int
  BY <1>2, <1>5, <1>6, SumInt DEF IntsOn
<1>. HIDE DEF Fails
<1>. QED BY <1>2, <1>3, <1>7, <1>8, <1>9, <1>10

\* One more element adds its value.
LEMMA SumWith ==
  ASSUME NEW f, NEW S, IsFiniteSet(S), NEW x, x \notin S, IntsOn(f, S \cup {x})
  PROVE  SumOver(f, S \cup {x}) = SumOver(f, S) + f[x]
<1>1. IsFiniteSet(S \cup {x}) /\ (S \cup {x}) \ {x} = S
  BY FS_AddElement
<1>2. SumOver(f, S) \in Int /\ f[x] \in Int
  BY SumInt DEF IntsOn
<1>. QED BY <1>1, <1>2, SumWithout

\* Sums of functions that are above one another on S, or the same
LEMMA SumBelow ==
  ASSUME NEW f, NEW g, NEW S, IsFiniteSet(S), IntsOn(f, S), IntsOn(g, S),
         \A x \in S : f[x] <= g[x]
  PROVE  SumOver(f, S) <= SumOver(g, S)
<1>. DEFINE Fails == {T \in SUBSET S : ~(SumOver(f, T) <= SumOver(g, T))}
<1>. SUFFICES ASSUME Fails # {} PROVE FALSE
  OBVIOUS
<1>1. PICK T \in Fails : \A U \in Fails : ~(U \subseteq T /\ U # T)
  <2>1. Fails \in SUBSET (SUBSET S)
    OBVIOUS
  <2>. HIDE DEF Fails
  <2>. QED BY <2>1, SmallestFails
<1>2. T \in SUBSET S /\ ~(SumOver(f, T) <= SumOver(g, T))
  BY <1>1
<1>3. T # {}
  BY <1>2, SumEmpty
<1>4. PICK x \in T : TRUE
  BY <1>3
<1>5. IsFiniteSet(T) /\ IsFiniteSet(T \ {x})
  BY <1>2, FS_Subset
<1>6. SumOver(f, T) = f[x] + SumOver(f, T \ {x}) /\ SumOver(g, T) = g[x] + SumOver(g, T \ {x})
  BY <1>2, <1>5, SumWithout DEF IntsOn
<1>7. SumOver(f, T \ {x}) <= SumOver(g, T \ {x})
  BY <1>1, <1>2, <1>4
<1>8. /\ f[x] \in Int /\ g[x] \in Int /\ f[x] <= g[x]
      /\ SumOver(f, T \ {x}) \in Int /\ SumOver(g, T \ {x}) \in Int
  BY <1>2, <1>4, <1>5, SumInt DEF IntsOn
<1>. HIDE DEF Fails
<1>. QED BY <1>2, <1>6, <1>7, <1>8

LEMMA SumSame ==
  ASSUME NEW f, NEW g, NEW S, IsFiniteSet(S), IntsOn(f, S), \A x \in S : f[x] = g[x]
  PROVE  SumOver(f, S) = SumOver(g, S)
<1>1. IntsOn(g, S)
  BY DEF IntsOn
<1>2. SumOver(f, S) <= SumOver(g, S) /\ SumOver(g, S) <= SumOver(f, S)
  BY <1>1, SumBelow DEF IntsOn
<1>3. SumOver(f, S) \in Int /\ SumOver(g, S) \in Int
  BY <1>1, SumInt
<1>. QED BY <1>2, <1>3

\* A sum of naturals is at least each of them.
LEMMA SumNat ==
  ASSUME NEW f, NEW S, IsFiniteSet(S), \A x \in S : f[x] \in Nat
  PROVE  SumOver(f, S) \in Nat /\ \A x \in S : f[x] <= SumOver(f, S)
<1>1. ASSUME NEW T \in SUBSET S
      PROVE  SumOver(f, T) \in Nat
  <2>. DEFINE Fails == {U \in SUBSET T : SumOver(f, U) \notin Nat}
  <2>1. IsFiniteSet(T)
    BY FS_Subset
  <2>. SUFFICES ASSUME Fails # {} PROVE FALSE
    OBVIOUS
  <2>2. PICK U \in Fails : \A V \in Fails : ~(V \subseteq U /\ V # U)
    <3>1. Fails \in SUBSET (SUBSET T)
      OBVIOUS
    <3>. HIDE DEF Fails
    <3>. QED BY <2>1, <3>1, SmallestFails
  <2>3. U \in SUBSET T /\ SumOver(f, U) \notin Nat
    BY <2>2
  <2>4. U # {}
    BY <2>3, SumEmpty
  <2>5. PICK x \in U : TRUE
    BY <2>4
  <2>6. SumOver(f, U) = f[x] + SumOver(f, U \ {x})
    BY <2>1, <2>3, FS_Subset, SumWithout DEF IntsOn
  <2>7. SumOver(f, U \ {x}) \in Nat /\ f[x] \in Nat
    BY <2>2, <2>3, <2>5
  <2>. QED BY <2>3, <2>6, <2>7
<1>2. ASSUME NEW x \in S
      PROVE  f[x] <= SumOver(f, S)
  <2>1. SumOver(f, S) = f[x] + SumOver(f, S \ {x})
    BY SumWithout DEF IntsOn
  <2>2. SumOver(f, S \ {x}) \in Nat
    BY <1>1
  <2>. QED BY <2>1, <2>2
<1>. QED BY <1>1, <1>2

\* The sum over a part is at most the sum over the whole.
LEMMA SumPart ==
  ASSUME NEW f, NEW S, IsFiniteSet(S), \A x \in S : f[x] \in Nat, NEW T \in SUBSET S
  PROVE  SumOver(f, T) \in Nat /\ SumOver(f, T) <= SumOver(f, S)
<1>. DEFINE R == S \ T
<1>1. IsFiniteSet(T) /\ IsFiniteSet(R) /\ T \cup R = S /\ T \cap R = {}
  BY FS_Subset
<1>2. (\A x \in T : f[x] \in Nat) /\ (\A x \in R : f[x] \in Nat) /\ IntsOn(f, T \cup R)
  BY <1>1 DEF IntsOn
<1>. HIDE DEF R
<1>3. SumOver(f, T) \in Nat /\ SumOver(f, R) \in Nat
  BY <1>1, <1>2, SumNat
<1>4. SumOver(f, T \cup R) = SumOver(f, T) + SumOver(f, R)
  BY <1>1, <1>2, SumUnion
<1>5. SumOver(f, T \cup R) = SumOver(f, S)
  BY <1>1
<1>6. \A a, b \in Nat : a <= a + b
  OBVIOUS
<1>. QED BY <1>3, <1>4, <1>5, <1>6

\* Sums add pointwise; a sum of zeros is zero.
LEMMA SumPlus ==
  ASSUME NEW f, NEW g, NEW h, NEW S, IsFiniteSet(S), IntsOn(f, S), IntsOn(g, S),
         \A x \in S : h[x] = f[x] + g[x]
  PROVE  SumOver(h, S) = SumOver(f, S) + SumOver(g, S)
<1>. DEFINE Fails == {T \in SUBSET S : SumOver(h, T) # SumOver(f, T) + SumOver(g, T)}
<1>. SUFFICES ASSUME Fails # {} PROVE FALSE
  OBVIOUS
<1>1. PICK T \in Fails : \A U \in Fails : ~(U \subseteq T /\ U # T)
  <2>1. Fails \in SUBSET (SUBSET S)
    OBVIOUS
  <2>. HIDE DEF Fails
  <2>. QED BY <2>1, SmallestFails
<1>2. T \in SUBSET S /\ SumOver(h, T) # SumOver(f, T) + SumOver(g, T)
  BY <1>1
<1>3. T # {}
  BY <1>2, SumEmpty
<1>4. PICK x \in T : TRUE
  BY <1>3
<1>5. IsFiniteSet(T) /\ IsFiniteSet(T \ {x})
  BY <1>2, FS_Subset
<1>6. IntsOn(h, S)
  BY DEF IntsOn
<1>7. /\ SumOver(f, T) = f[x] + SumOver(f, T \ {x})
      /\ SumOver(g, T) = g[x] + SumOver(g, T \ {x})
      /\ SumOver(h, T) = h[x] + SumOver(h, T \ {x})
  BY <1>2, <1>5, <1>6, SumWithout DEF IntsOn
<1>8. SumOver(h, T \ {x}) = SumOver(f, T \ {x}) + SumOver(g, T \ {x})
  BY <1>1, <1>2, <1>4
<1>9. /\ f[x] \in Int /\ g[x] \in Int /\ h[x] = f[x] + g[x]
      /\ SumOver(f, T \ {x}) \in Int /\ SumOver(g, T \ {x}) \in Int
  BY <1>2, <1>4, <1>5, SumInt DEF IntsOn
<1>. HIDE DEF Fails
<1>. QED BY <1>2, <1>7, <1>8, <1>9

LEMMA SumZero ==
  ASSUME NEW f, NEW S, IsFiniteSet(S), \A x \in S : f[x] = 0
  PROVE  SumOver(f, S) = 0
<1>1. IntsOn(f, S)
  BY DEF IntsOn
<1>2. SumOver(f, S) \in Int /\ SumOver(f, S) = SumOver(f, S) + SumOver(f, S)
  BY <1>1, SumInt, SumPlus
<1>3. \A n \in Int : n = n + n => n = 0
  OBVIOUS
<1>. QED BY <1>2, <1>3

\* What a function is outside T does not matter where it is zero there.
LEMMA SumWhere ==
  ASSUME NEW f, NEW g, NEW S, IsFiniteSet(S), NEW T, IntsOn(g, S \cap T),
         \A x \in S : f[x] = IF x \in T THEN g[x] ELSE 0
  PROVE  SumOver(f, S) = SumOver(g, S \cap T)
<1>1. /\ IsFiniteSet(S \cap T) /\ IsFiniteSet(S \ T) /\ (S \cap T) \cup (S \ T) = S
      /\ (S \cap T) \cap (S \ T) = {} /\ IntsOn(f, S) /\ IntsOn(f, S \cap T)
  BY FS_Subset DEF IntsOn
<1>2. SumOver(f, (S \cap T) \cup (S \ T)) = SumOver(f, S \cap T) + SumOver(f, S \ T)
  BY <1>1, SumUnion
<1>3. SumOver(f, S \cap T) = SumOver(g, S \cap T) /\ SumOver(f, S \ T) = 0
  BY <1>1, SumSame, SumZero
<1>4. SumOver(g, S \cap T) \in Int
  BY <1>1, SumInt
<1>. QED BY <1>1, <1>2, <1>3, <1>4

\* Changing one value moves the sum by the difference.
LEMMA SumChange ==
  ASSUME NEW f, NEW g, NEW S, IsFiniteSet(S), NEW x \in S, IntsOn(f, S), IntsOn(g, S),
         \A y \in S \ {x} : g[y] = f[y]
  PROVE  SumOver(g, S) = SumOver(f, S) + g[x] - f[x]
<1>1. IsFiniteSet(S \ {x}) /\ IntsOn(f, S \ {x})
  BY FS_Subset DEF IntsOn
<1>2. SumOver(f, S) = f[x] + SumOver(f, S \ {x}) /\ SumOver(g, S) = g[x] + SumOver(g, S \ {x})
  BY SumWithout
<1>3. SumOver(f, S \ {x}) = SumOver(g, S \ {x}) /\ SumOver(f, S \ {x}) \in Int
  BY <1>1, SumSame, SumInt
<1>4. f[x] \in Int /\ g[x] \in Int
  BY DEF IntsOn
<1>. QED BY <1>2, <1>3, <1>4

-----------------------------------------------------------------------------
(* Money: what is set aside, what is left, and the ledger's replay of both *)

\* A statement about r leaves the other rows and the other accounts alone.
OthersStay(r) ==
  /\ \A q \in Requests \ {r} : row'[q] = row[q]
  /\ \A o \in Owners \ {OwnerOf[r]} : account'[o] = account[o]
  /\ funded' = funded

MoneyStays(o) ==
  /\ account'[o].included = account[o].included
  /\ account'[o].prepaid = account[o].prepaid

\* How each kind of step moves money between the rows and the accounts.
Holds(r, n) ==
  /\ row[r].status = "absent" /\ row'[r].status = "reserved"
  /\ row'[r].estCredits = n /\ row'[r].actCredits = 0
  /\ account'[OwnerOf[r]].reserved = account[OwnerOf[r]].reserved + n
  /\ MoneyStays(OwnerOf[r]) /\ OthersStay(r)

Closes(r, n) ==
  /\ row[r].status = "reserved" /\ row'[r].status \in {"settled", "released"}
  /\ row'[r].estCredits = row[r].estCredits /\ row'[r].actCredits = n
  /\ account'[OwnerOf[r]].included + account'[OwnerOf[r]].prepaid
       = account[OwnerOf[r]].included + account[OwnerOf[r]].prepaid - n
  /\ account'[OwnerOf[r]].reserved = account[OwnerOf[r]].reserved - row[r].estCredits
  /\ OthersStay(r)

Frees(S) ==
  /\ \A r \in S : /\ row[r].status = "reserved" /\ row'[r].status = "released"
                 /\ row'[r].estCredits = row[r].estCredits /\ row'[r].actCredits = 0
  /\ \A q \in Requests \ S : row'[q] = row[q]
  /\ \A o \in Owners :
       /\ account'[o].reserved = account[o].reserved - SumOver(Estimates, S \cap OfOwner(o))
       /\ MoneyStays(o)
  /\ funded' = funded

Quiet ==
  /\ \A q \in Requests : /\ row'[q].status = row[q].status
                        /\ row'[q].estCredits = row[q].estCredits
                        /\ row'[q].actCredits = row[q].actCredits
  /\ \A o \in Owners :
       /\ account'[o].reserved = account[o].reserved
       /\ account'[o].included + account'[o].prepaid - funded'[o]
            = account[o].included + account[o].prepaid - funded[o]

LEMMA AccountFields ==
  ASSUME TypeOK, NEW o \in Owners
  PROVE  /\ account[o] \in Account /\ account[o].included \in Nat /\ account[o].prepaid \in Nat
         /\ account[o].reserved \in Nat /\ account[o].cycleStart \in Nat /\ funded[o] \in Int
         /\ account[o].reserved <= account[o].included + account[o].prepaid
  BY DEF TypeOK, Account, AccountGuard

LEMMA ReserveMoney ==
  ASSUME TypeOK, NEW r \in Requests, NEW p \in Prices, Reserve(r, p)
  PROVE  Holds(r, EstimatedCredits(p))
<1>1. OwnerOf[r] \in Owners
  BY BillingAssumption
<1>2. /\ account'[OwnerOf[r]] = [account[OwnerOf[r]] EXCEPT !.reserved = @ + EstimatedCredits(p)]
      /\ \A o \in Owners \ {OwnerOf[r]} : account'[o] = account[o]
  BY <1>1 DEF Reserve, TypeOK
<1>3. account'[OwnerOf[r]].reserved = account[OwnerOf[r]].reserved + EstimatedCredits(p)
      /\ MoneyStays(OwnerOf[r])
  BY <1>1, <1>2, AccountFields DEF Account, MoneyStays
<1>4. /\ row[r].status = "absent" /\ row'[r].status = "reserved"
      /\ row'[r].estCredits = EstimatedCredits(p) /\ row'[r].actCredits = 0
      /\ \A q \in Requests \ {r} : row'[q] = row[q]
      /\ funded' = funded
  BY DEF Reserve, ReserveGuard, TypeOK
<1>. QED BY <1>2, <1>3, <1>4 DEF Holds, OthersStay

LEMMA FinishedMoney ==
  ASSUME NEW acct \in Account, NEW spent \in Nat, NEW held \in Nat
  PROVE  LET paid == FinishedAccount(acct, spent, held) IN
         /\ paid.included + paid.prepaid = acct.included + acct.prepaid - spent
         /\ paid.reserved = acct.reserved - held
         /\ paid.cycleStart = acct.cycleStart
<1>1. /\ FinishedAccount(acct, spent, held).included = Larger(0, acct.included - spent)
      /\ FinishedAccount(acct, spent, held).prepaid
           = acct.prepaid - Larger(0, spent - acct.included)
      /\ FinishedAccount(acct, spent, held).reserved = acct.reserved - held
      /\ FinishedAccount(acct, spent, held).cycleStart = acct.cycleStart
  BY DEF FinishedAccount, Account
<1>2. acct.included \in Nat /\ acct.prepaid \in Nat
  BY DEF Account
<1>. QED BY <1>1, <1>2 DEF Larger

LEMMA CloseMoney ==
  ASSUME TypeOK, NEW r \in Requests, row[r].status = "reserved",
         NEW status \in {"settled", "released"}, NEW spent \in Nat, NEW cost,
         row' = [row EXCEPT ![r] = ClosedRow(r, status, spent, cost)],
         account' = [account EXCEPT ![OwnerOf[r]] =
           FinishedAccount(account[OwnerOf[r]], spent, row[r].estCredits)],
         funded' = funded
  PROVE  Closes(r, spent)
<1>1. OwnerOf[r] \in Owners /\ row[r].estCredits \in Nat
  BY BillingAssumption DEF TypeOK, Row
<1>2. /\ account'[OwnerOf[r]] = FinishedAccount(account[OwnerOf[r]], spent, row[r].estCredits)
      /\ \A o \in Owners \ {OwnerOf[r]} : account'[o] = account[o]
      /\ row'[r] = ClosedRow(r, status, spent, cost)
      /\ \A q \in Requests \ {r} : row'[q] = row[q]
  BY <1>1 DEF TypeOK
<1>. QED BY <1>1, <1>2, AccountFields, FinishedMoney, ClosedFields DEF Closes, OthersStay

LEMMA SettleSpent ==
  ASSUME TypeOK, NEW r \in Requests, NEW input \in 0 .. MaxInput,
         NEW output \in 0 .. MaxOutput, Settle(r, input, output)
  PROVE  \E n \in 0 .. row[r].estCredits : Closes(r, n)
<1>. DEFINE cost == CostOf(row[r].price, input, output)
            credits == CreditsOf(row[r].price, cost)
<1>1. row[r].price \in Prices /\ row[r].estCredits \in Nat
  BY DEF TypeOK, Row
<1>2. credits \in Nat
  BY <1>1, CostNat, CreditsNat
<1>3. /\ row[r].status = "reserved" /\ credits <= row[r].estCredits
      /\ row' = [row EXCEPT ![r] = ClosedRow(r, "settled", credits, cost)]
      /\ account' = [account EXCEPT ![OwnerOf[r]] =
           FinishedAccount(account[OwnerOf[r]], credits, row[r].estCredits)]
      /\ funded' = funded
  BY DEF Settle, SettleMatches, Dispatched, OpenRows, WithinEstimate
<1>. HIDE DEF credits, cost
<1>4. Closes(r, credits)
  BY <1>2, <1>3, CloseMoney
<1>. QED BY <1>1, <1>2, <1>3, <1>4

LEMMA ReleaseSpent ==
  ASSUME TypeOK, NEW r \in Requests, NEW confirmed, Release(r, confirmed)
  PROVE  Closes(r, 0)
  BY CloseMoney DEF Release, ReleaseMatches

LEMMA ExpireMoney ==
  ASSUME TypeOK, ExpireUndispatched
  PROVE  \E S \in SUBSET OpenRows : Frees(S)
<1>1. PICK S \in SUBSET Expired :
        /\ row' = [r \in Requests |->
             IF r \in S THEN ClosedRow(r, "released", 0, 0) ELSE row[r]]
        /\ account' = [o \in Owners |-> FreedBy(S, o)]
        /\ funded' = funded
  BY DEF ExpireUndispatched
<1>2. S \in SUBSET OpenRows /\ S \subseteq Requests
  BY DEF Expired, OpenRows
<1>3. \A r \in S : row'[r] = ClosedRow(r, "released", 0, 0) /\ row[r].status = "reserved"
  BY <1>1, <1>2 DEF OpenRows
<1>4. ASSUME NEW o \in Owners
      PROVE  /\ account'[o].reserved = account[o].reserved - SumOver(Estimates, S \cap OfOwner(o))
             /\ MoneyStays(o)
  <2>1. PICK n : n = SumOver(Estimates, S \cap OfOwner(o))
    OBVIOUS
  <2>2. account'[o] = [account[o] EXCEPT !.reserved = @ - n]
    BY <1>1, <2>1 DEF FreedBy
  <2>. QED BY <2>1, <2>2, AccountFields DEF Account, MoneyStays
<1>5. \A q \in Requests \ S : row'[q] = row[q]
  BY <1>1
<1>6. ASSUME NEW r \in S
      PROVE  /\ row[r].status = "reserved" /\ row'[r].status = "released"
             /\ row'[r].estCredits = row[r].estCredits /\ row'[r].actCredits = 0
  <2>1. r \in Requests
    BY <1>2
  <2>. QED BY <1>3, <2>1, ClosedFields
<1>7. Frees(S)
  BY <1>1, <1>4, <1>5, <1>6 DEF Frees
<1>. QED BY <1>2, <1>7

LEMMA QuietSteps ==
  ASSUME TypeOK, [Next]_vars, \A r \in Requests : \A p \in Prices : ~Reserve(r, p),
         \A r \in Requests : \A input \in 0 .. MaxInput, output \in 0 .. MaxOutput :
           ~Settle(r, input, output),
         \A r \in Requests : \A confirmed \in BOOLEAN : ~Release(r, confirmed),
         ~ExpireUndispatched
  PROVE  Quiet
<1>1. ASSUME row' = row, account' = account, funded' = funded
      PROVE  Quiet
  BY <1>1 DEF Quiet
<1>2. ASSUME NEW r \in Requests, BeginDispatch(r) \/ MarkUnknown(r)
      PROVE  Quiet
  <2>1. PICK state : row' = [row EXCEPT ![r].provider = state]
    BY <1>2 DEF BeginDispatch, MarkUnknown
  <2>2. account' = account /\ funded' = funded
    BY <1>2 DEF BeginDispatch, MarkUnknown
  <2>3. \A q \in Requests : /\ row'[q].status = row[q].status
                            /\ row'[q].estCredits = row[q].estCredits
                            /\ row'[q].actCredits = row[q].actCredits
    BY <2>1 DEF Row, TypeOK
  <2>. QED BY <2>2, <2>3 DEF Quiet
<1>3. ASSUME NEW o \in Owners, NEW status \in AccountStatuses, SetStatus(o, status)
      PROVE  Quiet
  BY <1>3 DEF SetStatus, Quiet, TypeOK, Account
<1>4. ASSUME NEW o \in Owners, RenewCycle(o)
      PROVE  Quiet
  BY <1>4 DEF RenewCycle, Quiet, TypeOK, Account
<1>5. ASSUME NEW o \in Owners, NEW included \in Balances, NEW prepaid \in Balances,
             SetBalance(o, included, prepaid)
      PROVE  Quiet
  <2>1. included \in Nat /\ prepaid \in Nat
    <3>1. included \in 0 .. MaxMoney /\ prepaid \in 0 .. MaxMoney /\ MaxMoney \in Nat
      BY BillingAssumption
    <3>. QED BY <3>1
  <2>2. /\ account'[o].included = included /\ account'[o].prepaid = prepaid
        /\ account'[o].reserved = account[o].reserved
        /\ funded'[o] = funded[o] + (included + prepaid)
             - (account[o].included + account[o].prepaid)
        /\ row' = row
        /\ \A q \in Owners \ {o} : account'[q] = account[q] /\ funded'[q] = funded[q]
    BY <1>5 DEF SetBalance, TypeOK, Account
  <2>3. account'[o].included + account'[o].prepaid - funded'[o]
          = account[o].included + account[o].prepaid - funded[o]
    BY <2>1, <2>2, AccountFields
  <2>. QED BY <2>2, <2>3 DEF Quiet
<1>. QED BY <1>1, <1>2, <1>3, <1>4, <1>5
     DEF Next, Statement, Operator, StopBilling, EnableBilling, SetPolicy, ClosePrice, Tick, vars

LEMMA MoneyEffect ==
  ASSUME TypeOK, [Next]_vars
  PROVE  \/ Quiet
         \/ \E r \in Requests : \E n \in Nat : Holds(r, n)
         \/ \E r \in Requests : \E n \in 0 .. row[r].estCredits : Closes(r, n)
         \/ \E S \in SUBSET OpenRows : Frees(S)
<1>1. \A r \in Requests : 0 \in 0 .. row[r].estCredits
  BY DEF TypeOK, Row
<1>2. \A p \in Prices : EstimatedCredits(p) \in Nat
  BY EstimateNat
<1>. QED BY <1>1, <1>2, QuietSteps, ReserveMoney, SettleSpent, ReleaseSpent, ExpireMoney

LEMMA HeldSets ==
  ASSUME TypeOK, NEW o
  PROVE  /\ IsFiniteSet(OfOwner(o)) /\ IsFiniteSet(OpenRows) /\ OpenRows \subseteq Requests
         /\ IsFiniteSet(OpenRows \cap OfOwner(o))
         /\ \A S : IntsOn(Estimates, OpenRows \cap S) /\ IntsOn(Estimates, OfOwner(o))
         /\ \A r \in Requests : Estimates[r] = row[r].estCredits /\ Estimates[r] \in Nat
<1>1. OfOwner(o) \subseteq Requests /\ OpenRows \subseteq Requests
  BY DEF OfOwner, OpenRows
<1>2. \A r \in Requests : Estimates[r] = row[r].estCredits /\ Estimates[r] \in Nat
  BY DEF Estimates, TypeOK, Row
<1>3. IsFiniteSet(OfOwner(o)) /\ IsFiniteSet(OpenRows) /\ IsFiniteSet(OpenRows \cap OfOwner(o))
  BY <1>1, BillingAssumption, FS_Subset
<1>. QED BY <1>1, <1>2, <1>3 DEF IntsOn

\* The same rows open with the same estimates hold the same credits.
LEMMA SameHeld ==
  ASSUME TypeOK, NEW o \in Owners,
         \A q \in OfOwner(o) : row'[q].status = row[q].status
                               /\ row'[q].estCredits = row[q].estCredits
  PROVE  OpenCredits(o)' = OpenCredits(o)
<1>. DEFINE D == OpenRows \cap OfOwner(o)
<1>1. OpenRows' \cap OfOwner(o) = D
  BY DEF OpenRows, OfOwner
<1>2. IsFiniteSet(D) /\ IntsOn(Estimates, D)
  BY HeldSets
<1>3. \A x \in D : Estimates[x] = Estimates'[x]
  BY DEF Estimates, OpenRows, OfOwner
<1>. HIDE DEF D
<1>4. SumOver(Estimates, D) = SumOver(Estimates', D)
  BY <1>2, <1>3, SumSame
<1>. QED BY <1>1, <1>4 DEF OpenCredits, D

\* Closing the open rows S frees their estimates.
LEMMA FewerHeld ==
  ASSUME TypeOK, NEW o \in Owners, NEW S \in SUBSET OpenRows,
         \A q \in S : row'[q].status # "reserved",
         \A q \in Requests \ S : row'[q] = row[q]
  PROVE  OpenCredits(o)' = OpenCredits(o) - SumOver(Estimates, S \cap OfOwner(o))
<1>. DEFINE D == OpenRows' \cap OfOwner(o)
            G == S \cap OfOwner(o)
<1>1. OpenRows \cap OfOwner(o) = D \cup G /\ D \cap G = {}
  BY DEF OpenRows, OfOwner
<1>2. D \subseteq OpenRows \cap OfOwner(o) /\ G \subseteq OpenRows \cap OfOwner(o)
  BY <1>1
<1>3. IsFiniteSet(D) /\ IsFiniteSet(G) /\ IntsOn(Estimates, D \cup G)
  BY <1>1, <1>2, HeldSets, FS_Subset
<1>4. \A x \in D : Estimates[x] = Estimates'[x]
  BY DEF Estimates, OpenRows, OfOwner
<1>5. OpenCredits(o)' = SumOver(Estimates', D)
  BY DEF OpenCredits, OfOwner
<1>6. OpenCredits(o) = SumOver(Estimates, D \cup G)
  BY <1>1 DEF OpenCredits
<1>. HIDE DEF D
<1>7. SUFFICES ASSUME NEW F, F = G
               PROVE  OpenCredits(o)' = OpenCredits(o) - SumOver(Estimates, F)
  OBVIOUS
<1>8. D \cap F = {} /\ IsFiniteSet(F) /\ IntsOn(Estimates, D \cup F) /\ IntsOn(Estimates, D)
      /\ IntsOn(Estimates, F) /\ OpenCredits(o) = SumOver(Estimates, D \cup F)
  BY <1>1, <1>3, <1>6, <1>7 DEF IntsOn
<1>9. SumOver(Estimates, D \cup F) = SumOver(Estimates, D) + SumOver(Estimates, F)
  BY <1>3, <1>8, SumUnion
<1>10. SumOver(Estimates, D) = SumOver(Estimates', D)
  BY <1>3, <1>4, <1>8, SumSame
<1>11. SumOver(Estimates, D) \in Int /\ SumOver(Estimates, F) \in Int
  BY <1>3, <1>8, SumInt
<1>. QED BY <1>5, <1>8, <1>9, <1>10, <1>11

\* Opening r adds its estimate.
LEMMA OneMoreHeld ==
  ASSUME TypeOK, NEW r \in Requests, NEW n \in Nat, row[r].status # "reserved",
         row'[r].status = "reserved", row'[r].estCredits = n,
         \A q \in Requests \ {r} : row'[q] = row[q]
  PROVE  OpenCredits(OwnerOf[r])' = OpenCredits(OwnerOf[r]) + n
<1>. DEFINE D == OpenRows \cap OfOwner(OwnerOf[r])
<1>1. OpenRows' \cap OfOwner(OwnerOf[r]) = D \cup {r} /\ r \notin D
  BY DEF OpenRows, OfOwner
<1>2. IsFiniteSet(D) /\ IntsOn(Estimates, D)
  BY HeldSets
<1>3. (\A x \in D : Estimates[x] = Estimates'[x]) /\ Estimates'[r] = n
  BY DEF Estimates, OpenRows, OfOwner
<1>. HIDE DEF D
<1>4. IntsOn(Estimates', D \cup {r})
  BY <1>2, <1>3 DEF IntsOn
<1>5. SumOver(Estimates, D) = SumOver(Estimates', D)
  BY <1>2, <1>3, SumSame
<1>6. SumOver(Estimates', D \cup {r}) = SumOver(Estimates', D) + n
  BY <1>1, <1>2, <1>3, <1>4, SumWith
<1>. QED BY <1>1, <1>5, <1>6 DEF OpenCredits, D

LEMMA StepHolds == TypeOK /\ HoldsMatchRows /\ [Next]_vars => HoldsMatchRows'
<1>. SUFFICES ASSUME TypeOK, HoldsMatchRows, [Next]_vars, NEW o \in Owners
              PROVE  account'[o].reserved = OpenCredits(o)'
  BY DEF HoldsMatchRows
<1>1. account[o].reserved = OpenCredits(o)
  BY DEF HoldsMatchRows
<1>2. CASE Quiet
  BY <1>1, <1>2, SameHeld DEF Quiet, OfOwner
<1>3. ASSUME NEW r \in Requests, OwnerOf[r] # o, OthersStay(r)
      PROVE  account'[o].reserved = OpenCredits(o)'
  BY <1>1, <1>3, SameHeld DEF OthersStay, OfOwner
<1>4. ASSUME NEW r \in Requests, NEW n \in Nat, Holds(r, n)
      PROVE  account'[o].reserved = OpenCredits(o)'
  <2>1. CASE OwnerOf[r] = o
    BY <1>1, <1>4, <2>1, OneMoreHeld DEF Holds, OthersStay
  <2>2. CASE OwnerOf[r] # o
    BY <1>3, <1>4, <2>2 DEF Holds
  <2>. QED BY <2>1, <2>2
<1>5. ASSUME NEW r \in Requests, NEW n \in 0 .. row[r].estCredits, Closes(r, n)
      PROVE  account'[o].reserved = OpenCredits(o)'
  <2>1. CASE OwnerOf[r] = o
    <3>1. {r} \in SUBSET OpenRows /\ {r} \cap OfOwner(o) = {r}
      BY <1>5, <2>1 DEF Closes, OpenRows, OfOwner
    <3>2. (\A q \in {r} : row'[q].status # "reserved")
          /\ \A q \in Requests \ {r} : row'[q] = row[q]
      BY <1>5 DEF Closes, OthersStay
    <3>3. OpenCredits(o)' = OpenCredits(o) - SumOver(Estimates, {r})
      BY <3>1, <3>2, FewerHeld
    <3>4. SumOver(Estimates, {r}) = row[r].estCredits
      <4>1. Estimates[r] = row[r].estCredits /\ Estimates[r] \in Nat
        BY HeldSets
      <4>2. SumOver(Estimates, {} \cup {r}) = SumOver(Estimates, {}) + Estimates[r]
        BY <4>1, SumWith, FS_EmptySet DEF IntsOn
      <4>. QED BY <4>1, <4>2, SumEmpty
    <3>. QED BY <1>1, <1>5, <2>1, <3>3, <3>4 DEF Closes
  <2>2. CASE OwnerOf[r] # o
    BY <1>3, <1>5, <2>2 DEF Closes
  <2>. QED BY <2>1, <2>2
<1>6. ASSUME NEW S \in SUBSET OpenRows, Frees(S)
      PROVE  account'[o].reserved = OpenCredits(o)'
  BY <1>1, <1>6, FewerHeld DEF Frees
<1>. QED BY <1>2, <1>4, <1>5, <1>6, MoneyEffect

\* After every statement what an account sets aside is the sum of its open estimates, so
\* the reserve guard never finds the two apart: no account locks itself out.
THEOREM HoldsAlwaysMatch == Spec => []HoldsMatchRows
<1>1. Init => HoldsMatchRows
  <2>. SUFFICES ASSUME Init, NEW o \in Owners PROVE account[o].reserved = OpenCredits(o)
    BY DEF HoldsMatchRows
  <2>1. OpenRows \cap OfOwner(o) = {} /\ account[o].reserved = 0
    BY DEF Init, NoRow, OpenRows
  <2>. QED BY <2>1, SumEmpty DEF OpenCredits
<1>. QED BY <1>1, TypeCorrect, StepHolds, PTL DEF Spec
-----------------------------------------------------------------------------
Taken == [r \in Requests |-> row[r].actCredits]

\* What is left of what was funded is what the settled rows did not take.
BalancesMatchRows ==
  \A o \in Owners :
    account[o].included + account[o].prepaid = funded[o] - SumOver(Taken, OfOwner(o))

LEMMA TakenSets ==
  ASSUME TypeOK, NEW o
  PROVE  /\ IsFiniteSet(OfOwner(o)) /\ IntsOn(Taken, OfOwner(o))
         /\ \A r \in Requests : Taken[r] = row[r].actCredits /\ Taken[r] \in Nat
<1>1. \A r \in Requests : Taken[r] = row[r].actCredits /\ Taken[r] \in Nat
  BY DEF Taken, TypeOK, Row
<1>2. IntsOn(Taken, OfOwner(o))
  BY <1>1 DEF IntsOn, OfOwner
<1>3. IsFiniteSet(OfOwner(o))
  BY HeldSets
<1>. QED BY <1>1, <1>2, <1>3

LEMMA SameTaken ==
  ASSUME TypeOK, NEW o \in Owners, \A q \in OfOwner(o) : row'[q].actCredits = row[q].actCredits
  PROVE  SumOver(Taken, OfOwner(o))' = SumOver(Taken, OfOwner(o))
<1>1. \A x \in OfOwner(o) : Taken[x] = Taken'[x]
  BY DEF Taken, OfOwner
<1>2. SumOver(Taken, OfOwner(o)) = SumOver(Taken', OfOwner(o))
  BY <1>1, TakenSets, SumSame
<1>. QED BY <1>2 DEF OfOwner

LEMMA StepBalances ==
  TypeOK /\ TakenOnlyBySettling /\ BalancesMatchRows /\ [Next]_vars => BalancesMatchRows'
<1>. SUFFICES ASSUME TypeOK, TakenOnlyBySettling, BalancesMatchRows, [Next]_vars, NEW o \in Owners
              PROVE  account'[o].included + account'[o].prepaid
                       = funded'[o] - SumOver(Taken, OfOwner(o))'
  BY DEF BalancesMatchRows
<1>1. account[o].included + account[o].prepaid = funded[o] - SumOver(Taken, OfOwner(o))
  BY DEF BalancesMatchRows
<1>2. SumOver(Taken, OfOwner(o)) \in Int
  BY TakenSets, SumInt
<1>3. TypeOK'
  BY StepTypeOK
<1>4. /\ account'[o].included \in Nat /\ account'[o].prepaid \in Nat /\ funded'[o] \in Int
      /\ account[o].included \in Nat /\ account[o].prepaid \in Nat /\ funded[o] \in Int
  BY <1>3 DEF TypeOK, Account
<1>5. ASSUME account'[o].included + account'[o].prepaid - funded'[o]
               = account[o].included + account[o].prepaid - funded[o],
             \A q \in OfOwner(o) : row'[q].actCredits = row[q].actCredits
      PROVE  account'[o].included + account'[o].prepaid
               = funded'[o] - SumOver(Taken, OfOwner(o))'
  <2>1. SumOver(Taken, OfOwner(o))' = SumOver(Taken, OfOwner(o))
    BY <1>5, SameTaken
  <2>2. PICK s : s = SumOver(Taken, OfOwner(o))
    OBVIOUS
  <2>. QED BY <1>1, <1>2, <1>4, <1>5, <2>1, <2>2
<1>6. CASE Quiet
  BY <1>5, <1>6 DEF Quiet, OfOwner
<1>7. ASSUME NEW r \in Requests, OwnerOf[r] # o, OthersStay(r)
      PROVE  account'[o].included + account'[o].prepaid
               = funded'[o] - SumOver(Taken, OfOwner(o))'
  BY <1>5, <1>7 DEF OthersStay, OfOwner
<1>8. ASSUME NEW r \in Requests, NEW n \in Nat, Holds(r, n)
      PROVE  account'[o].included + account'[o].prepaid
               = funded'[o] - SumOver(Taken, OfOwner(o))'
  <2>1. CASE OwnerOf[r] = o
    <3>1. row[r].actCredits = 0
      BY <1>8 DEF Holds, TakenOnlyBySettling
    <3>2. \A q \in OfOwner(o) : row'[q].actCredits = row[q].actCredits
      BY <1>8, <3>1 DEF Holds, OthersStay, OfOwner
    <3>. QED BY <1>5, <1>8, <2>1, <3>2 DEF Holds, OthersStay, MoneyStays
  <2>2. CASE OwnerOf[r] # o
    BY <1>7, <1>8, <2>2 DEF Holds
  <2>. QED BY <2>1, <2>2
<1>9. ASSUME NEW r \in Requests, NEW n \in 0 .. row[r].estCredits, Closes(r, n)
      PROVE  account'[o].included + account'[o].prepaid
               = funded'[o] - SumOver(Taken, OfOwner(o))'
  <2>1. CASE OwnerOf[r] = o
    <3>1. r \in OfOwner(o) /\ n \in Nat
      BY <2>1, HeldSets DEF OfOwner, TypeOK, Row
    <3>2. Taken[r] = 0 /\ Taken'[r] = n
      BY <1>9 DEF Closes, TakenOnlyBySettling, Taken
    <3>3. \A q \in OfOwner(o) \ {r} : Taken'[q] = Taken[q]
      BY <1>9 DEF Closes, OthersStay, Taken, OfOwner
    <3>4. IntsOn(Taken', OfOwner(o))
      BY <3>1, <3>2, <3>3, TakenSets DEF IntsOn
    <3>5. SumOver(Taken', OfOwner(o)) = SumOver(Taken, OfOwner(o)) + n - 0
      BY <3>1, <3>2, <3>3, <3>4, TakenSets, SumChange
    <3>6. SumOver(Taken, OfOwner(o))' = SumOver(Taken', OfOwner(o))
      BY DEF OfOwner
    <3>7. /\ account'[o].included + account'[o].prepaid
               = account[o].included + account[o].prepaid - n
          /\ funded'[o] = funded[o]
      BY <1>9, <2>1 DEF Closes, OthersStay
    <3>. QED BY <1>1, <1>2, <1>4, <3>1, <3>5, <3>6, <3>7
  <2>2. CASE OwnerOf[r] # o
    BY <1>7, <1>9, <2>2 DEF Closes
  <2>. QED BY <2>1, <2>2
<1>10. ASSUME NEW S \in SUBSET OpenRows, Frees(S)
       PROVE  account'[o].included + account'[o].prepaid
                = funded'[o] - SumOver(Taken, OfOwner(o))'
  <2>1. \A q \in S : row[q].actCredits = 0
    BY <1>10 DEF OpenRows, TakenOnlyBySettling
  <2>2. \A q \in OfOwner(o) : row'[q].actCredits = row[q].actCredits
    BY <1>10, <2>1 DEF Frees, OfOwner
  <2>. QED BY <1>5, <1>10, <2>2 DEF Frees, MoneyStays
<1>. QED BY <1>6, <1>8, <1>9, <1>10, MoneyEffect

LEMMA InitBalances == Init => BalancesMatchRows
<1>. SUFFICES ASSUME Init, NEW o \in Owners
              PROVE  account[o].included + account[o].prepaid
                       = funded[o] - SumOver(Taken, OfOwner(o))
  BY DEF BalancesMatchRows
<1>1. TypeOK
  BY InitTypeOK
<1>2. \A x \in OfOwner(o) : Taken[x] = 0
  BY DEF Init, NoRow, Taken, OfOwner
<1>3. SumOver(Taken, OfOwner(o)) = 0
  BY <1>1, <1>2, TakenSets, SumZero
<1>4. funded[o] = account[o].included + account[o].prepaid
  BY DEF Init
<1>5. account[o].included + account[o].prepaid \in Nat
  BY <1>1, AccountFields
<1>. QED BY <1>3, <1>4, <1>5

LEMMA TakenAlways == Spec => []TakenOnlyBySettling
<1>1. Init => TakenOnlyBySettling
  BY DEF Init, NoRow, TakenOnlyBySettling
<1>. QED BY <1>1, TypeCorrect, StepTaken, PTL DEF Spec

LEMMA BalancesAlwaysMatch == Spec => []BalancesMatchRows
  BY InitBalances, StepBalances, TypeCorrect, TakenAlways, PTL DEF Spec

-----------------------------------------------------------------------------
(* Closing is never blocked *)

LEMMA ProductGrows == \A a, b, k \in Nat : a <= b => a * k <= b * k
<1>. SUFFICES ASSUME NEW a \in Nat, NEW b \in Nat, NEW k \in Nat, a <= b PROVE a * k <= b * k
  OBVIOUS
<1>1. PICK d \in Nat : b = a + d
  <2>1. b - a \in Nat /\ b = a + (b - a)
    OBVIOUS
  <2>. QED BY <2>1
<1>2. b * k = a * k + d * k
  BY <1>1
<1>3. d * k \in Nat /\ a * k \in Nat
  OBVIOUS
<1>. QED BY <1>2, <1>3

LEMMA CeilDivGrows ==
  ASSUME NEW a \in Nat, NEW c \in Nat, NEW b \in Nat \ {0}, a <= c
  PROVE  CeilDiv(a, b) <= CeilDiv(c, b)
<1>. DEFINE p == (a + b - 1) \div b
            q == (c + b - 1) \div b
<1>1. p \in Int /\ q \in Int
  OBVIOUS
<1>2. b * p <= a + b - 1 /\ a + b - 1 < b * (p + 1)
  OBVIOUS
<1>3. b * q <= c + b - 1 /\ c + b - 1 < b * (q + 1)
  OBVIOUS
<1>. SUFFICES p <= q
  BY DEF CeilDiv
<1>. HIDE DEF p, q
<1>4. b * p < b * (q + 1)
  <2>1. b * p \in Int /\ b * (q + 1) \in Int
    BY <1>1
  <2>. QED BY <1>2, <1>3, <2>1
<1>. SUFFICES ASSUME q + 1 <= p PROVE FALSE
  BY <1>1
<1>5. PICK d \in Nat : p = (q + 1) + d
  <2>1. p - (q + 1) \in Nat /\ p = (q + 1) + (p - (q + 1))
    BY <1>1
  <2>. QED BY <2>1
<1>6. b * p = b * (q + 1) + b * d
  BY <1>1, <1>5
<1>7. b * d \in Nat /\ b * (q + 1) \in Int
  BY <1>1
<1>. QED BY <1>4, <1>6, <1>7

\* Work within the token ceilings never costs more than the estimate.
LEMMA EstimateCovers ==
  ASSUME NEW p \in Prices, NEW i \in 0 .. MaxInput, NEW o \in 0 .. MaxOutput
  PROVE  /\ CostOf(p, i, o) <= EstimatedCost(p)
         /\ CreditsOf(p, CostOf(p, i, o)) <= EstimatedCredits(p)
<1>1. /\ MaxInput \in Nat /\ MaxOutput \in Nat /\ InputRate[p] \in Nat /\ OutputRate[p] \in Nat
      /\ RateScale \in Nat \ {0} /\ CreditValue[p] \in Nat \ {0}
      /\ i \in Nat /\ o \in Nat /\ i <= MaxInput /\ o <= MaxOutput
  BY PriceAssumption
<1>. DEFINE used == i * InputRate[p] + o * OutputRate[p]
            most == MaxInput * InputRate[p] + MaxOutput * OutputRate[p]
<1>2. used \in Nat /\ most \in Nat /\ used <= most
  <2>1. /\ i * InputRate[p] <= MaxInput * InputRate[p]
        /\ o * OutputRate[p] <= MaxOutput * OutputRate[p]
    BY <1>1, ProductGrows
  <2>2. /\ i * InputRate[p] \in Nat /\ MaxInput * InputRate[p] \in Nat
        /\ o * OutputRate[p] \in Nat /\ MaxOutput * OutputRate[p] \in Nat
    BY <1>1
  <2>. QED BY <2>1, <2>2
<1>3. CostOf(p, i, o) = CeilDiv(used, RateScale) /\ EstimatedCost(p) = CeilDiv(most, RateScale)
  BY DEF CostOf, EstimatedCost
<1>. HIDE DEF used, most
<1>4. CostOf(p, i, o) <= EstimatedCost(p)
  BY <1>1, <1>2, <1>3, CeilDivGrows
<1>5. CostOf(p, i, o) \in Nat /\ EstimatedCost(p) \in Nat
  BY CostNat, EstimateNat
<1>6. CreditsOf(p, CostOf(p, i, o)) <= CreditsOf(p, EstimatedCost(p))
  BY <1>1, <1>4, <1>5, CeilDivGrows DEF CreditsOf
<1>7. CreditsOf(p, CostOf(p, i, o)) \in Nat /\ CreditsOf(p, EstimatedCost(p)) \in Nat
  BY <1>5, CreditsNat
<1>. QED BY <1>4, <1>6, <1>7 DEF EstimatedCredits, Larger

\* Every row was held at the ceilings of the price it names.
QuotedRows ==
  \A r \in Requests : row[r].status # "absent" =>
    /\ row[r].estCredits = EstimatedCredits(row[r].price)
    /\ row[r].estCost = EstimatedCost(row[r].price)

KeepsQuote(r) ==
  /\ row[r].status # "absent" \/ row'[r].status = "absent"
  /\ row'[r].price = row[r].price
  /\ row'[r].estCredits = row[r].estCredits /\ row'[r].estCost = row[r].estCost

LEMMA ClosedKeeps ==
  ASSUME TypeOK, NEW r \in Requests, row[r].status = "reserved",
         NEW status, NEW credits, NEW cost, row'[r] = ClosedRow(r, status, credits, cost)
  PROVE  KeepsQuote(r)
  BY DEF KeepsQuote, ClosedRow, TypeOK, Row

LEMMA StepQuoted == TypeOK /\ QuotedRows /\ [Next]_vars => QuotedRows'
<1>. SUFFICES ASSUME TypeOK, QuotedRows, [Next]_vars PROVE QuotedRows'
  OBVIOUS
<1>1. ASSUME \A q \in Requests : KeepsQuote(q)
      PROVE  QuotedRows'
  BY <1>1 DEF KeepsQuote, QuotedRows
<1>2. ASSUME NEW r \in Requests, NEW p \in Prices, Reserve(r, p)
      PROVE  QuotedRows'
  <2>1. /\ row'[r].price = p /\ row'[r].estCredits = EstimatedCredits(p)
        /\ row'[r].estCost = EstimatedCost(p)
        /\ \A q \in Requests \ {r} : row'[q] = row[q]
    BY <1>2 DEF Reserve, TypeOK
  <2>. QED BY <2>1 DEF QuotedRows
<1>3. ASSUME NEW r \in Requests, BeginDispatch(r) \/ MarkUnknown(r)
      PROVE  QuotedRows'
  <2>1. PICK state : row' = [row EXCEPT ![r].provider = state]
    BY <1>3 DEF BeginDispatch, MarkUnknown
  <2>2. \A q \in Requests : KeepsQuote(q)
    BY <2>1 DEF KeepsQuote, TypeOK, Row
  <2>. QED BY <1>1, <2>2
<1>4. ASSUME NEW r \in Requests, NEW input, NEW output, Settle(r, input, output)
      PROVE  QuotedRows'
  <2>1. PICK credits, cost : row' = [row EXCEPT ![r] = ClosedRow(r, "settled", credits, cost)]
    BY <1>4 DEF Settle
  <2>2. row'[r] = ClosedRow(r, "settled", credits, cost) /\ row[r].status = "reserved"
    BY <1>4, <2>1 DEF Settle, SettleMatches, Dispatched, OpenRows, TypeOK
  <2>3. KeepsQuote(r)
    BY <2>2, ClosedKeeps
  <2>4. \A q \in Requests \ {r} : KeepsQuote(q)
    BY <2>1 DEF KeepsQuote, TypeOK
  <2>. QED BY <1>1, <2>3, <2>4
<1>5. ASSUME NEW r \in Requests, NEW confirmed, Release(r, confirmed)
      PROVE  QuotedRows'
  <2>1. /\ row'[r] = ClosedRow(r, "released", 0, 0) /\ row[r].status = "reserved"
        /\ \A q \in Requests \ {r} : row'[q] = row[q]
    BY <1>5 DEF Release, ReleaseMatches, TypeOK
  <2>2. KeepsQuote(r)
    BY <2>1, ClosedKeeps
  <2>3. \A q \in Requests \ {r} : KeepsQuote(q)
    BY <2>1 DEF KeepsQuote
  <2>. QED BY <1>1, <2>2, <2>3
<1>6. CASE ExpireUndispatched
  <2>1. PICK S \in SUBSET Requests :
          /\ \A r \in S : row[r].status = "reserved" /\ row[r].provider = "not_started"
          /\ row' = [r \in Requests |->
               IF r \in S THEN ClosedRow(r, "released", 0, 0) ELSE row[r]]
    BY <1>6, SweepEffect
  <2>2. \A q \in S : KeepsQuote(q)
    BY <2>1, ClosedKeeps
  <2>3. \A q \in Requests \ S : KeepsQuote(q)
    BY <2>1 DEF KeepsQuote
  <2>. QED BY <1>1, <2>2, <2>3
<1>7. CASE StopBilling \/ Operator \/ Tick \/ UNCHANGED vars
  <2>1. row' = row
    BY <1>7 DEF StopBilling, Operator, EnableBilling, SetPolicy, SetStatus, RenewCycle,
                SetBalance, ClosePrice, Tick, vars
  <2>. QED BY <1>1, <2>1 DEF KeepsQuote
<1>. QED BY <1>2, <1>3, <1>4, <1>5, <1>6, <1>7 DEF Next, Statement

LEMMA AlwaysQuoted == Spec => []QuotedRows
<1>1. Init => QuotedRows
  BY DEF Init, NoRow, QuotedRows
<1>. QED BY <1>1, TypeCorrect, StepQuoted, PTL DEF Spec

\* An account that covers the whole hold passes the guard after paying part of it.
LEMMA PaidGuard ==
  ASSUME NEW acct \in Account, AccountGuard(acct), NEW held \in Nat, NEW spent \in 0 .. held,
         held <= acct.reserved
  PROVE  AccountGuard(FinishedAccount(acct, spent, held))
<1>. DEFINE paid == FinishedAccount(acct, spent, held)
<1>1. /\ paid.included = Larger(0, acct.included - spent)
      /\ paid.prepaid = acct.prepaid - Larger(0, spent - acct.included)
      /\ paid.reserved = acct.reserved - held
  BY DEF FinishedAccount, Account
<1>2. /\ acct.included \in Nat /\ acct.prepaid \in Nat /\ acct.reserved \in Nat /\ MaxMoney \in Nat
      /\ acct.included <= MaxMoney /\ acct.prepaid <= MaxMoney
      /\ acct.reserved <= acct.included + acct.prepaid
  BY BillingAssumption DEF AccountGuard, Account
<1>3. \A i, p, v, h, s, m \in Nat :
        s <= h /\ h <= v /\ v <= i + p /\ i <= m /\ p <= m =>
          LET i2 == IF 0 >= i - s THEN 0 ELSE i - s
              p2 == p - (IF 0 >= s - i THEN 0 ELSE s - i)
          IN i2 \in 0 .. m /\ p2 \in 0 .. m /\ v - h \in 0 .. (i2 + p2)
  OBVIOUS
<1>4. spent \in Nat /\ spent <= held
  OBVIOUS
<1>5. /\ Larger(0, acct.included - spent) \in 0 .. MaxMoney
      /\ acct.prepaid - Larger(0, spent - acct.included) \in 0 .. MaxMoney
      /\ acct.reserved - held \in 0 .. (Larger(0, acct.included - spent)
                                        + (acct.prepaid - Larger(0, spent - acct.included)))
  BY <1>2, <1>3, <1>4 DEF Larger
<1>. QED BY <1>1, <1>5 DEF AccountGuard

LEMMA ClosingFree == TypeOK /\ HoldsMatchRows /\ QuotedRows => ClosingNeverBlocked
<1>. SUFFICES ASSUME TypeOK, HoldsMatchRows, QuotedRows, NEW r \in Dispatched
              PROVE  LET acct == account[OwnerOf[r]] IN
                /\ \A input \in 0 .. MaxInput, output \in 0 .. MaxOutput :
                     LET cost == CostOf(row[r].price, input, output)
                         credits == CreditsOf(row[r].price, cost)
                     IN /\ WithinEstimate(r, credits, cost)
                        /\ AccountGuard(FinishedAccount(acct, credits, row[r].estCredits))
                /\ AccountGuard(FinishedAccount(acct, 0, row[r].estCredits))
  BY DEF ClosingNeverBlocked
<1>. DEFINE o == OwnerOf[r]
<1>1. r \in Requests /\ o \in Owners /\ r \in OpenRows \cap OfOwner(o)
  BY BillingAssumption DEF Dispatched, OpenRows, OfOwner
<1>2. row[r].price \in Prices /\ row[r].estCredits \in Nat
  BY <1>1 DEF TypeOK, Row
<1>3. row[r].estCredits <= account[o].reserved
  <2>1. \A x \in OpenRows \cap OfOwner(o) : Estimates[x] \in Nat
    BY HeldSets
  <2>2. Estimates[r] <= SumOver(Estimates, OpenRows \cap OfOwner(o))
    BY <1>1, <2>1, HeldSets, SumNat
  <2>. QED BY <1>1, <2>2, HeldSets DEF HoldsMatchRows, OpenCredits
<1>4. account[o] \in Account /\ AccountGuard(account[o])
  BY <1>1 DEF TypeOK
<1>5. ASSUME NEW spent \in 0 .. row[r].estCredits
      PROVE  AccountGuard(FinishedAccount(account[o], spent, row[r].estCredits))
  BY <1>2, <1>3, <1>4, PaidGuard
<1>6. ASSUME NEW input \in 0 .. MaxInput, NEW output \in 0 .. MaxOutput
      PROVE  LET cost == CostOf(row[r].price, input, output)
                 credits == CreditsOf(row[r].price, cost)
             IN /\ WithinEstimate(r, credits, cost)
                /\ AccountGuard(FinishedAccount(account[o], credits, row[r].estCredits))
  <2>. DEFINE cost == CostOf(row[r].price, input, output)
              credits == CreditsOf(row[r].price, cost)
  <2>1. row[r].estCredits = EstimatedCredits(row[r].price)
        /\ row[r].estCost = EstimatedCost(row[r].price)
    BY <1>1 DEF QuotedRows, OpenRows
  <2>2. credits \in Nat /\ credits <= row[r].estCredits /\ cost <= row[r].estCost
    BY <1>2, <2>1, EstimateCovers, CostNat, CreditsNat
  <2>. HIDE DEF credits, cost
  <2>3. credits \in 0 .. row[r].estCredits
    BY <1>2, <2>2
  <2>4. AccountGuard(FinishedAccount(account[o], credits, row[r].estCredits))
    BY <1>5, <2>3
  <2>. QED BY <2>2, <2>4 DEF WithinEstimate, credits, cost
<1>7. 0 \in 0 .. row[r].estCredits
  BY <1>2
<1>. QED BY <1>5, <1>6, <1>7

\* For every price, ceiling and number of requests: work within the ceilings can always
\* be settled and a hold always released, whatever else happened on the account.
THEOREM ClosingAlwaysPossible == Spec => []ClosingNeverBlocked
  BY TypeCorrect, HoldsAlwaysMatch, AlwaysQuoted, ClosingFree, PTL

-----------------------------------------------------------------------------
(* Replaying the ledger *)

LEMMA SumSingle ==
  ASSUME NEW f, NEW x, f[x] \in Int
  PROVE  IsFiniteSet({x}) /\ SumOver(f, {x}) = f[x]
<1>1. IsFiniteSet({}) /\ SumOver(f, {}) = 0
  BY FS_EmptySet, SumEmpty
<1>2. SumOver(f, {} \cup {x}) = SumOver(f, {}) + f[x]
  BY <1>1, SumWith DEF IntsOn
<1>3. IsFiniteSet({x})
  BY FS_Singleton
<1>. QED BY <1>1, <1>2, <1>3

\* A sum over a set in parts is the sum of the sums over its parts.
LEMMA SumInParts ==
  ASSUME NEW f, NEW g, NEW T, IsFiniteSet(T), NEW part,
         \A r \in T : IsFiniteSet(part[r]) /\ IntsOn(f, part[r]) /\ g[r] = SumOver(f, part[r]),
         \A q, r \in T : q # r => part[q] \cap part[r] = {}
  PROVE  SumOver(f, UNION {part[r] : r \in T}) = SumOver(g, T)
<1>. DEFINE All(U) == UNION {part[r] : r \in U}
            Adds(U) == IsFiniteSet(All(U)) /\ SumOver(f, All(U)) = SumOver(g, U)
            Fails == {U \in SUBSET T : ~Adds(U)}
<1>. SUFFICES ASSUME Fails # {} PROVE FALSE
  OBVIOUS
<1>1. PICK U \in Fails : \A V \in Fails : ~(V \subseteq U /\ V # U)
  <2>1. Fails \in SUBSET (SUBSET T)
    OBVIOUS
  <2>. HIDE DEF Fails
  <2>. QED BY <2>1, SmallestFails
<1>2. U \in SUBSET T /\ ~Adds(U)
  BY <1>1
<1>3. U # {}
  <2>. SUFFICES ASSUME U = {} PROVE FALSE
    OBVIOUS
  <2>1. All(U) = {}
    OBVIOUS
  <2>. QED BY <1>2, <2>1, SumEmpty, FS_EmptySet
<1>4. PICK r \in U : TRUE
  BY <1>3
<1>. DEFINE V == U \ {r}
<1>5. Adds(V)
  <2>1. V \in SUBSET T /\ V \subseteq U /\ V # U
    BY <1>2, <1>4
  <2>. HIDE DEF V, Adds
  <2>. QED BY <1>1, <2>1
<1>6. PICK A : A = All(V)
  OBVIOUS
<1>7. PICK B : B = part[r]
  OBVIOUS
<1>8. All(U) = A \cup B /\ A \cap B = {}
  <2>1. All(U) = A \cup B
    BY <1>4, <1>6, <1>7
  <2>2. A \cap B = {}
    BY <1>2, <1>4, <1>6, <1>7
  <2>. QED BY <2>1, <2>2
<1>9. IsFiniteSet(A) /\ IsFiniteSet(B) /\ IsFiniteSet(A \cup B)
  BY <1>2, <1>4, <1>5, <1>6, <1>7, FS_Union
<1>10. IntsOn(f, A \cup B)
  <2>1. \A x \in A \cup B : \E q \in U : x \in part[q]
    BY <1>4, <1>6, <1>7
  <2>. QED BY <1>2, <2>1 DEF IntsOn
<1>11. SumOver(f, A \cup B) = SumOver(f, A) + SumOver(f, B)
  BY <1>8, <1>9, <1>10, SumUnion
<1>12. SumOver(f, A) = SumOver(g, V) /\ SumOver(f, B) = g[r]
  BY <1>2, <1>4, <1>5, <1>6, <1>7
<1>13. IsFiniteSet(U) /\ IntsOn(g, U)
  <2>1. \A q \in U : g[q] \in Int
    BY <1>2, SumInt
  <2>. QED BY <1>2, <2>1, FS_Subset DEF IntsOn
<1>14. SumOver(g, U) = g[r] + SumOver(g, V)
  BY <1>4, <1>13, SumWithout
<1>15. g[r] \in Int /\ SumOver(g, V) \in Int
  <2>1. IsFiniteSet(V) /\ IntsOn(g, V)
    BY <1>13, FS_Subset DEF IntsOn
  <2>. HIDE DEF V
  <2>. QED BY <1>4, <1>13, <2>1, SumInt DEF IntsOn
<1>16. SumOver(f, A \cup B) = SumOver(g, U)
  <2>. HIDE DEF V
  <2>. QED BY <1>11, <1>12, <1>14, <1>15
<1>. QED BY <1>2, <1>8, <1>9, <1>16

\* Booked by kind: what each request has in the ledger, as its row tells it.
HeldOf == [r \in Requests |-> IF row[r].status = "absent" THEN 0 ELSE row[r].estCredits]
SettledHoldOf == [r \in Requests |-> IF row[r].status = "settled" THEN row[r].estCredits ELSE 0]
ReleasedHoldOf == [r \in Requests |-> IF row[r].status = "released" THEN row[r].estCredits ELSE 0]
OpenHoldOf == [r \in Requests |-> IF r \in OpenRows THEN row[r].estCredits ELSE 0]

\* A sum over an owner's entries of some types, request by request.
LEMMA LedgerInParts ==
  ASSUME TypeOK, NEW o, NEW types, NEW f, NEW g,
         \A r \in OfOwner(o) : /\ IsFiniteSet(EventsOf(r, types)) /\ IntsOn(f, EventsOf(r, types))
                              /\ g[r] = SumOver(f, EventsOf(r, types))
  PROVE  SumOver(f, {e \in ledger : OwnerOf[e.request] = o /\ e.event \in types})
           = SumOver(g, OfOwner(o))
<1>1. PICK part : part = [r \in OfOwner(o) |-> EventsOf(r, types)]
  OBVIOUS
<1>2. {e \in ledger : OwnerOf[e.request] = o /\ e.event \in types}
        = UNION {part[r] : r \in OfOwner(o)}
  <2>1. \A e \in ledger : e.request \in Requests
    BY DEF TypeOK, LedgerEvent
  <2>. QED BY <1>1, <2>1 DEF EventsOf, OfOwner
<1>3. \A r \in OfOwner(o) : /\ IsFiniteSet(part[r]) /\ IntsOn(f, part[r])
                            /\ g[r] = SumOver(f, part[r])
  BY <1>1
<1>4. \A q, r \in OfOwner(o) : q # r => part[q] \cap part[r] = {}
  BY <1>1 DEF EventsOf
<1>5. IsFiniteSet(OfOwner(o))
  BY HeldSets
<1>. QED BY <1>2, <1>3, <1>4, <1>5, SumInParts

LEMMA HoldEntriesAdd ==
  ASSUME NEW r, NEW a \in Nat, NEW b \in Nat, NEW f,
         \A e \in HoldEntries(r, a, b) : f[e] = e.credits
  PROVE  /\ IsFiniteSet(HoldEntries(r, a, b)) /\ IntsOn(f, HoldEntries(r, a, b))
         /\ SumOver(f, HoldEntries(r, a, b)) = a + b
<1>. DEFINE A == {Event(r, "reserve_included", n, 0, 0, 0) : n \in {a} \ {0}}
            B == {Event(r, "reserve_prepaid", n, 0, 0, 0) : n \in {b} \ {0}}
<1>1. HoldEntries(r, a, b) = A \cup B
  BY DEF HoldEntries
<1>2. A \cap B = {}
  BY DEF Event
<1>3. ASSUME NEW event, NEW n \in Nat, NEW S,
             S = {Event(r, event, m, 0, 0, 0) : m \in {n} \ {0}}, \A e \in S : f[e] = e.credits
      PROVE  IsFiniteSet(S) /\ IntsOn(f, S) /\ SumOver(f, S) = n
  <2>1. CASE n = 0
    <3>1. S = {}
      BY <1>3, <2>1
    <3>. QED BY <2>1, <3>1, FS_EmptySet, SumEmpty DEF IntsOn
  <2>2. CASE n # 0
    <3>1. PICK e : e = Event(r, event, n, 0, 0, 0)
      OBVIOUS
    <3>2. S = {e}
      BY <1>3, <2>2, <3>1
    <3>3. e.credits = n
      BY <3>1 DEF Event
    <3>4. f[e] = n
      BY <1>3, <3>2, <3>3
    <3>. QED BY <3>2, <3>4, SumSingle DEF IntsOn
  <2>. QED BY <2>1, <2>2
<1>4. IsFiniteSet(A) /\ IntsOn(f, A) /\ SumOver(f, A) = a
  BY <1>1, <1>3
<1>5. IsFiniteSet(B) /\ IntsOn(f, B) /\ SumOver(f, B) = b
  BY <1>1, <1>3
<1>. HIDE DEF A, B
<1>6. IsFiniteSet(A \cup B) /\ IntsOn(f, A \cup B)
  BY <1>4, <1>5, FS_Union DEF IntsOn
<1>7. SumOver(f, A \cup B) = SumOver(f, A) + SumOver(f, B)
  BY <1>2, <1>4, <1>5, <1>6, SumUnion
<1>. QED BY <1>1, <1>4, <1>5, <1>6, <1>7

\* The three kinds of entry, each added up for one request.
LEMMA HoldTotal ==
  ASSUME TypeOK, LedgerMatchesRows, NEW r \in Requests, NEW f, \A e \in ledger : f[e] = e.credits
  PROVE  /\ IsFiniteSet(EventsOf(r, HoldTypes)) /\ IntsOn(f, EventsOf(r, HoldTypes))
         /\ HeldOf[r] = SumOver(f, EventsOf(r, HoldTypes))
<1>1. CASE row[r].status = "absent"
  <2>1. EventsOf(r, HoldTypes) = {} /\ HeldOf[r] = 0
    BY <1>1 DEF LedgerMatchesRows, LedgerMatchesRow, EventsOf, HeldOf
  <2>. QED BY <2>1, FS_EmptySet, SumEmpty DEF IntsOn
<1>2. CASE row[r].status # "absent"
  <2>1. row[r].estCredits \in Nat
    BY DEF TypeOK, Row
  <2>2. PICK a \in 0 .. row[r].estCredits, b \in 0 .. row[r].estCredits :
          a + b = row[r].estCredits /\ EventsOf(r, HoldTypes) = HoldEntries(r, a, b)
    BY <1>2 DEF LedgerMatchesRows, LedgerMatchesRow, HoldMatches
  <2>3. \A e \in HoldEntries(r, a, b) : f[e] = e.credits
    BY <2>2 DEF EventsOf
  <2>4. a \in Nat /\ b \in Nat /\ HeldOf[r] = row[r].estCredits
    BY <1>2, <2>1 DEF HeldOf
  <2>. QED BY <2>2, <2>3, <2>4, HoldEntriesAdd
<1>. QED BY <1>1, <1>2

LEMMA OneEntryTotal ==
  ASSUME NEW f, NEW S, NEW n \in Int,
         \/ S = {} /\ n = 0
         \/ \E e \in S : S = {e} /\ f[e] = n
  PROVE  IsFiniteSet(S) /\ IntsOn(f, S) /\ n = SumOver(f, S)
<1>1. CASE S = {} /\ n = 0
  BY <1>1, FS_EmptySet, SumEmpty DEF IntsOn
<1>2. ASSUME NEW e \in S, S = {e}, f[e] = n
      PROVE  IsFiniteSet(S) /\ IntsOn(f, S) /\ n = SumOver(f, S)
  BY <1>2, SumSingle DEF IntsOn
<1>. QED BY <1>1, <1>2

\* A request's settle entry, if it has one
LEMMA SettleEntry ==
  ASSUME TypeOK, LedgerMatchesRows, NEW r \in Requests
  PROVE  \/ row[r].status # "settled" /\ EventsOf(r, {"settle"}) = {}
         \/ /\ row[r].status = "settled"
            /\ \E e \in ledger : /\ EventsOf(r, {"settle"}) = {e}
                                 /\ e.credits = row[r].actCredits
                                 /\ e.credits + e.unused = row[r].estCredits
<1>1. CASE row[r].status = "absent"
  BY <1>1 DEF LedgerMatchesRows, LedgerMatchesRow, EventsOf
<1>2. CASE row[r].status # "absent" /\ row[r].status # "settled"
  BY <1>2 DEF LedgerMatchesRows, LedgerMatchesRow, SettleEntryMatches
<1>3. CASE row[r].status = "settled"
  <2>1. PICK a, b : EventsOf(r, {"settle"}) =
          {Event(r, "settle", row[r].actCredits, a, b, row[r].estCredits - row[r].actCredits)}
    BY <1>3 DEF LedgerMatchesRows, LedgerMatchesRow, SettleEntryMatches
  <2>2. PICK e : e = Event(r, "settle", row[r].actCredits, a, b,
                           row[r].estCredits - row[r].actCredits)
    OBVIOUS
  <2>3. e.credits = row[r].actCredits /\ e.unused = row[r].estCredits - row[r].actCredits
    BY <2>2 DEF Event
  <2>4. row[r].actCredits \in Nat /\ row[r].estCredits \in Nat
    BY DEF TypeOK, Row
  <2>5. EventsOf(r, {"settle"}) = {e} /\ e \in ledger
    BY <2>1, <2>2 DEF EventsOf
  <2>. QED BY <1>3, <2>3, <2>4, <2>5
<1>. QED BY <1>1, <1>2, <1>3

LEMMA SettleTotal ==
  ASSUME TypeOK, LedgerMatchesRows, TakenOnlyBySettling, NEW r \in Requests,
         NEW f, \A e \in ledger : f[e] = e.credits
  PROVE  /\ IsFiniteSet(EventsOf(r, {"settle"})) /\ IntsOn(f, EventsOf(r, {"settle"}))
         /\ Taken[r] = SumOver(f, EventsOf(r, {"settle"}))
<1>1. Taken[r] = row[r].actCredits /\ Taken[r] \in Int
  BY DEF Taken, TypeOK, Row
<1>2. row[r].status # "settled" => Taken[r] = 0
  BY <1>1 DEF TakenOnlyBySettling
<1>. QED BY <1>1, <1>2, SettleEntry, OneEntryTotal

LEMMA SettleHoldTotal ==
  ASSUME TypeOK, LedgerMatchesRows, NEW r \in Requests,
         NEW f, \A e \in ledger : f[e] = e.credits + e.unused
  PROVE  /\ IsFiniteSet(EventsOf(r, {"settle"})) /\ IntsOn(f, EventsOf(r, {"settle"}))
         /\ SettledHoldOf[r] = SumOver(f, EventsOf(r, {"settle"}))
<1>1. SettledHoldOf[r] = (IF row[r].status = "settled" THEN row[r].estCredits ELSE 0)
      /\ SettledHoldOf[r] \in Int
  BY DEF SettledHoldOf, TypeOK, Row
<1>2. row[r].status # "settled" => SettledHoldOf[r] = 0
  BY <1>1
<1>3. CASE EventsOf(r, {"settle"}) = {} /\ row[r].status # "settled"
  BY <1>1, <1>2, <1>3, OneEntryTotal
<1>4. ASSUME row[r].status = "settled", NEW e \in ledger, EventsOf(r, {"settle"}) = {e},
             e.credits + e.unused = row[r].estCredits
      PROVE  \E x \in EventsOf(r, {"settle"}) :
               EventsOf(r, {"settle"}) = {x} /\ f[x] = SettledHoldOf[r]
  BY <1>1, <1>4
<1>. QED BY <1>1, <1>3, <1>4, SettleEntry, OneEntryTotal

LEMMA ReleaseTotal ==
  ASSUME TypeOK, LedgerMatchesRows, NEW r \in Requests, NEW f, \A e \in ledger : f[e] = e.credits
  PROVE  /\ IsFiniteSet(EventsOf(r, {"release"})) /\ IntsOn(f, EventsOf(r, {"release"}))
         /\ ReleasedHoldOf[r] = SumOver(f, EventsOf(r, {"release"}))
<1>1. ReleasedHoldOf[r] = (IF row[r].status = "released" THEN row[r].estCredits ELSE 0)
      /\ ReleasedHoldOf[r] \in Int
  BY DEF ReleasedHoldOf, TypeOK, Row
<1>2. CASE row[r].status # "released"
  <2>1. EventsOf(r, {"release"}) = {}
    BY <1>2 DEF LedgerMatchesRows, LedgerMatchesRow, ReleaseEntryMatches, EventsOf
  <2>. QED BY <1>1, <1>2, <2>1, OneEntryTotal
<1>3. CASE row[r].status = "released"
  <2>1. PICK e : e = Event(r, "release", row[r].estCredits, 0, 0, row[r].estCredits)
    OBVIOUS
  <2>2. EventsOf(r, {"release"}) = {e}
    BY <1>3, <2>1 DEF LedgerMatchesRows, LedgerMatchesRow, ReleaseEntryMatches
  <2>3. e \in ledger /\ e.credits = row[r].estCredits
    BY <2>1, <2>2 DEF EventsOf, Event
  <2>. QED BY <1>1, <1>3, <2>2, <2>3, OneEntryTotal
<1>. QED BY <1>2, <1>3

\* What was held is what is open plus what the closing entries freed.
LEMMA HeldIsOpenOrClosed ==
  ASSUME TypeOK, NEW o
  PROVE  /\ SumOver(HeldOf, OfOwner(o))
              = OpenCredits(o) + SumOver(SettledHoldOf, OfOwner(o))
                + SumOver(ReleasedHoldOf, OfOwner(o))
         /\ OpenCredits(o) \in Int
         /\ SumOver(SettledHoldOf, OfOwner(o)) \in Int
         /\ SumOver(ReleasedHoldOf, OfOwner(o)) \in Int
<1>. DEFINE T == OfOwner(o)
<1>1. IsFiniteSet(T) /\ T \subseteq Requests
  BY HeldSets DEF OfOwner
<1>2. \A r \in Requests : row[r].estCredits \in Nat /\ row[r].status \in Statuses
  BY DEF TypeOK, Row
<1>3. PICK k : k = [r \in Requests |-> OpenHoldOf[r] + SettledHoldOf[r]]
  OBVIOUS
<1>4. ASSUME NEW r \in T
      PROVE  /\ OpenHoldOf[r] \in Int /\ SettledHoldOf[r] \in Int /\ ReleasedHoldOf[r] \in Int
             /\ k[r] = OpenHoldOf[r] + SettledHoldOf[r]
             /\ k[r] \in Int
             /\ HeldOf[r] = k[r] + ReleasedHoldOf[r]
             /\ OpenHoldOf[r] = IF r \in OpenRows THEN Estimates[r] ELSE 0
  <2>1. row[r].estCredits \in Nat /\ row[r].status \in Statuses /\ r \in Requests
    BY <1>1, <1>2
  <2>. QED BY <1>3, <2>1 DEF OpenHoldOf, SettledHoldOf, ReleasedHoldOf, HeldOf, Statuses, OpenRows,
             Estimates
<1>5. IntsOn(OpenHoldOf, T) /\ IntsOn(SettledHoldOf, T) /\ IntsOn(ReleasedHoldOf, T) /\ IntsOn(k, T)
  BY <1>4 DEF IntsOn
<1>. HIDE DEF T
<1>6. SumOver(k, T) = SumOver(OpenHoldOf, T) + SumOver(SettledHoldOf, T)
  BY <1>1, <1>4, <1>5, SumPlus
<1>7. SumOver(HeldOf, T) = SumOver(k, T) + SumOver(ReleasedHoldOf, T)
  BY <1>1, <1>4, <1>5, SumPlus
<1>8. SumOver(OpenHoldOf, T) = OpenCredits(o)
  <2>1. T \cap OpenRows = OpenRows \cap OfOwner(o)
    BY DEF T
  <2>2. IntsOn(Estimates, T \cap OpenRows)
    BY <2>1, HeldSets
  <2>3. SumOver(OpenHoldOf, T) = SumOver(Estimates, T \cap OpenRows)
    <3>1. \A x \in T : OpenHoldOf[x] = IF x \in OpenRows THEN Estimates[x] ELSE 0
      BY <1>4
    <3>. QED BY <1>1, <2>2, <3>1, SumWhere
  <2>. QED BY <2>1, <2>3 DEF OpenCredits
<1>9. SumOver(OpenHoldOf, T) \in Int /\ SumOver(SettledHoldOf, T) \in Int
      /\ SumOver(ReleasedHoldOf, T) \in Int
  BY <1>1, <1>5, SumInt
<1>. QED BY <1>6, <1>7, <1>8, <1>9 DEF T

LEMMA LedgerReplays ==
  TypeOK /\ LedgerMatchesRows /\ TakenOnlyBySettling /\ HoldsMatchRows /\ BalancesMatchRows
    => LedgerReplaysAccount
<1>. SUFFICES ASSUME TypeOK, LedgerMatchesRows, TakenOnlyBySettling, HoldsMatchRows,
                     BalancesMatchRows, NEW o \in Owners
              PROVE  /\ account[o].included + account[o].prepaid
                          = funded[o] - LedgerSum(o, {"settle"}, LAMBDA e : e.credits)
                     /\ account[o].reserved
                          = LedgerSum(o, HoldTypes, LAMBDA e : e.credits)
                            - LedgerSum(o, {"settle"}, LAMBDA e : e.credits + e.unused)
                            - LedgerSum(o, {"release"}, LAMBDA e : e.credits)
  BY DEF LedgerReplaysAccount
<1>1. PICK f : f = [e \in ledger |-> e.credits]
  OBVIOUS
<1>2. PICK g : g = [e \in ledger |-> e.credits + e.unused]
  OBVIOUS
<1>3. (\A e \in ledger : f[e] = e.credits) /\ \A e \in ledger : g[e] = e.credits + e.unused
  BY <1>1, <1>2
<1>4. \A r \in OfOwner(o) : r \in Requests
  BY DEF OfOwner
<1>5. LedgerSum(o, {"settle"}, LAMBDA e : e.credits) = SumOver(Taken, OfOwner(o))
  <2>1. LedgerSum(o, {"settle"}, LAMBDA e : e.credits)
          = SumOver(f, {e \in ledger : OwnerOf[e.request] = o /\ e.event \in {"settle"}})
    BY <1>1 DEF LedgerSum
  <2>2. \A r \in OfOwner(o) :
          /\ IsFiniteSet(EventsOf(r, {"settle"})) /\ IntsOn(f, EventsOf(r, {"settle"}))
          /\ Taken[r] = SumOver(f, EventsOf(r, {"settle"}))
    BY <1>3, <1>4, SettleTotal
  <2>. QED BY <2>1, <2>2, LedgerInParts
<1>6. LedgerSum(o, HoldTypes, LAMBDA e : e.credits) = SumOver(HeldOf, OfOwner(o))
  <2>1. LedgerSum(o, HoldTypes, LAMBDA e : e.credits)
          = SumOver(f, {e \in ledger : OwnerOf[e.request] = o /\ e.event \in HoldTypes})
    BY <1>1 DEF LedgerSum
  <2>2. \A r \in OfOwner(o) :
          /\ IsFiniteSet(EventsOf(r, HoldTypes)) /\ IntsOn(f, EventsOf(r, HoldTypes))
          /\ HeldOf[r] = SumOver(f, EventsOf(r, HoldTypes))
    BY <1>3, <1>4, HoldTotal
  <2>. QED BY <2>1, <2>2, LedgerInParts
<1>7. LedgerSum(o, {"settle"}, LAMBDA e : e.credits + e.unused) = SumOver(SettledHoldOf, OfOwner(o))
  <2>1. LedgerSum(o, {"settle"}, LAMBDA e : e.credits + e.unused)
          = SumOver(g, {e \in ledger : OwnerOf[e.request] = o /\ e.event \in {"settle"}})
    BY <1>2 DEF LedgerSum
  <2>2. \A r \in OfOwner(o) :
          /\ IsFiniteSet(EventsOf(r, {"settle"})) /\ IntsOn(g, EventsOf(r, {"settle"}))
          /\ SettledHoldOf[r] = SumOver(g, EventsOf(r, {"settle"}))
    BY <1>3, <1>4, SettleHoldTotal
  <2>3. SumOver(g, {e \in ledger : OwnerOf[e.request] = o /\ e.event \in {"settle"}})
          = SumOver(SettledHoldOf, OfOwner(o))
    BY <2>2, LedgerInParts
  <2>. QED BY <2>1, <2>3
<1>8. LedgerSum(o, {"release"}, LAMBDA e : e.credits) = SumOver(ReleasedHoldOf, OfOwner(o))
  <2>1. LedgerSum(o, {"release"}, LAMBDA e : e.credits)
          = SumOver(f, {e \in ledger : OwnerOf[e.request] = o /\ e.event \in {"release"}})
    BY <1>1 DEF LedgerSum
  <2>2. \A r \in OfOwner(o) :
          /\ IsFiniteSet(EventsOf(r, {"release"})) /\ IntsOn(f, EventsOf(r, {"release"}))
          /\ ReleasedHoldOf[r] = SumOver(f, EventsOf(r, {"release"}))
    BY <1>3, <1>4, ReleaseTotal
  <2>. QED BY <2>1, <2>2, LedgerInParts
<1>9. account[o].included + account[o].prepaid = funded[o] - SumOver(Taken, OfOwner(o))
  BY DEF BalancesMatchRows
<1>10. account[o].reserved = OpenCredits(o)
  BY DEF HoldsMatchRows
<1>11. account[o].reserved
         = SumOver(HeldOf, OfOwner(o)) - SumOver(SettledHoldOf, OfOwner(o))
           - SumOver(ReleasedHoldOf, OfOwner(o))
  BY <1>10, HeldIsOpenOrClosed
<1>. QED BY <1>5, <1>6, <1>7, <1>8, <1>9, <1>11

\* For any number of requests and any order of statements the append-only ledger, added
\* up, gives the account: nothing is charged, held or freed that the ledger does not book.
THEOREM LedgerAlwaysReplays == Spec => []LedgerReplaysAccount
  BY TypeCorrect, LedgerAgrees, TakenAlways, HoldsAlwaysMatch, BalancesAlwaysMatch,
     LedgerReplays, PTL

-----------------------------------------------------------------------------
(* Spend windows *)

\* No cycle starts in the future: what keeps a renewed window inside the old one.
CyclesBegun == \A o \in Owners : account[o].cycleStart <= now

ClockMoves ==
  /\ now <= now'
  /\ \A o \in Owners : /\ account[o].cycleStart <= account'[o].cycleStart
                       /\ account'[o].cycleStart <= now'

LEMMA StepClock == TypeOK /\ CyclesBegun /\ [Next]_vars => ClockMoves
<1>. SUFFICES ASSUME TypeOK, CyclesBegun, [Next]_vars PROVE ClockMoves
  OBVIOUS
<1>1. now \in Nat /\ \A o \in Owners : account[o] \in Account /\ account[o].cycleStart \in Nat
  BY AccountFields, BillingAssumption DEF TypeOK
<1>2. ASSUME now' = now, \A o \in Owners : account'[o].cycleStart = account[o].cycleStart
      PROVE  ClockMoves
  BY <1>1, <1>2 DEF ClockMoves, CyclesBegun
<1>3. ASSUME NEW r \in Requests, NEW p \in Prices, Reserve(r, p)
      PROVE  ClockMoves
  <2>1. account' = [account EXCEPT ![OwnerOf[r]].reserved = @ + EstimatedCredits(p)] /\ now' = now
    BY <1>3 DEF Reserve, TypeOK
  <2>2. \A o \in Owners : account'[o].cycleStart = account[o].cycleStart
    BY <1>1, <2>1 DEF TypeOK, Account
  <2>. QED BY <1>2, <2>1, <2>2
<1>4. ASSUME NEW r \in Requests, NEW spent, NEW held, now' = now,
             account' = [account EXCEPT ![OwnerOf[r]] =
               FinishedAccount(account[OwnerOf[r]], spent, held)]
      PROVE  ClockMoves
  <2>1. \A acct \in Account : FinishedAccount(acct, spent, held).cycleStart = acct.cycleStart
    BY DEF FinishedAccount, Account
  <2>2. \A o \in Owners : account'[o].cycleStart = account[o].cycleStart
    BY <1>1, <1>4, <2>1 DEF TypeOK
  <2>. QED BY <1>2, <1>4, <2>2
<1>5. ASSUME NEW r \in Requests, NEW input, NEW output, Settle(r, input, output)
      PROVE  ClockMoves
  BY <1>4, <1>5 DEF Settle
<1>6. ASSUME NEW r \in Requests, NEW confirmed, Release(r, confirmed)
      PROVE  ClockMoves
  BY <1>4, <1>6 DEF Release
<1>7. CASE ExpireUndispatched
  <2>1. PICK S : account' = [o \in Owners |-> FreedBy(S, o)] /\ now' = now
    BY <1>7 DEF ExpireUndispatched
  <2>2. ASSUME NEW o \in Owners
        PROVE  account'[o].cycleStart = account[o].cycleStart
    <3>1. PICK n : n = SumOver(Estimates, S \cap OfOwner(o))
      OBVIOUS
    <3>2. account'[o] = [account[o] EXCEPT !.reserved = @ - n]
      BY <2>1, <3>1 DEF FreedBy
    <3>. QED BY <1>1, <3>2 DEF Account
  <2>. QED BY <1>2, <2>1, <2>2
<1>8. ASSUME NEW o \in Owners, NEW status \in AccountStatuses, SetStatus(o, status)
      PROVE  ClockMoves
  BY <1>1, <1>2, <1>8 DEF SetStatus, TypeOK, Account
<1>9. ASSUME NEW o \in Owners, NEW included, NEW prepaid, SetBalance(o, included, prepaid)
      PROVE  ClockMoves
  BY <1>1, <1>2, <1>9 DEF SetBalance, TypeOK, Account
<1>10. ASSUME NEW o \in Owners, RenewCycle(o)
       PROVE  ClockMoves
  <2>1. account'[o].cycleStart = now /\ now' = now
        /\ \A q \in Owners \ {o} : account'[q] = account[q]
    BY <1>1, <1>10 DEF RenewCycle, TypeOK, Account
  <2>. QED BY <1>1, <2>1 DEF ClockMoves, CyclesBegun
<1>11. CASE Tick
  BY <1>1, <1>11 DEF Tick, ClockMoves, CyclesBegun
<1>12. ASSUME account' = account, now' = now
       PROVE  ClockMoves
  BY <1>2, <1>12
<1>13. CASE UNCHANGED vars
  BY <1>12, <1>13 DEF vars
<1>14. CASE Statement
  BY <1>3, <1>5, <1>6, <1>7, <1>12, <1>14
     DEF Statement, BeginDispatch, MarkUnknown, StopBilling, SetPolicy
<1>15. CASE Operator
  BY <1>8, <1>9, <1>10, <1>12, <1>15 DEF Operator, EnableBilling, SetPolicy, ClosePrice
<1>. QED BY <1>11, <1>13, <1>14, <1>15 DEF Next

\* What a row owes a window is never more after a step, unless the step opens it.
OwesNoMore(r) ==
  \/ /\ row'[r].status = row[r].status /\ row'[r].settled = row[r].settled
     /\ row'[r].estCost = row[r].estCost /\ row'[r].actCost = row[r].actCost
     /\ row'[r].estCredits = row[r].estCredits /\ row'[r].actCredits = row[r].actCredits
  \/ row'[r].status = "released"
  \/ /\ row[r].status = "reserved" /\ row'[r].status = "settled"
     /\ row'[r].actCost <= row[r].estCost /\ row'[r].actCredits <= row[r].estCredits

LEMMA StepOwes ==
  ASSUME TypeOK, [Next]_vars, \A r \in Requests, p \in Prices : ~Reserve(r, p)
  PROVE  \A q \in Requests : OwesNoMore(q)
<1>1. ASSUME NEW r \in Requests, BeginDispatch(r) \/ MarkUnknown(r)
      PROVE  \A q \in Requests : OwesNoMore(q)
  <2>1. PICK state : row' = [row EXCEPT ![r].provider = state]
    BY <1>1 DEF BeginDispatch, MarkUnknown
  <2>. QED BY <2>1 DEF OwesNoMore, TypeOK, Row
<1>2. ASSUME NEW r \in Requests, NEW input, NEW output, Settle(r, input, output)
      PROVE  \A q \in Requests : OwesNoMore(q)
  <2>1. PICK credits, cost :
          /\ row' = [row EXCEPT ![r] = ClosedRow(r, "settled", credits, cost)]
          /\ credits <= row[r].estCredits /\ cost <= row[r].estCost
          /\ row[r].status = "reserved"
    BY <1>2 DEF Settle, WithinEstimate, SettleMatches, Dispatched, OpenRows
  <2>2. row'[r] = ClosedRow(r, "settled", credits, cost)
        /\ \A q \in Requests \ {r} : row'[q] = row[q]
    BY <2>1 DEF TypeOK
  <2>3. row'[r].status = "settled" /\ row'[r].actCredits = credits /\ row'[r].actCost = cost
    BY <2>2 DEF ClosedRow, TypeOK, Row
  <2>. QED BY <2>1, <2>2, <2>3 DEF OwesNoMore
<1>3. ASSUME NEW r \in Requests, NEW confirmed, Release(r, confirmed)
      PROVE  \A q \in Requests : OwesNoMore(q)
  <2>1. row'[r] = ClosedRow(r, "released", 0, 0) /\ \A q \in Requests \ {r} : row'[q] = row[q]
    BY <1>3 DEF Release, TypeOK
  <2>. QED BY <2>1, ClosedFields DEF OwesNoMore
<1>4. CASE ExpireUndispatched
  <2>1. PICK S \in SUBSET Requests :
          row' = [r \in Requests |-> IF r \in S THEN ClosedRow(r, "released", 0, 0) ELSE row[r]]
    BY <1>4, SweepEffect
  <2>2. \A q \in S : OwesNoMore(q)
    BY <2>1, ClosedFields DEF OwesNoMore
  <2>3. \A q \in Requests \ S : OwesNoMore(q)
    BY <2>1 DEF OwesNoMore
  <2>. QED BY <2>2, <2>3
<1>5. CASE StopBilling \/ Operator \/ Tick \/ UNCHANGED vars
  <2>1. row' = row
    BY <1>5 DEF StopBilling, Operator, EnableBilling, SetPolicy, SetStatus, RenewCycle,
                SetBalance, ClosePrice, Tick, vars
  <2>. QED BY <2>1 DEF OwesNoMore
<1>. QED BY <1>1, <1>2, <1>3, <1>4, <1>5 DEF Next, Statement

CostCounted(since) == [r \in Requests |-> Counted(r, since, row[r].estCost, row[r].actCost)]
CreditsCounted(since) ==
  [r \in Requests |-> Counted(r, since, row[r].estCredits, row[r].actCredits)]

LEMMA CountedNat ==
  ASSUME TypeOK, NEW since, NEW r \in Requests
  PROVE  CostCounted(since)[r] \in Nat /\ CreditsCounted(since)[r] \in Nat
  BY DEF CostCounted, CreditsCounted, Counted, TypeOK, Row

LEMMA CountedNatNext ==
  ASSUME TypeOK', NEW since, NEW r \in Requests
  PROVE  CostCounted(since)'[r] \in Nat /\ CreditsCounted(since)'[r] \in Nat
  BY DEF CostCounted, CreditsCounted, Counted, TypeOK, Row

LEMMA CountedLess ==
  ASSUME TypeOK, TypeOK', NEW r \in Requests, OwesNoMore(r),
         NEW since \in Int, NEW later \in Int, since <= later
  PROVE  /\ CostCounted(later)'[r] <= CostCounted(since)[r]
         /\ CreditsCounted(later)'[r] <= CreditsCounted(since)[r]
<1>1. /\ row[r].status \in Statuses /\ row'[r].status \in Statuses
      /\ row[r].estCost \in Nat /\ row[r].actCost \in Nat
      /\ row[r].estCredits \in Nat /\ row[r].actCredits \in Nat
      /\ row'[r].estCost \in Nat /\ row'[r].actCost \in Nat
      /\ row'[r].estCredits \in Nat /\ row'[r].actCredits \in Nat
      /\ row[r].settled \in Nat /\ row'[r].settled \in Nat
  BY DEF TypeOK, Row
<1>. QED BY <1>1 DEF OwesNoMore, CostCounted, CreditsCounted, Counted, Statuses

\* Without a new hold a window's spend never grows, however the clock moves it on.
LEMMA WindowShrinks ==
  ASSUME TypeOK, TypeOK', \A q \in Requests : OwesNoMore(q), NEW S \in SUBSET Requests,
         NEW since \in Int, NEW later \in Int, since <= later
  PROVE  /\ CostSince(S, later)' <= CostSince(S, since)
         /\ CreditsSince(S, later)' <= CreditsSince(S, since)
<1>1. IsFiniteSet(S)
  BY BillingAssumption, FS_Subset
<1>2. /\ IntsOn(CostCounted(since), S) /\ IntsOn(CostCounted(later)', S)
      /\ IntsOn(CreditsCounted(since), S) /\ IntsOn(CreditsCounted(later)', S)
  BY CountedNat, CountedNatNext DEF IntsOn
<1>3. \A x \in S : /\ CostCounted(later)'[x] <= CostCounted(since)[x]
                   /\ CreditsCounted(later)'[x] <= CreditsCounted(since)[x]
  BY CountedLess
<1>4. /\ SumOver(CostCounted(later)', S) <= SumOver(CostCounted(since), S)
      /\ SumOver(CreditsCounted(later)', S) <= SumOver(CreditsCounted(since), S)
  BY <1>1, <1>2, <1>3, SumBelow
<1>. QED BY <1>4 DEF CostSince, CreditsSince, CostCounted, CreditsCounted

\* A new hold adds its estimate to the windows its request is in.
LEMMA WindowReserves ==
  ASSUME TypeOK, TypeOK', NEW r \in Requests, NEW p \in Prices, Reserve(r, p),
         NEW S \in SUBSET Requests, NEW since
  PROVE  /\ CostSince(S, since)' = CostSince(S, since) + (IF r \in S THEN EstimatedCost(p) ELSE 0)
         /\ CreditsSince(S, since)'
              = CreditsSince(S, since) + (IF r \in S THEN EstimatedCredits(p) ELSE 0)
<1>1. IsFiniteSet(S)
  BY BillingAssumption, FS_Subset
<1>2. /\ IntsOn(CostCounted(since), S) /\ IntsOn(CostCounted(since)', S)
      /\ IntsOn(CreditsCounted(since), S) /\ IntsOn(CreditsCounted(since)', S)
  BY CountedNat, CountedNatNext DEF IntsOn
<1>3. /\ row[r].status = "absent"
      /\ row'[r].status = "reserved" /\ row'[r].estCost = EstimatedCost(p)
      /\ row'[r].estCredits = EstimatedCredits(p)
      /\ \A q \in Requests \ {r} : row'[q] = row[q]
  BY DEF Reserve, ReserveGuard, TypeOK
<1>4. /\ CostCounted(since)[r] = 0 /\ CostCounted(since)'[r] = EstimatedCost(p)
      /\ CreditsCounted(since)[r] = 0 /\ CreditsCounted(since)'[r] = EstimatedCredits(p)
  BY <1>3 DEF CostCounted, CreditsCounted, Counted
<1>5. \A q \in Requests \ {r} : /\ CostCounted(since)'[q] = CostCounted(since)[q]
                                /\ CreditsCounted(since)'[q] = CreditsCounted(since)[q]
  BY <1>3 DEF CostCounted, CreditsCounted, Counted
<1>6. SumOver(CostCounted(since), S) \in Int /\ SumOver(CreditsCounted(since), S) \in Int
  BY <1>1, <1>2, SumInt
<1>7. EstimatedCost(p) \in Int /\ EstimatedCredits(p) \in Int
  BY EstimateNat
<1>8. /\ SumOver(CostCounted(since)', S)
           = SumOver(CostCounted(since), S) + (IF r \in S THEN EstimatedCost(p) ELSE 0)
      /\ SumOver(CreditsCounted(since)', S)
           = SumOver(CreditsCounted(since), S) + (IF r \in S THEN EstimatedCredits(p) ELSE 0)
  <2>1. CASE r \in S
    <3>1. \A q \in S \ {r} : /\ CostCounted(since)'[q] = CostCounted(since)[q]
                             /\ CreditsCounted(since)'[q] = CreditsCounted(since)[q]
      BY <1>5
    <3>2. SumOver(CostCounted(since)', S)
            = SumOver(CostCounted(since), S) + CostCounted(since)'[r] - CostCounted(since)[r]
      BY <1>1, <1>2, <2>1, <3>1, SumChange
    <3>3. SumOver(CreditsCounted(since)', S)
            = SumOver(CreditsCounted(since), S) + CreditsCounted(since)'[r]
              - CreditsCounted(since)[r]
      BY <1>1, <1>2, <2>1, <3>1, SumChange
    <3>. QED BY <1>4, <1>6, <1>7, <2>1, <3>2, <3>3
  <2>2. CASE r \notin S
    <3>1. \A q \in S : /\ CostCounted(since)[q] = CostCounted(since)'[q]
                       /\ CreditsCounted(since)[q] = CreditsCounted(since)'[q]
      BY <1>5, <2>2
    <3>2. /\ SumOver(CostCounted(since), S) = SumOver(CostCounted(since)', S)
          /\ SumOver(CreditsCounted(since), S) = SumOver(CreditsCounted(since)', S)
      BY <1>1, <1>2, <3>1, SumSame
    <3>. QED BY <1>6, <2>2, <3>2
  <2>. QED BY <2>1, <2>2
<1>. QED BY <1>8 DEF CostSince, CreditsSince, CostCounted, CreditsCounted

LEMMA WindowInt ==
  ASSUME TypeOK, NEW S \in SUBSET Requests, NEW since
  PROVE  CostSince(S, since) \in Int /\ CreditsSince(S, since) \in Int
<1>1. IsFiniteSet(S)
  BY BillingAssumption, FS_Subset
<1>2. IntsOn(CostCounted(since), S) /\ IntsOn(CreditsCounted(since), S)
  BY CountedNat DEF IntsOn
<1>3. SumOver(CostCounted(since), S) \in Int /\ SumOver(CreditsCounted(since), S) \in Int
  BY <1>1, <1>2, SumInt
<1>. QED BY <1>3 DEF CostSince, CreditsSince, CostCounted, CreditsCounted

LEMMA WindowIntNext ==
  ASSUME TypeOK', NEW S \in SUBSET Requests, NEW since
  PROVE  CostSince(S, since)' \in Int /\ CreditsSince(S, since)' \in Int
<1>1. IsFiniteSet(S)
  BY BillingAssumption, FS_Subset
<1>2. IntsOn(CostCounted(since)', S) /\ IntsOn(CreditsCounted(since)', S)
  BY CountedNatNext DEF IntsOn
<1>3. SumOver(CostCounted(since)', S) \in Int /\ SumOver(CreditsCounted(since)', S) \in Int
  BY <1>1, <1>2, SumInt
<1>. QED BY <1>3 DEF CostSince, CreditsSince, CostCounted, CreditsCounted

\* The four windows of an owner and of the Worker, each under its limit
OwnerWithin(o, hour, day, cycle) ==
  /\ CostSince(OfOwner(o), hour) <= HourlyCost
  /\ CreditsSince(OfOwner(o), day) <= DailyCredits
  /\ CreditsSince(OfOwner(o), cycle) <= MonthlyCredits

AllWithin(day) == CostSince(Requests, day) <= Smaller(WorkerCeiling, PolicyCeiling)

LEMMA LimitsNat ==
  /\ HourlyCost \in Nat /\ DailyCredits \in Nat /\ MonthlyCredits \in Nat
  /\ Smaller(WorkerCeiling, PolicyCeiling) \in Nat
  /\ Hour \in Nat /\ Day \in Nat
  BY LimitsAssumption, BillingAssumption DEF Smaller

LEMMA SpendAt ==
  SpendWithinLimits <=>
    /\ \A o \in Owners : OwnerWithin(o, now - Hour, now - Day, account[o].cycleStart)
    /\ AllWithin(now - Day)
  BY DEF SpendWithinLimits, OwnerWithin, AllWithin

LEMMA SpendAtNext ==
  ASSUME NEW t, t = now'
  PROVE  SpendWithinLimits' <=>
           /\ \A o \in Owners : \A c : c = account'[o].cycleStart =>
                OwnerWithin(o, t - Hour, t - Day, c)'
           /\ AllWithin(t - Day)'
<1>1. now' - Hour = t - Hour /\ now' - Day = t - Day
  OBVIOUS
<1>. QED BY <1>1 DEF SpendWithinLimits, OwnerWithin, AllWithin

LEMMA StepSpend ==
  TypeOK /\ CyclesBegun /\ SpendWithinLimits /\ [Next]_vars => SpendWithinLimits'
<1>. SUFFICES ASSUME TypeOK, CyclesBegun, SpendWithinLimits, [Next]_vars
              PROVE  SpendWithinLimits'
  OBVIOUS
<1>1. TypeOK' /\ ClockMoves
  BY StepTypeOK, StepClock
<1>2. PICK s, t : s = now /\ t = now'
  OBVIOUS
<1>3. s \in Int /\ t \in Int /\ s <= t
  <2>1. now \in 0 .. MaxTime /\ now' \in 0 .. MaxTime
    BY <1>1 DEF TypeOK
  <2>. QED BY <1>1, <1>2, <2>1, BillingAssumption DEF ClockMoves
<1>4. /\ s - Hour \in Int /\ t - Hour \in Int /\ s - Hour <= t - Hour
      /\ s - Day \in Int /\ t - Day \in Int /\ s - Day <= t - Day
  BY <1>3, LimitsNat
<1>5. AllWithin(s - Day) /\ \A o \in Owners : \A c : c = account[o].cycleStart =>
        OwnerWithin(o, s - Hour, s - Day, c)
  BY <1>2, SpendAt
<1>6. ASSUME NEW o \in Owners, NEW c, c = account[o].cycleStart, NEW d, d = account'[o].cycleStart
      PROVE  c \in Int /\ d \in Int /\ c <= d /\ OwnerWithin(o, s - Hour, s - Day, c)
  <2>1. c \in Nat
    BY <1>6, AccountFields
  <2>2. d \in Nat
    BY <1>1, <1>6 DEF TypeOK, Account
  <2>. QED BY <1>1, <1>5, <1>6, <2>1, <2>2 DEF ClockMoves
<1>7. CASE \A r \in Requests, p \in Prices : ~Reserve(r, p)
  <2>1. \A q \in Requests : OwesNoMore(q)
    BY <1>7, StepOwes
  <2>2. ASSUME NEW o \in Owners, NEW d, d = account'[o].cycleStart
        PROVE  OwnerWithin(o, t - Hour, t - Day, d)'
    <3>1. PICK c : c = account[o].cycleStart
      OBVIOUS
    <3>2. c \in Int /\ d \in Int /\ c <= d /\ OwnerWithin(o, s - Hour, s - Day, c)
      BY <1>6, <2>2, <3>1
    <3>. DEFINE T == OfOwner(o)
    <3>3. T \in SUBSET Requests
      BY DEF OfOwner
    <3>. HIDE DEF T
    <3>4. /\ CostSince(T, t - Hour)' <= CostSince(T, s - Hour)
          /\ CreditsSince(T, t - Day)' <= CreditsSince(T, s - Day)
          /\ CreditsSince(T, d)' <= CreditsSince(T, c)
      BY <1>1, <1>4, <2>1, <3>2, <3>3, WindowShrinks
    <3>5. /\ CostSince(T, s - Hour) \in Int /\ CreditsSince(T, s - Day) \in Int
          /\ CreditsSince(T, c) \in Int
          /\ CostSince(T, t - Hour)' \in Int /\ CreditsSince(T, t - Day)' \in Int
          /\ CreditsSince(T, d)' \in Int
      BY <1>1, <3>3, WindowInt, WindowIntNext
    <3>6. /\ CostSince(T, s - Hour) <= HourlyCost /\ CreditsSince(T, s - Day) <= DailyCredits
          /\ CreditsSince(T, c) <= MonthlyCredits
      BY <3>2 DEF OwnerWithin, T
    <3>7. /\ CostSince(T, t - Hour)' <= HourlyCost /\ CreditsSince(T, t - Day)' <= DailyCredits
          /\ CreditsSince(T, d)' <= MonthlyCredits
      BY <3>4, <3>5, <3>6, LimitsNat
    <3>. QED BY <3>7 DEF OwnerWithin, T, OfOwner
  <2>3. AllWithin(t - Day)'
    <3>1. CostSince(Requests, t - Day)' <= CostSince(Requests, s - Day)
      BY <1>1, <1>4, <2>1, WindowShrinks
    <3>2. CostSince(Requests, s - Day) \in Int /\ CostSince(Requests, t - Day)' \in Int
      BY <1>1, WindowInt, WindowIntNext
    <3>. QED BY <1>5, <3>1, <3>2, LimitsNat DEF AllWithin
  <2>. QED BY <1>2, <2>2, <2>3, SpendAtNext
<1>8. ASSUME NEW r \in Requests, NEW p \in Prices, Reserve(r, p)
      PROVE  SpendWithinLimits'
  <2>1. PICK cost, credits : cost = EstimatedCost(p) /\ credits = EstimatedCredits(p)
    OBVIOUS
  <2>2. cost \in Nat /\ credits \in Nat
    BY <2>1, EstimateNat
  <2>3. s = t /\ WithinLimits(OwnerOf[r], cost, credits)
    BY <1>2, <1>8, <2>1 DEF Reserve, ReserveGuard
  <2>4. ASSUME NEW o \in Owners, NEW d, d = account'[o].cycleStart
        PROVE  OwnerWithin(o, t - Hour, t - Day, d)'
    <3>1. account[o].cycleStart = d
      <4>1. account' = [account EXCEPT ![OwnerOf[r]].reserved = @ + EstimatedCredits(p)]
        BY <1>8 DEF Reserve, TypeOK
      <4>. QED BY <2>4, <4>1, AccountFields DEF TypeOK, Account
    <3>2. OwnerWithin(o, t - Hour, t - Day, d)
      BY <1>6, <2>3, <2>4, <3>1
    <3>. DEFINE T == OfOwner(o)
    <3>3. T \in SUBSET Requests
      BY DEF OfOwner
    <3>4. r \in T <=> OwnerOf[r] = o
      BY DEF OfOwner
    <3>5. /\ CostSince(T, t - Hour) <= HourlyCost /\ CreditsSince(T, t - Day) <= DailyCredits
          /\ CreditsSince(T, d) <= MonthlyCredits
      BY <3>2 DEF OwnerWithin
    <3>6. r \in T => /\ cost + CostSince(T, t - Hour) <= HourlyCost
                     /\ credits + CreditsSince(T, t - Day) <= DailyCredits
                     /\ credits + CreditsSince(T, d) <= MonthlyCredits
      <4>1. SUFFICES ASSUME OwnerOf[r] = o
                     PROVE  /\ cost + CostSince(T, t - Hour) <= HourlyCost
                            /\ credits + CreditsSince(T, t - Day) <= DailyCredits
                            /\ credits + CreditsSince(T, d) <= MonthlyCredits
        BY <3>4
      <4>2. WithinLimits(o, cost, credits)
        BY <2>3, <4>1
      <4>. QED BY <1>2, <2>3, <3>1, <4>2 DEF WithinLimits
    <3>. HIDE DEF T
    <3>7. /\ CostSince(T, t - Hour)' = CostSince(T, t - Hour) + (IF r \in T THEN cost ELSE 0)
          /\ CreditsSince(T, t - Day)' = CreditsSince(T, t - Day) + (IF r \in T THEN credits ELSE 0)
          /\ CreditsSince(T, d)' = CreditsSince(T, d) + (IF r \in T THEN credits ELSE 0)
      BY <1>1, <1>8, <2>1, <3>3, WindowReserves
    <3>8. /\ CostSince(T, t - Hour) \in Int /\ CreditsSince(T, t - Day) \in Int
          /\ CreditsSince(T, d) \in Int
      BY <3>3, WindowInt
    <3>9. /\ CostSince(T, t - Hour)' <= HourlyCost /\ CreditsSince(T, t - Day)' <= DailyCredits
          /\ CreditsSince(T, d)' <= MonthlyCredits
      BY <2>2, <3>5, <3>6, <3>7, <3>8, LimitsNat
    <3>. QED BY <3>9 DEF OwnerWithin, T, OfOwner
  <2>5. AllWithin(t - Day)'
    <3>1. cost + CostSince(Requests, t - Day) <= Smaller(WorkerCeiling, PolicyCeiling)
      BY <1>2, <2>3 DEF WithinLimits
    <3>2. CostSince(Requests, t - Day)' = CostSince(Requests, t - Day) + cost
      BY <1>1, <1>8, <2>1, WindowReserves
    <3>3. CostSince(Requests, t - Day) \in Int
      BY WindowInt
    <3>. QED BY <2>2, <3>1, <3>2, <3>3, LimitsNat DEF AllWithin
  <2>. QED BY <1>2, <2>4, <2>5, SpendAtNext
<1>. QED BY <1>7, <1>8

LEMMA InitSpend == Init => CyclesBegun /\ SpendWithinLimits
<1>. SUFFICES ASSUME Init PROVE CyclesBegun /\ SpendWithinLimits
  OBVIOUS
<1>1. CyclesBegun
  BY DEF Init, CyclesBegun
<1>2. ASSUME NEW S \in SUBSET Requests, NEW since
      PROVE  CostSince(S, since) = 0 /\ CreditsSince(S, since) = 0
  <2>1. IsFiniteSet(S)
    BY BillingAssumption, FS_Subset
  <2>2. \A r \in S : CostCounted(since)[r] = 0 /\ CreditsCounted(since)[r] = 0
    BY DEF Init, NoRow, CostCounted, CreditsCounted, Counted
  <2>3. SumOver(CostCounted(since), S) = 0 /\ SumOver(CreditsCounted(since), S) = 0
    BY <2>1, <2>2, SumZero
  <2>. QED BY <2>3 DEF CostSince, CreditsSince, CostCounted, CreditsCounted
<1>3. \A o \in Owners : OfOwner(o) \in SUBSET Requests
  BY DEF OfOwner
<1>4. SpendWithinLimits
  BY <1>2, <1>3, LimitsNat DEF SpendWithinLimits
<1>. QED BY <1>1, <1>4

\* For any number of accounts and requests, any limits and any order of statements and
\* clock ticks, no window is ever spent past its limit.
THEOREM SpendAlwaysWithin == Spec => []SpendWithinLimits
<1>1. TypeOK /\ CyclesBegun /\ [Next]_vars => CyclesBegun'
  BY StepClock DEF ClockMoves, CyclesBegun
<1>. QED BY <1>1, InitSpend, StepSpend, TypeCorrect, PTL DEF Spec

-----------------------------------------------------------------------------
(* The sweep is never blocked *)

\* A finite set has an element with the largest value.
LEMMA LastOne ==
  ASSUME NEW S, IsFiniteSet(S), S # {}, NEW f, IntsOn(f, S)
  PROVE  \E x \in S : \A y \in S : f[y] <= f[x]
<1>. DEFINE HasLast(T) == \E x \in T : \A y \in T : f[y] <= f[x]
            Fails == {T \in SUBSET S : T # {} /\ ~HasLast(T)}
<1>. SUFFICES ASSUME Fails # {} PROVE FALSE
  OBVIOUS
<1>1. PICK T \in Fails : \A U \in Fails : ~(U \subseteq T /\ U # T)
  <2>1. Fails \in SUBSET (SUBSET S)
    OBVIOUS
  <2>. HIDE DEF Fails
  <2>. QED BY <2>1, SmallestFails
<1>2. T \in SUBSET S /\ T # {} /\ ~HasLast(T)
  BY <1>1
<1>3. PICK x \in T : TRUE
  BY <1>2
<1>4. \A y \in T : f[y] \in Int
  BY <1>2 DEF IntsOn
<1>5. CASE T = {x}
  BY <1>2, <1>3, <1>4, <1>5
<1>6. CASE T # {x}
  <2>. DEFINE U == T \ {x}
  <2>1. U \in SUBSET S /\ U # {} /\ U \subseteq T /\ U # T
    BY <1>2, <1>3, <1>6
  <2>2. HasLast(U)
    <3>. HIDE DEF U, HasLast
    <3>. QED BY <1>1, <2>1
  <2>3. PICK z \in U : \A y \in U : f[y] <= f[z]
    BY <2>2
  <2>4. f[x] \in Int /\ f[z] \in Int /\ \A y \in T : y = x \/ f[y] <= f[z]
    BY <1>4, <2>3
  <2>5. CASE f[z] <= f[x]
    BY <1>2, <1>3, <1>4, <2>4, <2>5
  <2>6. CASE ~(f[z] <= f[x])
    BY <1>2, <1>3, <1>4, <2>4, <2>6
  <2>. QED BY <2>5, <2>6
<1>. QED BY <1>5, <1>6

\* A finite set has a first part of every size up to its own.
LEMMA FirstPart ==
  ASSUME NEW S, IsFiniteSet(S), NEW f, IntsOn(f, S), NEW k \in Nat, k <= Cardinality(S)
  PROVE  \E P \in SUBSET S : Cardinality(P) = k /\ \A r \in P, q \in S \ P : f[r] <= f[q]
<1>. DEFINE IsFirst(P, T) == Cardinality(P) = k /\ \A r \in P, q \in T \ P : f[r] <= f[q]
            HasFirst(T) == \E P \in SUBSET T : IsFirst(P, T)
            Fails == {T \in SUBSET S : k <= Cardinality(T) /\ ~HasFirst(T)}
<1>. SUFFICES ASSUME Fails # {} PROVE FALSE
  OBVIOUS
<1>1. PICK T \in Fails : \A U \in Fails : ~(U \subseteq T /\ U # T)
  <2>1. Fails \in SUBSET (SUBSET S)
    OBVIOUS
  <2>. HIDE DEF Fails
  <2>. QED BY <2>1, SmallestFails
<1>2. T \in SUBSET S /\ k <= Cardinality(T) /\ ~HasFirst(T)
  BY <1>1
<1>3. IsFiniteSet(T) /\ Cardinality(T) \in Nat /\ IntsOn(f, T)
  BY <1>2, FS_Subset, FS_CardinalityType DEF IntsOn
<1>4. Cardinality(T) # k
  <2>. SUFFICES ASSUME Cardinality(T) = k PROVE FALSE
    OBVIOUS
  <2>1. IsFirst(T, T)
    OBVIOUS
  <2>. HIDE DEF IsFirst
  <2>. QED BY <1>2, <2>1
<1>5. T # {}
  BY <1>2, <1>4, FS_EmptySet
<1>6. PICK x \in T : \A y \in T : f[y] <= f[x]
  BY <1>3, <1>5, LastOne
<1>. DEFINE U == T \ {x}
<1>7. Cardinality(U) = Cardinality(T) - 1
  BY <1>3, <1>6, FS_RemoveElement
<1>8. U \in SUBSET S /\ U \subseteq T /\ U # T
  BY <1>2, <1>6
<1>9. k <= Cardinality(U)
  <2>. HIDE DEF U
  <2>. QED BY <1>2, <1>3, <1>4, <1>7
<1>10. HasFirst(U)
  <2>. HIDE DEF U, HasFirst
  <2>. QED BY <1>1, <1>8, <1>9
<1>11. PICK P \in SUBSET U : IsFirst(P, U)
  BY <1>10
<1>12. P \in SUBSET T /\ IsFirst(P, T)
  BY <1>6, <1>11
<1>. HIDE DEF IsFirst
<1>. QED BY <1>2, <1>12

LEMMA ExpiredFinite == IsFiniteSet(Expired) /\ Expired \subseteq OpenRows
<1>1. Expired \subseteq OpenRows /\ OpenRows \subseteq Requests
  BY DEF Expired, OpenRows
<1>. QED BY <1>1, BillingAssumption, FS_Subset

\* The oldest expired holds, as many as a sweep takes, are a batch.
LEMMA BatchExists ==
  ASSUME TypeOK, Expired # {}
  PROVE  \E S \in SUBSET Expired : IsBatch(S)
<1>1. PICK f : f = [r \in Requests |-> ExpiresAt(r)]
  OBVIOUS
<1>2. PICK E : E = Expired
  OBVIOUS
<1>3. IsFiniteSet(E) /\ E # {} /\ E \subseteq Requests
  BY <1>2, ExpiredFinite DEF OpenRows
<1>4. \A r \in E : f[r] = ExpiresAt(r) /\ f[r] \in Int
  BY <1>1, <1>3, BillingAssumption DEF ExpiresAt, TypeOK, Row
<1>5. Cardinality(E) \in Nat /\ Cardinality(E) # 0
  BY <1>3, FS_EmptySet, FS_CardinalityType
<1>6. PICK k : k = Smaller(SweepLimit, Cardinality(E))
  OBVIOUS
<1>7. k \in Nat /\ k # 0 /\ k <= Cardinality(E)
  BY <1>5, <1>6, BillingAssumption DEF Smaller
<1>8. PICK P \in SUBSET E : Cardinality(P) = k /\ \A r \in P, q \in E \ P : f[r] <= f[q]
  BY <1>3, <1>4, <1>7, FirstPart DEF IntsOn
<1>9. P # {}
  BY <1>7, <1>8, FS_EmptySet
<1>10. \A r \in P, q \in E \ P : ExpiresAt(r) <= ExpiresAt(q)
  BY <1>4, <1>8
<1>11. IsBatch(P)
  BY <1>2, <1>6, <1>8, <1>9, <1>10 DEF IsBatch
<1>. QED BY <1>2, <1>11

\* What a batch frees of an account is part of what the account sets aside.
LEMMA BatchPasses ==
  ASSUME TypeOK, HoldsMatchRows, NEW S \in SUBSET Expired
  PROVE  TriggersPass(S)
<1>1. \A r \in S : ReleaseMatches(r, FALSE)
  BY DEF Expired, OpenRows, ReleaseMatches
<1>2. ASSUME NEW o \in Owners
      PROVE  AccountGuard(FreedBy(S, o))
  <2>1. PICK n : n = SumOver(Estimates, S \cap OfOwner(o))
    OBVIOUS
  <2>. DEFINE D == OpenRows \cap OfOwner(o)
  <2>2. S \cap OfOwner(o) \in SUBSET D
    BY ExpiredFinite
  <2>3. IsFiniteSet(D) /\ \A x \in D : Estimates[x] \in Nat
    BY HeldSets
  <2>4. account[o].reserved = SumOver(Estimates, D)
    BY DEF HoldsMatchRows, OpenCredits
  <2>. HIDE DEF D
  <2>5. n \in Nat /\ n <= account[o].reserved
    BY <2>1, <2>2, <2>3, <2>4, SumPart
  <2>6. FreedBy(S, o) = [account[o] EXCEPT !.reserved = @ - n]
    BY <2>1 DEF FreedBy
  <2>7. account[o] \in Account /\ AccountGuard(account[o])
    BY DEF TypeOK
  <2>8. /\ FreedBy(S, o).included = account[o].included
        /\ FreedBy(S, o).prepaid = account[o].prepaid
        /\ FreedBy(S, o).reserved = account[o].reserved - n
    BY <2>6, <2>7 DEF Account
  <2>9. account[o].reserved - n \in 0 .. (account[o].included + account[o].prepaid)
    BY <2>5, AccountFields
  <2>. QED BY <2>7, <2>8, <2>9 DEF AccountGuard
<1>. QED BY <1>1, <1>2 DEF TriggersPass

\* For any number of rows and owners and any limit on a sweep, a hold that ran out before
\* its dispatch always finds a batch, and no trigger aborts it.
THEOREM SweepAlwaysFree == Spec => []SweepNeverBlocked
<1>1. TypeOK /\ HoldsMatchRows => SweepNeverBlocked
  BY BatchExists, BatchPasses DEF SweepNeverBlocked
<1>. QED BY <1>1, TypeCorrect, HoldsAlwaysMatch, PTL
=============================================================================
