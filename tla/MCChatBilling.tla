---------------------------- MODULE MCChatBilling ----------------------------
(***************************************************************************)
(* Values for model checking ChatBilling: price tables and the assignment  *)
(* of requests to owners.  The sizes of each run are in its cfg.           *)
(***************************************************************************)
EXTENDS ChatBilling, FiniteSetsExt, TLC

CONSTANTS o1, o2, r1, r2, r3, r4, p1, p2, p3

\* Every request bills the first owner, or all but r4 do.
OneOwner == [r \in Requests |-> o1]
TwoOwners == [r \in Requests |-> IF r = r4 THEN o2 ELSE o1]

\* At a ceiling of one token each way a hold is 3 micro-dollars and 2 credits, and
\* measured work costs 0, 1 or 2 credits; with no input token a hold is 2 and 1.
MCInputRate == [p \in Prices |-> 1]
MCOutputRate == [p \in Prices |-> 2]
MCCreditValue == [p \in Prices |-> 2]

\* Three prices, at which a hold is 3 micro-dollars and 1 credit, 2 and 2, or 1 and 1: some
\* limits are met by what is dear, others by what takes more credits.
MixedRate == [p \in Prices |-> CASE p = p1 -> 3 [] p = p2 -> 2 [] OTHER -> 1]
MixedValue == [p \in Prices |-> IF p = p1 THEN 3 ELSE 1]

\* The operator leaves alone what no window reads: the prices stay current, billing stays on
\* from the first request, and nobody's credits are topped up.
OnlyCyclesChange ==
  /\ currentPrices = Prices
  /\ policyEnabled \/ ledger = {}
  /\ \A o \in Owners : funded[o] = 2 * Max(Balances)

Interchangeable == Permutations({r1, r2})
==============================================================================
