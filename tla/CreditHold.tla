----------------------------- MODULE CreditHold -----------------------------
(***************************************************************************)
(* What the chat billing database promises about one paid request, without *)
(* its tables: a quoted number of credits is held, the request is          *)
(* dispatched, and the hold ends exactly once: as a charge of at most the  *)
(* quote, or as a refund.  Any open hold may be refunded, and the sweep    *)
(* refunds several undispatched ones at once; a charge needs a dispatch.   *)
(***************************************************************************)
EXTENDS Integers

CONSTANT Requests

VARIABLES
  phase,    \* where each request stands
  quote,    \* credits set aside for it
  charged   \* credits finally taken for it

holdVars == <<phase, quote, charged>>

Phases == {"none", "held", "dispatched", "charged", "refunded"}

HoldInit ==
  /\ phase = [r \in Requests |-> "none"]
  /\ quote = [r \in Requests |-> 0]
  /\ charged = [r \in Requests |-> 0]

Hold(r) ==
  /\ phase[r] = "none"
  /\ phase' = [phase EXCEPT ![r] = "held"]
  /\ quote'[r] \in Nat \ {0}
  /\ quote' = [quote EXCEPT ![r] = quote'[r]]
  /\ UNCHANGED charged

Dispatch(r) ==
  /\ phase[r] = "held"
  /\ phase' = [phase EXCEPT ![r] = "dispatched"]
  /\ UNCHANGED <<quote, charged>>

Charge(r) ==
  /\ phase[r] = "dispatched"
  /\ phase' = [phase EXCEPT ![r] = "charged"]
  /\ charged'[r] \in 0 .. quote[r]
  /\ charged' = [charged EXCEPT ![r] = charged'[r]]
  /\ UNCHANGED quote

Refund(r) ==
  /\ phase[r] \in {"held", "dispatched"}
  /\ phase' = [phase EXCEPT ![r] = "refunded"]
  /\ UNCHANGED <<quote, charged>>

RefundUndispatched(S) ==
  /\ \A r \in S : phase[r] = "held"
  /\ phase' = [r \in Requests |-> IF r \in S THEN "refunded" ELSE phase[r]]
  /\ UNCHANGED <<quote, charged>>

HoldNext ==
  \/ \E r \in Requests : Hold(r) \/ Dispatch(r) \/ Charge(r) \/ Refund(r)
  \/ \E S \in SUBSET Requests : RefundUndispatched(S)

HoldSpec == HoldInit /\ [][HoldNext]_holdVars
=============================================================================
