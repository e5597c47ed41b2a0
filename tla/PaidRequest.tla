----------------------------- MODULE PaidRequest -----------------------------
(***************************************************************************)
(* What the Worker, the gateway and the adapter together promise about one *)
(* paid request, without their three databases: the vendor bills at most   *)
(* once, and only a request whose credits are held; the hold ends as a     *)
(* charge of exactly what was billed, or as a refund of a request that was *)
(* not billed and never will be.                                           *)
(***************************************************************************)
CONSTANTS Requests, Usages, NoUsage

VARIABLES
  phase,   \* where each request stands
  billed,  \* what the vendor billed for it
  charged  \* what the owner was charged for it

paidVars == <<phase, billed, charged>>

PaidInit ==
  /\ phase = [r \in Requests |-> "none"]
  /\ billed = [r \in Requests |-> NoUsage]
  /\ charged = [r \in Requests |-> NoUsage]

Hold(r) ==
  /\ phase[r] = "none"
  /\ phase' = [phase EXCEPT ![r] = "held"]
  /\ UNCHANGED <<billed, charged>>

Dispatch(r) ==
  /\ phase[r] = "held"
  /\ phase' = [phase EXCEPT ![r] = "dispatched"]
  /\ UNCHANGED <<billed, charged>>

Bill(r, u) ==
  /\ phase[r] = "dispatched" /\ billed[r] = NoUsage
  /\ billed' = [billed EXCEPT ![r] = u]
  /\ UNCHANGED <<phase, charged>>

Charge(r) ==
  /\ phase[r] = "dispatched" /\ billed[r] # NoUsage
  /\ phase' = [phase EXCEPT ![r] = "charged"]
  /\ charged' = [charged EXCEPT ![r] = billed[r]]
  /\ UNCHANGED billed

Refund(r) ==
  /\ phase[r] \in {"held", "dispatched"} /\ billed[r] = NoUsage
  /\ phase' = [phase EXCEPT ![r] = "refunded"]
  /\ UNCHANGED <<billed, charged>>

PaidNext ==
  \E r \in Requests :
    Hold(r) \/ Dispatch(r) \/ Charge(r) \/ Refund(r) \/ \E u \in Usages : Bill(r, u)

PaidSpec == PaidInit /\ [][PaidNext]_paidVars
=============================================================================
