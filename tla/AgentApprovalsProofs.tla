------------------------ MODULE AgentApprovalsProofs ------------------------
(***************************************************************************)
(* Proofs about AgentApprovals for any numbers of steps, approvals, owner  *)
(* calls and workers.  The three properties together are inductive: a      *)
(* claim finds the step unbegun and fitting, and nothing rewrites a step   *)
(* that has begun or a decision that was taken.                            *)
(***************************************************************************)
EXTENDS AgentApprovals, TLAPS

IInv == TypeOK /\ SuccessIsTrue /\ ExecutesWhatWasApproved

LEMMA Initially == Init => IInv
BY DEF Init, IInv, TypeOK, SuccessIsTrue, ExecutesWhatWasApproved

LEMMA OwnerKeeps == ASSUME IInv, NEW d \in Decisions, Owner(d) PROVE IInv'
<1>1. On[d] \in Approvals /\ Verdict[d] \in {"approve", "deny"} BY ApprovalsAssumption
<1>2. CASE ReadApproval(d) \/ ReadBoundStep(d)
  <2>1. /\ UNCHANGED <<waiting, step, input, decision, late, use>>
        /\ \E pc \in {"binding", "deciding", "conflict"} : asked' = [asked EXCEPT ![d] = pc]
    BY <1>2 DEF ReadApproval, ReadBoundStep, Decided
  <2> QED BY <2>1 DEF IInv, TypeOK, SuccessIsTrue, ExecutesWhatWasApproved
<1>3. ASSUME NEW ack \in Acks, Decide(d, ack) PROVE IInv'
  <2>1. UNCHANGED <<waiting, step, input, late, use>> BY <1>3 DEF Decide
  <2>2. PICK pc \in {"ok", "conflict", "error"} :
          asked' = [asked EXCEPT ![d] = pc] /\ (pc = "ok" => Decidable(d) /\ ack = "done")
    BY <1>3 DEF Decide, Decided, Confirmed
  <2>3. CASE decision' = decision /\ pc # "ok"
    BY <2>1, <2>2, <2>3 DEF IInv, TypeOK, SuccessIsTrue, ExecutesWhatWasApproved
  <2>4. CASE Decidable(d) /\ decision' = [decision EXCEPT ![On[d]] = Verdict[d]]
    <3>1. /\ decision' \in [Approvals -> {"pending", "approve", "deny"}]
          /\ decision[On[d]] = "pending" /\ decision'[On[d]] = Verdict[d]
          /\ \A a \in Approvals \ {On[d]} : decision'[a] = decision[a]
      BY <1>1, <2>4 DEF Decidable, IInv, TypeOK
    <3>2. \A a \in Approvals : decision'[a] = "approve" => BoundTo[a] # NoStep
      <4>1. decision'[On[d]] = "approve" => BoundTo[On[d]] # NoStep
        BY <2>4, <3>1 DEF Decidable, Fits
      <4> QED BY <3>1, <4>1 DEF IInv, TypeOK
    <3>3. TypeOK' BY <2>1, <2>2, <3>1, <3>2 DEF IInv, TypeOK
    <3>4. SuccessIsTrue'
      <4>1. SUFFICES ASSUME NEW e \in Decisions, asked'[e] = "ok"
                     PROVE  decision'[On[e]] = Verdict[e]
        BY DEF SuccessIsTrue
      <4>2. On[e] \in Approvals /\ Verdict[e] \in {"approve", "deny"} BY ApprovalsAssumption
      <4>3. CASE e = d BY <4>3, <3>1
      <4>4. CASE e # d
        <5>1. asked[e] = "ok" BY <4>1, <4>4, <2>2 DEF IInv, TypeOK
        <5>2. decision[On[e]] = Verdict[e] BY <5>1 DEF IInv, SuccessIsTrue
        <5> QED BY <5>2, <4>2, <3>1
      <4> QED BY <4>3, <4>4
    <3>5. \A u \in Uses : use[u] = "authorized" => decision'[Via[u]] = decision[Via[u]]
      BY <3>1, ApprovalsAssumption DEF IInv, ExecutesWhatWasApproved
    <3>6. ExecutesWhatWasApproved' BY <2>1, <3>5 DEF IInv, ExecutesWhatWasApproved
    <3> QED BY <3>3, <3>4, <3>6 DEF IInv
  <2> QED BY <1>3, <2>2, <2>3, <2>4 DEF Decide, Written
<1> QED BY <1>2, <1>3 DEF Owner

LEMMA ExecutorKeeps == ASSUME IInv, NEW u \in Uses, Executor(u) PROVE IInv'
<1>1. /\ ToRun[u] \in Steps /\ Via[u] \in Approvals
      /\ \A v \in Uses : ToRun[v] \in Steps
  BY ApprovalsAssumption
<1>2. CASE CheckApproval(u) \/ CheckStep(u)
  <2>1. /\ UNCHANGED <<waiting, step, input, decision, late, asked>>
        /\ \E pc \in {"approved", "claiming", "rejected"} : use' = [use EXCEPT ![u] = pc]
    BY <1>2 DEF CheckApproval, CheckStep, Gets
  <2> QED BY <2>1 DEF IInv, TypeOK, SuccessIsTrue, ExecutesWhatWasApproved
<1>3. ASSUME NEW ack \in Acks, ClaimStep(u, ack) PROVE IInv'
  <2>1. UNCHANGED <<waiting, input, decision, late, asked>> BY <1>3 DEF ClaimStep
  <2>2. PICK pc \in {"authorized", "rejected"} :
          use' = [use EXCEPT ![u] = pc] /\ (pc = "authorized" => Claimable(u) /\ ack = "done")
    BY <1>3 DEF ClaimStep, Gets, Confirmed
  <2>3. CASE step' = step /\ pc # "authorized"
    BY <2>1, <2>2, <2>3 DEF IInv, TypeOK, SuccessIsTrue, ExecutesWhatWasApproved
  <2>4. CASE Claimable(u) /\ step' = [step EXCEPT ![ToRun[u]] = "running"]
    <3>1. /\ step' \in [Steps -> {"planned", "running", "finished"}]
          /\ step'[ToRun[u]] = "running"
          /\ \A s \in Steps \ {ToRun[u]} : step'[s] = step[s] /\ step[s] # "running"
      BY <1>1, <2>4 DEF Claimable, IInv, TypeOK
    <3>2. /\ step[ToRun[u]] = "planned" /\ input[ToRun[u]] = With[u] /\ Shown[Via[u]] = With[u]
          /\ decision[Via[u]] = "approve"
      BY <2>4 DEF Claimable, Fits, Granted
    <3>3. TypeOK' /\ SuccessIsTrue' BY <2>1, <2>2, <3>1 DEF IInv, TypeOK, SuccessIsTrue
    <3>4. use' \in [Uses -> {"idle", "approved", "claiming", "authorized", "rejected"}]
          /\ use'[u] = pc /\ \A v \in Uses \ {u} : use'[v] = use[v]
      BY <2>2 DEF IInv, TypeOK
    <3>5. \A v \in Uses : use[v] = "authorized" => ToRun[v] # ToRun[u]
      BY <3>2 DEF IInv, ExecutesWhatWasApproved
    <3>6. ASSUME NEW v \in Uses, use'[v] = "authorized"
          PROVE  /\ decision'[Via[v]] = "approve" /\ Shown[Via[v]] = With[v]
                 /\ step'[ToRun[v]] # "planned" /\ input'[ToRun[v]] = With[v]
      <4>1. CASE v = u BY <4>1, <2>1, <3>1, <3>2
      <4>2. CASE v # u
        BY <4>2, <3>6, <1>1, <2>1, <3>1, <3>4, <3>5 DEF IInv, ExecutesWhatWasApproved
      <4> QED BY <4>1, <4>2
    <3>7. \A v, w \in Uses : use'[v] = "authorized" /\ use'[w] = "authorized" /\ ToRun[v] = ToRun[w] => v = w
      BY <3>4, <3>5 DEF IInv, ExecutesWhatWasApproved
    <3>8. \A s, t \in Steps : step'[s] = "running" /\ step'[t] = "running" => s = t BY <3>1
    <3> QED BY <3>3, <3>6, <3>7, <3>8 DEF IInv, ExecutesWhatWasApproved
  <2> QED BY <1>3, <2>2, <2>3, <2>4 DEF ClaimStep, Written
<1> QED BY <1>2, <1>3 DEF Executor

LEMMA PlannerKeeps == ASSUME IInv, NEW s \in Steps, Planner(s) PROVE IInv'
<1>1. \A u \in Uses : ToRun[u] \in Steps BY ApprovalsAssumption
<1>2. CASE Finish(s)
  BY <1>1, <1>2 DEF Finish, IInv, TypeOK, SuccessIsTrue, ExecutesWhatWasApproved
<1>3. ASSUME NEW i \in Inputs, Replan(s, i) PROVE IInv'
  BY <1>1, <1>3 DEF Replan, IInv, TypeOK, SuccessIsTrue, ExecutesWhatWasApproved
<1> QED BY <1>2, <1>3 DEF Planner

LEMMA StepKeeps == IInv /\ [Next]_vars => IInv'
<1> SUFFICES ASSUME IInv, [Next]_vars PROVE IInv' OBVIOUS
<1>1. CASE \E d \in Decisions : Owner(d) BY <1>1, OwnerKeeps
<1>2. CASE \E u \in Uses : Executor(u) BY <1>2, ExecutorKeeps
<1>3. CASE \E s \in Steps : Planner(s) BY <1>3, PlannerKeeps
<1>4. ASSUME NEW a \in Approvals, Expire(a) PROVE IInv'
  BY <1>4 DEF Expire, IInv, TypeOK, SuccessIsTrue, ExecutesWhatWasApproved
<1>5. CASE StopWaiting
  BY <1>5 DEF StopWaiting, IInv, TypeOK, SuccessIsTrue, ExecutesWhatWasApproved
<1>6. CASE UNCHANGED vars
  BY <1>6 DEF vars, IInv, TypeOK, SuccessIsTrue, ExecutesWhatWasApproved
<1> QED BY <1>1, <1>2, <1>3, <1>4, <1>5, <1>6 DEF Next

THEOREM Inductive == Spec => []IInv
BY Initially, StepKeeps, PTL DEF Spec

\* Types, and no approval without a step is ever granted.
THEOREM TypeCorrect == Spec => []TypeOK
<1>1. IInv => TypeOK BY DEF IInv
<1> QED BY <1>1, Inductive, PTL

\* An owner told "ok" can rely on the decision.
THEOREM SuccessTrue == Spec => []SuccessIsTrue
<1>1. IInv => SuccessIsTrue BY DEF IInv
<1> QED BY <1>1, Inductive, PTL

\* A worker executes what the owner approved, alone, one step of the run at a time.
THEOREM OnlyTheApproved == Spec => []ExecutesWhatWasApproved
<1>1. IInv => ExecutesWhatWasApproved BY DEF IInv
<1> QED BY <1>1, Inductive, PTL
==============================================================================
