--------------------------- MODULE AgentApprovals ---------------------------
(***************************************************************************)
(* Approvals of one agent run: the owner decides them (decideApproval in   *)
(* backend/worker.mjs), and a worker that is about to use a tool with      *)
(* consequences claims the step the approval is bound to                   *)
(* (authorizeAgentToolForRun in backend/agent-runtime.mjs).  The planner   *)
(* that inserts, rewrites and finishes steps is no part of the repository. *)
(*                                                                         *)
(* An input stands for the name of the tool and the hash of its arguments. *)
(* Reads and writes of one call are steps of their own.                    *)
(***************************************************************************)
CONSTANTS
  Steps, Approvals, Inputs,
  NoStep,
  BoundTo, Shown,              \* step_id, and action_type with input_hash, of an approval
  Decisions, On, Verdict,      \* decideApproval's calls
  Uses, Via, ToRun, With,      \* authorizeAgentToolForRun's calls
  Acks

ASSUME ApprovalsAssumption ==
  /\ BoundTo \in [Approvals -> Steps \cup {NoStep}]
  /\ \A a, b \in Approvals : BoundTo[a] = BoundTo[b] /\ BoundTo[a] # NoStep => a = b
  /\ Shown \in [Approvals -> Inputs]
  /\ NoStep \notin Steps
  /\ On \in [Decisions -> Approvals] /\ Verdict \in [Decisions -> {"approve", "deny"}]
  /\ Via \in [Uses -> Approvals] /\ ToRun \in [Uses -> Steps] /\ With \in [Uses -> Inputs]
  /\ Acks \subseteq {"done", "lost", "failed"}

VARIABLES
  waiting,   \* the run is awaiting_approval
  step,      \* status of agent_steps, with started_at and finished_at
  input,     \* tool_name and input_hash of agent_steps
  decision,  \* agent_approvals
  late,      \* expires_at has passed
  asked,     \* decideApproval's calls
  use        \* authorizeAgentToolForRun's calls

vars == <<waiting, step, input, decision, late, asked, use>>

-----------------------------------------------------------------------------
Written(ack) == ack # "failed"
Confirmed(matched, ack) == matched /\ ack = "done"

\* A step that has not begun, and is the one an approval was shown for.
Fits(a, s) == BoundTo[a] = s /\ s # NoStep /\ step[s] = "planned" /\ input[s] = Shown[a]

Decided(d, pc) == asked' = [asked EXCEPT ![d] = pc]

ReadApproval(d) ==
  /\ asked[d] = "idle"
  /\ Decided(d, IF decision[On[d]] # "pending" \/ ~waiting \/ late[On[d]] THEN "conflict"
                ELSE IF Verdict[d] = "approve" THEN "binding" ELSE "deciding")
  /\ UNCHANGED <<waiting, step, input, decision, late, use>>

ReadBoundStep(d) ==
  /\ asked[d] = "binding"
  /\ Decided(d, IF Fits(On[d], BoundTo[On[d]]) THEN "deciding" ELSE "conflict")
  /\ UNCHANGED <<waiting, step, input, decision, late, use>>

\* Seeded fault: the update relies on the reads before it.
AsRead(d) == TRUE

Decidable(d) ==
  /\ decision[On[d]] = "pending" /\ ~late[On[d]] /\ waiting
  /\ Verdict[d] = "approve" => Fits(On[d], BoundTo[On[d]])

Decide(d, ack) ==
  /\ asked[d] = "deciding"
  /\ decision' = IF Decidable(d) /\ Written(ack) THEN [decision EXCEPT ![On[d]] = Verdict[d]]
                 ELSE decision
  /\ Decided(d, IF Confirmed(Decidable(d), ack) THEN "ok"
                ELSE IF ack = "done" THEN "conflict" ELSE "error")
  /\ UNCHANGED <<waiting, step, input, late, use>>

-----------------------------------------------------------------------------
Gets(u, pc) == use' = [use EXCEPT ![u] = pc]

Granted(a) == decision[a] = "approve" /\ waiting /\ ~late[a]

CheckApproval(u) ==
  /\ use[u] = "idle"
  /\ Gets(u, IF Granted(Via[u]) /\ BoundTo[Via[u]] = ToRun[u] /\ Shown[Via[u]] = With[u]
             THEN "approved" ELSE "rejected")
  /\ UNCHANGED <<waiting, step, input, decision, late, asked>>

CheckStep(u) ==
  /\ use[u] = "approved"
  /\ Gets(u, IF step[ToRun[u]] = "planned" /\ input[ToRun[u]] = With[u] THEN "claiming" ELSE "rejected")
  /\ UNCHANGED <<waiting, step, input, decision, late, asked>>

\* Seeded fault: the claim leaves the arguments to the check before it.
AnyArguments(u) == step[ToRun[u]] = "planned" /\ Granted(Via[u])

\* Another step of the run that has begun and not finished keeps this one from beginning.
Claimable(u) ==
  /\ Fits(Via[u], ToRun[u]) /\ Shown[Via[u]] = With[u]
  /\ Granted(Via[u])
  /\ \A other \in Steps \ {ToRun[u]} : step[other] # "running"

ClaimStep(u, ack) ==
  /\ use[u] = "claiming"
  /\ step' = IF Claimable(u) /\ Written(ack) THEN [step EXCEPT ![ToRun[u]] = "running"] ELSE step
  /\ Gets(u, IF Confirmed(Claimable(u), ack) THEN "authorized" ELSE "rejected")
  /\ UNCHANGED <<waiting, input, decision, late, asked>>

-----------------------------------------------------------------------------
\* The planner rewrites a step that has not begun, finishes one that has, or leaves the
\* state in which approvals are asked for; so does the owner's cancellation.
Replan(s, i) ==
  /\ step[s] = "planned" /\ input[s] # i
  /\ input' = [input EXCEPT ![s] = i]
  /\ UNCHANGED <<waiting, step, decision, late, asked, use>>

Finish(s) ==
  /\ step[s] = "running"
  /\ step' = [step EXCEPT ![s] = "finished"]
  /\ UNCHANGED <<waiting, input, decision, late, asked, use>>

StopWaiting ==
  /\ waiting /\ waiting' = FALSE
  /\ UNCHANGED <<step, input, decision, late, asked, use>>

Expire(a) ==
  /\ ~late[a]
  /\ late' = [late EXCEPT ![a] = TRUE]
  /\ UNCHANGED <<waiting, step, input, decision, asked, use>>

Init ==
  /\ waiting = TRUE
  /\ step = [s \in Steps |-> "planned"]
  /\ input \in [Steps -> Inputs]
  /\ decision = [a \in Approvals |-> "pending"]
  /\ late = [a \in Approvals |-> FALSE]
  /\ asked = [d \in Decisions |-> "idle"]
  /\ use = [u \in Uses |-> "idle"]

Owner(d) == ReadApproval(d) \/ ReadBoundStep(d) \/ \E ack \in Acks : Decide(d, ack)
Executor(u) == CheckApproval(u) \/ CheckStep(u) \/ \E ack \in Acks : ClaimStep(u, ack)
Planner(s) == Finish(s) \/ \E i \in Inputs : Replan(s, i)

Next ==
  \/ \E d \in Decisions : Owner(d)
  \/ \E u \in Uses : Executor(u)
  \/ \E s \in Steps : Planner(s)
  \/ \E a \in Approvals : Expire(a)
  \/ StopWaiting

Spec == Init /\ [][Next]_vars

-----------------------------------------------------------------------------
(* Properties *)

TypeOK ==
  /\ waiting \in BOOLEAN
  /\ step \in [Steps -> {"planned", "running", "finished"}]
  /\ input \in [Steps -> Inputs]
  /\ decision \in [Approvals -> {"pending", "approve", "deny"}]
  /\ \A a \in Approvals : decision[a] = "approve" => BoundTo[a] # NoStep
  /\ late \in [Approvals -> BOOLEAN]
  /\ asked \in [Decisions -> {"idle", "binding", "deciding", "ok", "conflict", "error"}]
  /\ use \in [Uses -> {"idle", "approved", "claiming", "authorized", "rejected"}]

\* The owner who is told that a decision was taken can rely on it: no other call of the
\* owner's has decided otherwise, before or since.
SuccessIsTrue == \A d \in Decisions : asked[d] = "ok" => decision[On[d]] = Verdict[d]

\* However workers, planner and owner interleave: what a worker may execute is what the
\* owner was shown and approved, for a step nobody else executes, and while it executes no
\* other step of the run has begun without finishing.
ExecutesWhatWasApproved ==
  /\ \A u \in Uses : use[u] = "authorized" =>
       /\ decision[Via[u]] = "approve" /\ Shown[Via[u]] = With[u]
       /\ step[ToRun[u]] # "planned" /\ input[ToRun[u]] = With[u]
  /\ \A u, v \in Uses : use[u] = "authorized" /\ use[v] = "authorized" /\ ToRun[u] = ToRun[v] => u = v
  /\ \A s, t \in Steps : step[s] = "running" /\ step[t] = "running" => s = t
==============================================================================
