-------------------------- MODULE MCAgentApprovals --------------------------
(***************************************************************************)
(* Values for model checking AgentApprovals: two steps with an approval    *)
(* each and an approval without a step; the first is approved twice and    *)
(* denied once, and three workers claim, one of them with other arguments. *)
(***************************************************************************)
EXTENDS AgentApprovals, TLC

CONSTANTS s1, s2, a1, a2, a3, i1, i2, d1, d2, d3, d4, u1, u2, u3, u4

Bindings == a1 :> s1 @@ a2 :> s2 @@ a3 :> NoStep
ShownInputs == a1 :> i1 @@ a2 :> i2 @@ a3 :> i1
OnApprovals == d1 :> a1 @@ d2 :> a1 @@ d3 :> a2 @@ d4 :> a3
Verdicts == d1 :> "approve" @@ d2 :> "deny" @@ d3 :> "approve" @@ d4 :> "approve"
ViaApprovals == u1 :> a1 @@ u2 :> a1 @@ u3 :> a2 @@ u4 :> a1
StepsToRun == u1 :> s1 @@ u2 :> s1 @@ u3 :> s2 @@ u4 :> s1
WithInputs == u1 :> i1 @@ u2 :> i1 @@ u3 :> i2 @@ u4 :> i2
AllAcks == {"done", "lost", "failed"}

Interchangeable == Permutations({u1, u2})
==============================================================================
