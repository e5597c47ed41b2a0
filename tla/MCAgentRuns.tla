----------------------------- MODULE MCAgentRuns -----------------------------
(***************************************************************************)
(* Values for model checking AgentRuns: a run that the queue delivers      *)
(* twice, a repeat of its request under the same key, and another request  *)
(* of the owner for the only slot.                                         *)
(***************************************************************************)
EXTENDS AgentRuns, TLC

CONSTANTS c1, c2, c3, d1, d2, alice, k1, k2

AllAcks == {"done", "lost", "failed"}
OneOwner == [c \in Calls |-> alice]
Keys == [c \in Calls |-> IF c = c2 THEN k2 ELSE k1]
FirstTwice == [c \in Calls |-> IF c = c1 THEN Deliveries ELSE {}]

Interchangeable == Permutations(Deliveries)
==============================================================================
