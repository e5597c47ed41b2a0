-------------------------- MODULE MCMeteredDispatch --------------------------
(***************************************************************************)
(* Values for model checking MeteredDispatch.  Deliveries of one POST are  *)
(* interchangeable, and so are the two measures of usage.                  *)
(***************************************************************************)
EXTENDS MeteredDispatch, TLC

CONSTANTS r1, d1, d2, u1, u2

AllAcks == {"done", "lost", "failed"}

Interchangeable == Permutations({d1, d2}) \cup Permutations({u1, u2})
==============================================================================
