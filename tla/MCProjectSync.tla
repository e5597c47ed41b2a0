--------------------------- MODULE MCProjectSync ---------------------------
(***************************************************************************)
(* Instances of ProjectSync: two tabs over two projects with every fault,  *)
(* and one tab over one project with none.  Projects, tabs and flushes are *)
(* interchangeable.                                                        *)
(***************************************************************************)
EXTENDS ProjectSync, TLC

CONSTANTS p1, p2, t1, t2, f1, f2

Interchangeable ==
  Permutations(Projects) \cup Permutations(Tabs) \cup Permutations(Flushes)
\* Two calls at a time, of either kind, and one request of a sender who gave up; a third
\* save or removal where one project was touched, one flush runs, every request was
\* answered and every read succeeded.
Busy == {t \in Tabs : save[t] # NoSave} \cup {f \in Flushes : push[f] # NoPush}
Touched == {p \in Projects :
  recovery[p] # 0 \/ queue[p] # NoChange \/ cloud[p].operation # "none"}
Fallback(f) == push[f].phase \in {"read", "sent", "accepted"} /\ push[f].fallback
FewCalls ==
  /\ Cardinality(Busy) <= 2 /\ Cardinality(late) <= 1
  /\ tick = 3 =>
       /\ Cardinality(Touched) <= 1 /\ late = {}
       /\ Cardinality(Busy \cap Flushes) <= 1
       /\ \A f \in Flushes : ~Fallback(f)
=============================================================================
