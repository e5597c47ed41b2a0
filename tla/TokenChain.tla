------------------------------ MODULE TokenChain ------------------------------
(***************************************************************************)
(* What rotating refresh tokens promise for a session: its tokens form one *)
(* chain, each is exchanged at most once and for at most one successor,    *)
(* and a session that ended issues nothing any more.                       *)
(***************************************************************************)
EXTENDS Naturals

CONSTANT Sessions

VARIABLES
  state,   \* ready: the last token of the chain is unspent
  length   \* tokens issued so far

chainVars == <<state, length>>

Becomes(s, from, to) ==
  /\ state[s] \in from
  /\ state' = [state EXCEPT ![s] = to]

Spend(s) == Becomes(s, {"ready"}, "spent") /\ UNCHANGED length

Exchange(s) == Becomes(s, {"spent"}, "ready") /\ length' = [length EXCEPT ![s] = @ + 1]

\* Several sessions may end at once, and a new one may end others.
End(ended) ==
  /\ \A s \in ended : state[s] \in {"ready", "spent"}
  /\ state' = [s \in Sessions |-> IF s \in ended THEN "ended" ELSE state[s]]
  /\ UNCHANGED length

Begin(s, ended) ==
  /\ state[s] = "none" /\ \A e \in ended : state[e] \in {"ready", "spent"}
  /\ state' = [e \in Sessions |-> IF e = s THEN "ready" ELSE IF e \in ended THEN "ended" ELSE state[e]]
  /\ length' = [length EXCEPT ![s] = 1]

ChainInit ==
  /\ state = [s \in Sessions |-> "none"]
  /\ length = [s \in Sessions |-> 0]

ChainNext ==
  \/ \E s \in Sessions : Spend(s) \/ Exchange(s)
  \/ \E ended \in SUBSET Sessions : End(ended) \/ \E s \in Sessions : Begin(s, ended)

ChainSpec == ChainInit /\ [][ChainNext]_chainVars
=============================================================================
