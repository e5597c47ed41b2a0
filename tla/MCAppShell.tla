------------------------------ MODULE MCAppShell ------------------------------
(***************************************************************************)
(* AppShell for TLC: three pages, two of which load the controller, an    *)
(* icon, an asset no install caches, three modules, two releases.         *)
(***************************************************************************)
EXTENDS AppShell

CONSTANTS m1, m2, m3

MCPages == {"index", "create", "editor"}
MCShellPages == {"index", "create"}
MCCore == MCPages \cup {"icon"}
MCExtra == {"font"}
MCCacheFirst == {"icon", "font"}
MCModules == {m1, m2, m3}
MCSections == 1 .. 2
MCToasts == 1 .. 2

\* The parts of a page take turns, as the module registry, the messages and the
\* scrolling share no state, and the caches and releases move while the page is at rest,
\* as they meet it only in what it asks of them.  One write to a cache is late at a time.
Messaging == said # "" \/ frames # <<>> \/ toasts # [i \in Toasts |-> NoToast]
Scrolling == waiting # {} \/ section # 1 \/ shell.started \in 1 .. 3
Registering == modules # {}

TakeTurns ==
  /\ Cardinality(puts) <= 1 /\ Len(frames) <= 2
  /\ Messaging => ~Scrolling
  /\ Registering => ~Messaging /\ ~Scrolling
  /\ Messaging \/ Scrolling \/ Registering => release = 1 /\ order = <<>>

Interchangeable == Permutations(Modules)
=============================================================================
