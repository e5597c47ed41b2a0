----------------------------- MODULE MCChatClient -----------------------------
EXTENDS ChatClient, TLC

CONSTANTS t1, t2, u1, u2, k1, k2

\* The accounts are interchangeable; the tabs are not, the chat is open in one.
Interchangeable == Permutations(Users)

\* crypto.randomUUID() hands out k1 first.
InOrder == asker[k2] # Nobody => asker[k1] # Nobody

Signings == {t \in Tabs : page[t].signing # NoCall}
Refreshes == {t \in Tabs : page[t].refreshing # NoCall}
AccountCalls == Cardinality(Signings) + Cardinality(Refreshes) + Cardinality(leaving)
Asked == {k \in Keys : asker[k] # Nobody}
ChatUsed == Asked # {} \/ \E t \in ChatTabs : op[t] # NoOp \/ current[t] # NotLoaded

\* The two tabs race over the sign-in alone.  While the chat is used its tab is the only
\* one, with one call for the account at a time, and none while a transmission goes on
\* without its page or after the request is over; once there is a second request its
\* account stays signed in.
FewCalls ==
  /\ InOrder
  /\ AccountCalls <= 3 /\ ChatTabs \subseteq open
  /\ ChatUsed =>
       /\ open = ChatTabs /\ AccountCalls <= 1
       /\ (\E k \in Keys : orphans[k] > 0) => AccountCalls = 0
       /\ (Asked # {} /\ \A u \in Owners : disk[u].pending = NoKey) => AccountCalls = 0
       /\ \A t \in ChatTabs : alive \subseteq {cookie, page[t].user}
  /\ Asked = Keys => /\ AccountCalls = 0 /\ ~blocked
                     /\ \A t \in ChatTabs : page[t].user \in {cookie} \cap alive
=============================================================================
