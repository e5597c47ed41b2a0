------------------------------ MODULE ChatClient ------------------------------
(***************************************************************************)
(* The chat page (assets/js/chat-core.js) over the sign-in state of        *)
(* AuthClient: a paid request is written to localStorage before it is      *)
(* sent, and forgotten when its outcome is known.  The server is reduced   *)
(* to the row of each request key (backend/chat-execution.mjs and          *)
(* backend/chat-billing.mjs; ChatBilling has the rest).  The AI service is *)
(* connected: without it a message is saved and nothing is sent.           *)
(***************************************************************************)
EXTENDS AuthClient

CONSTANTS
  ChatTabs,     \* the tabs the chat is open in
  Keys,         \* request keys, crypto.randomUUID()
  NoKey, NoOp, NotLoaded,
  Void,         \* an operation that will throw when it resumes
  Nobody,       \* op.accountOwner is null: bound to no account yet
  MaxOrphans    \* bound: transmissions of a key on their way with nobody listening

ASSUME ChatTabsAssumption == ChatTabs \subseteq Tabs
ASSUME NobodyAssumption == Nobody \notin Users \cup {Guest} /\ NoKey \notin Keys
ASSUME NotLoadedAssumption ==
  NotLoaded \notin [owner : Users \cup {Guest}, pending : Keys \cup {NoKey}, replies : SUBSET Keys]
ASSUME OrphansAssumption == MaxOrphans \in Nat \ {0}

Owners == Users \cup {Guest}

VARIABLES
  disk,      \* localStorage[`uvenaro.chat.v2:${owner}`]: the pending key and the replies
  current,   \* per tab: the copy of its owner's store in memory
  op,        \* per tab: active, the operation under way
  asker,     \* who owns each key
  row,       \* the reservation of each key at the server
  working,   \* keys a server call is executing
  orphans,   \* transmissions not yet served whose page no longer waits
  known,     \* history: keys whose outcome the page was told
  overtaken  \* history: keys refused while another transmission of them was on its way

server == <<row, working>>
chatVars == <<disk, current, op, asker, server, orphans, known, overtaken>>
vars == <<authVars, chatVars>>

ChatInit ==
  /\ disk = [u \in Owners |-> [pending |-> NoKey, replies |-> {}]]
  /\ current = [t \in ChatTabs |-> NotLoaded]
  /\ op = [t \in ChatTabs |-> NoOp]
  /\ asker = [k \in Keys |-> Nobody]
  /\ row = [k \in Keys |-> "none"]
  /\ working = {}
  /\ orphans = [k \in Keys |-> 0]
  /\ known = {}
  /\ overtaken = {}

\* Seeded fault: nobody listens to uvenaro:auth-change.
NotHeard(o, u) ==
  IF o \in {NoOp, Void} THEN o
  ELSE [o EXCEPT !.same = @ /\ o.owner \in {Nobody, u}]

\* uvenaro:auth-change: an operation bound to another account than the one signed in is
\* void for good.  "same" is a history: the account has not changed under the operation.
Heard(o, u) ==
  IF o \in {NoOp, Void} THEN o
  ELSE IF o.owner \in {Nobody, u} THEN o
  ELSE Void

AuthChange == op' = [t \in ChatTabs |-> Heard(op[t], page'[t].user)]

Active(t) == op[t] \notin {NoOp, Void}

\* assertCurrent: the operation is not void and its account is the one signed in.
Current(t, stage) ==
  Active(t) /\ op[t].stage = stage /\ op[t].owner \in {Nobody, page[t].user}

\* A transmission whose page gives up goes on without it, or is lost.
Drift ==
  orphans' = [k \in Keys |->
    IF /\ orphans[k] < MaxOrphans
       /\ \E t \in ChatTabs : Active(t) /\ op[t].stage = "posted" /\ op[t].key = k
                                /\ op'[t] \in {NoOp, Void}
    THEN orphans[k] + 1 ELSE orphans[k]]

\* save(): the browser may refuse, and the operation then throws.
Save(store, u) == disk' = [disk EXCEPT ![u] = store] \/ UNCHANGED disk

-----------------------------------------------------------------------------
(* run: send, retry and checkPending; restore is awaited first *)

Start(t, kind) ==
  /\ t \in open /\ op[t] = NoOp
  /\ op' = [op EXCEPT ![t] =
       [kind |-> kind, stage |-> "restoring", key |-> NoKey, answer |-> "none",
        owner |-> IF page[t].user = Guest THEN Nobody ELSE page[t].user,
        same |-> TRUE]]
  /\ UNCHANGED <<authVars, disk, current, asker, server, orphans, known, overtaken>>

\* restore is over: the operation is bound to the account it left signed in, if any.
Restored(t) ==
  /\ Current(t, "restoring")
  /\ page[t].user # Guest \/ page[t].refreshing = NoCall

\* store()
Store(t) ==
  LET u == page[t].user IN
  IF current[t] # NotLoaded /\ current[t].owner = u THEN current[t]
  ELSE [owner |-> u, pending |-> disk[u].pending, replies |-> disk[u].replies]

Kept(store) == [pending |-> store.pending, replies |-> store.replies]

\* send of a new text: the key is in memory and on disk before anything is sent.
Compose(t, k) ==
  /\ Restored(t) /\ op[t].kind = "send" /\ Store(t).pending = NoKey
  /\ asker[k] = Nobody
  /\ asker' = [asker EXCEPT ![k] = page[t].user]
  /\ current' = [current EXCEPT ![t] = [Store(t) EXCEPT !.pending = k]]
  /\ \/ /\ disk' = [disk EXCEPT ![page[t].user] = Kept(current'[t])]
        /\ op' = [op EXCEPT ![t] = [@ EXCEPT !.stage = "token", !.key = k, !.owner = page[t].user]]
     \/ UNCHANGED disk /\ op' = [op EXCEPT ![t] = NoOp]
  /\ UNCHANGED <<authVars, server, orphans, known, overtaken>>

\* retry, send of the same text again, and checkPending
Resume(t) ==
  /\ Restored(t) /\ op[t].kind # "send" /\ Store(t).pending # NoKey
  /\ current' = [current EXCEPT ![t] = Store(t)]
  /\ op' = [op EXCEPT ![t] =
       [@ EXCEPT !.stage = "token", !.key = Store(t).pending, !.owner = page[t].user]]
  /\ UNCHANGED <<authVars, disk, asker, server, orphans, known, overtaken>>

\* REQUEST_PENDING for another text; nothing to retry or to check
NothingToDo(t) ==
  /\ Restored(t) /\ (op[t].kind = "send") = (Store(t).pending # NoKey)
  /\ current' = [current EXCEPT ![t] = Store(t)]
  /\ op' = [op EXCEPT ![t] = NoOp]
  /\ UNCHANGED <<authVars, disk, asker, server, orphans, known, overtaken>>

\* transmit: a retry is saved again too; a request for the receipt is not.
Transmit(t) ==
  /\ Current(t, "token") /\ page[t].user # Guest
  /\ \/ /\ op[t].kind = "receipt"
        /\ op' = [op EXCEPT ![t].stage = "asked"]
        /\ UNCHANGED disk
     \/ /\ op[t].kind # "receipt"
        /\ \/ /\ disk' = [disk EXCEPT ![op[t].owner] = Kept(current[t])]
              /\ op' = [op EXCEPT ![t].stage = "posted"]
           \/ UNCHANGED disk /\ op' = [op EXCEPT ![t] = NoOp]
  /\ UNCHANGED <<authVars, current, asker, server, orphans, known, overtaken>>

\* tokenFor: nobody is signed in, or the refresh it needed failed.
TokenMissing(t) ==
  /\ Current(t, "token")
  /\ op' = [op EXCEPT ![t] = NoOp]
  /\ UNCHANGED <<authVars, disk, current, asker, server, orphans, known, overtaken>>

\* cancel, the timeout and a lost connection
StopWaiting(t) ==
  /\ Active(t)
  /\ op[t].kind # "receipt" \/ op[t].stage \in {"asked", "answered"}
  /\ op' = [op EXCEPT ![t] = Void]
  /\ Drift
  /\ UNCHANGED <<authVars, disk, current, asker, server, known, overtaken>>

\* assertCurrent throws in a void operation, whichever step it resumes at.
Abandon(t) ==
  /\ op[t] = Void
  /\ op' = [op EXCEPT ![t] = NoOp]
  /\ UNCHANGED <<authVars, disk, current, asker, server, orphans, known, overtaken>>

-----------------------------------------------------------------------------
(* The answers *)

Answer(t, answer) == Current(t, "answered") /\ op[t].answer = answer

\* The store once the outcome of its pending key is known
Settled(store, replies) == [store EXCEPT !.pending = NoKey, !.replies = @ \cup replies]

\* The operation ends with its key settled: forgotten in memory and then, if it can, on disk.
Forget(t, replies) ==
  /\ current' = [current EXCEPT ![t] = Settled(@, replies)]
  /\ Save(Kept(current'[t]), op[t].owner)
  /\ op' = [op EXCEPT ![t] = NoOp]

ReceiveReply(t) ==
  /\ Answer(t, "output")
  /\ Forget(t, {op[t].key})
  /\ known' = known \cup {op[t].key}
  /\ UNCHANGED <<authVars, asker, server, orphans, overtaken>>

\* definiteRejection
ReceiveRefusal(t) ==
  /\ Answer(t, "refused")
  /\ Forget(t, {})
  /\ UNCHANGED <<authVars, asker, server, orphans, known, overtaken>>

\* Seeded fault of checkPending: a receipt that is not found ends the request too.
ReceiptOrNone(t) ==
  /\ Answer(t, "closed") \/ Answer(t, "missing")
  /\ Forget(t, {})
  /\ known' = IF op[t].answer = "closed" THEN known \cup {op[t].key} ELSE known
  /\ UNCHANGED <<authVars, asker, server, orphans, overtaken>>

\* checkPending: settled or released
ReceiveReceipt(t) ==
  /\ Answer(t, "closed")
  /\ Forget(t, {})
  /\ known' = known \cup {op[t].key}
  /\ UNCHANGED <<authVars, asker, server, orphans, overtaken>>

\* Any other answer leaves the request pending; a receipt that is not found does too.
ReceiveNothing(t) ==
  /\ Answer(t, "open") \/ Answer(t, "missing") \/ Answer(t, "vague")
  /\ op' = [op EXCEPT ![t] = NoOp]
  /\ UNCHANGED <<authVars, disk, current, asker, server, orphans, known, overtaken>>

\* clear: refused while a request is under way or pending
Clear(t) ==
  /\ t \in open /\ op[t] = NoOp /\ Store(t).pending = NoKey
  /\ current' = [current EXCEPT ![t] = [Store(t) EXCEPT !.replies = {}]]
  /\ Save(Kept(current'[t]), page[t].user)
  /\ UNCHANGED <<authVars, op, asker, server, orphans, known, overtaken>>

-----------------------------------------------------------------------------
(* The server *)

Waiting(k, stage) == {t \in ChatTabs : Active(t) /\ op[t].key = k /\ op[t].stage = stage}

Told(t, answer) == op' = [op EXCEPT ![t] = [@ EXCEPT !.stage = "answered", !.answer = answer]]

\* reserveChat for a key without a row: reserved, or refused by a limit, a price or an error.
Reserve(k) ==
  /\ row[k] = "none"
  /\ row' = [row EXCEPT ![k] = "held"]
  /\ working' = working \cup {k}

ServePost(t) ==
  /\ Active(t) /\ op[t].stage = "posted"
  /\ LET k == op[t].key IN
     \/ Reserve(k) /\ op' = [op EXCEPT ![t].stage = "executing"] /\ UNCHANGED overtaken
     \/ /\ row[k] = "none" /\ UNCHANGED server /\ Told(t, "refused")
        /\ overtaken' = IF orphans[k] > 0 THEN overtaken \cup {k} ELSE overtaken
     \/ UNCHANGED <<server, overtaken>> /\ Told(t, "vague")
  /\ UNCHANGED <<authVars, disk, current, asker, orphans, known>>

ServeOrphan(k) ==
  /\ orphans[k] > 0
  /\ orphans' = [orphans EXCEPT ![k] = @ - 1]
  /\ Reserve(k) \/ UNCHANGED server
  /\ UNCHANGED <<authVars, disk, current, op, asker, known, overtaken>>

\* The call that executes k answers the page, if one still waits for it.
AnswerCall(k, answers) ==
  /\ working' = working \ {k}
  /\ IF Waiting(k, "executing") = {} THEN UNCHANGED op
     ELSE \E t \in Waiting(k, "executing"), a \in answers : Told(t, a)

\* beginDispatch, or its refusal with the release that follows and may fail
Dispatch(k) ==
  /\ k \in working
  /\ \/ /\ row[k] = "held"
        /\ row' = [row EXCEPT ![k] = "started"]
        /\ UNCHANGED <<working, op>>
     \/ /\ row[k] = "held"
        /\ row' \in {row, [row EXCEPT ![k] = "released"]}
        /\ AnswerCall(k, {"refused", "vague"})
     \/ /\ row[k] = "released"   \* by the sweep, or by the operator after dispatch
        /\ UNCHANGED row
        /\ AnswerCall(k, {"vague"})
  /\ UNCHANGED <<authVars, disk, current, asker, orphans, known, overtaken>>

\* After the provider call: settled, released as not billed, or left in doubt.
Execute(k) ==
  /\ k \in working /\ row[k] \in {"started", "settled"}
  /\ \/ /\ row' = [row EXCEPT ![k] = "settled"]
        /\ AnswerCall(k, {"output", "vague"})
     \/ /\ row[k] = "started"
        /\ row' = [row EXCEPT ![k] = "released"]
        /\ AnswerCall(k, {"refused", "vague"})
     \/ UNCHANGED row /\ AnswerCall(k, {"vague"})
  /\ UNCHANGED <<authVars, disk, current, asker, orphans, known, overtaken>>

\* expireUndispatched; and reconciliation of a started hold, also while its call still
\* works, which then finds the row closed.
CloseLater(k) ==
  /\ \/ row[k] = "held" /\ row' = [row EXCEPT ![k] = "released"]
     \/ row[k] = "started"
        /\ \E s \in {"settled", "released"} : row' = [row EXCEPT ![k] = s]
  /\ UNCHANGED <<authVars, disk, current, op, asker, working, orphans, known, overtaken>>

\* getChatReceipt
ServeReceipt(t) ==
  /\ Active(t) /\ op[t].stage = "asked"
  /\ LET k == op[t].key IN
     \/ row[k] = "none" /\ Told(t, "missing")
     \/ row[k] \in {"held", "started"} /\ Told(t, "open")
     \/ row[k] \in {"settled", "released"} /\ Told(t, "closed")
     \/ Told(t, "vague")
  /\ UNCHANGED <<authVars, disk, current, asker, server, orphans, known, overtaken>>

-----------------------------------------------------------------------------
\* A tab is reloaded or closed.
Reload(t) ==
  /\ LoadPage(t)
  /\ IF t \in ChatTabs
     THEN /\ op' = [op EXCEPT ![t] = NoOp]
          /\ Drift
          /\ current' = [current EXCEPT ![t] = NotLoaded]
     ELSE UNCHANGED <<op, orphans, current>>
  /\ UNCHANGED <<disk, asker, server, known, overtaken>>

Signing ==
  /\ AccountStep \/ \E t \in Tabs : AuthStep(t)
  /\ AuthChange
  /\ Drift
  /\ UNCHANGED <<disk, current, asker, server, known, overtaken>>

ChatStep(t) ==
  \/ \E kind \in {"send", "retry", "receipt"} : Start(t, kind)
  \/ \E k \in Keys : Compose(t, k)
  \/ Resume(t) \/ NothingToDo(t) \/ Transmit(t) \/ TokenMissing(t)
  \/ StopWaiting(t) \/ Abandon(t) \/ Clear(t)
  \/ ReceiveReply(t) \/ ReceiveRefusal(t) \/ ReceiveReceipt(t) \/ ReceiveNothing(t)
  \/ ServePost(t) \/ ServeReceipt(t)

Next ==
  \/ Signing
  \/ \E t \in Tabs : Reload(t)
  \/ \E t \in ChatTabs : ChatStep(t)
  \/ \E k \in Keys : ServeOrphan(k) \/ Dispatch(k) \/ Execute(k) \/ CloseLater(k)

Init == AuthInit /\ ChatInit

Spec == Init /\ [][Next]_vars

-----------------------------------------------------------------------------
\* A request that may cost money is never forgotten: once it is dispatched, its key is
\* pending on the device until the page has been told its outcome, through failed saves,
\* reloads, timeouts and changes of account.  The one exception is a key refused while an
\* earlier transmission of it was still on its way and is served afterwards.
PaidIsRemembered ==
  \A k \in Keys : row[k] \in {"started", "settled"} =>
    k \in known \cup overtaken \/ disk[asker[k]].pending = k

\* A reply is stored only for the account that asked, and only if that account has stayed
\* signed in in the tab since: not after a logout and login of the same person either.
RepliesStayHome ==
  [][\A u \in Owners : disk'[u] # disk[u] => \A k \in disk'[u].replies \ disk[u].replies :
       asker[k] = u /\ \A t \in ChatTabs :
         Active(t) /\ op[t].key = k => op[t].same /\ page[t].user = u]_vars
=============================================================================
