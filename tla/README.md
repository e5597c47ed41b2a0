# ToonVerse AI: TLA+ specifications

Specifications, model-checking runs and machine-checked proofs for ToonVerse AI. The
repository is a static site whose browser code talks to a Cloudflare Worker; the Worker
keeps accounts, sessions, credits and agent runs in a D1 database (SQLite), and pays a
language-model vendor through two further services with a database each. The part
where mistakes cost money, the credit ledger and the dispatch of paid requests, comes
first; then the agents that spend from the same ledger, the sessions that
say who is asking, and the browser code that asks.

- [Inventory](#inventory)
- [Modules](#modules)
- [The billing database](#the-billing-database)
- [The dispatch of a paid request](#the-dispatch-of-a-paid-request)
- [Agent runs](#agent-runs)
- [Approvals](#approvals)
- [Sessions and second factors](#sessions-and-second-factors)
- [The chat and the sign-in in the browser](#the-chat-and-the-sign-in-in-the-browser)
- [Projects and their synchronisation](#projects-and-their-synchronisation)
- [The page shell and the service worker](#the-page-shell-and-the-service-worker)
- [Runs](#runs)
- [Proofs](#proofs)
- [Findings and observations](#findings-and-observations)
- [Not modelled](#not-modelled)
- [Plan](#plan)

Paths below are relative to the root of the repository.

## Inventory

### Chat billing database: `backend/chat-billing.mjs`, `backend/migrations/0001`, `0003`

*State.* `billing_accounts` (included and prepaid credits, `reserved_credits`),
`usage_reservations` (one row per request: status, provider state, estimated and actual
credits), `usage_ledger` (append-only), `usage_limits`, `chat_billing_policy`.
*Operations.* `reserveChat`, `beginDispatch`, `markUnknown`, `settleChat`, `releaseChat`,
`expireUndispatched`, `stopBilling`, and the operator's updates of accounts, prices and policy.
Each is one SQL statement; triggers check the limits, move the credits and write
the ledger inside it.
*Hard.* Balances that change under open holds, sliding spend windows, running
copies of sums, and operations that arrive after the row has closed.
*Correct when* held credits always equal the open rows, the ledger explains every
balance, a closed row never changes, limits hold whatever arrives together, and
closing a hold is never refused.

### Chat execution, gateway, adapter: `backend/chat-execution.mjs`, `backend/metered-gateway.mjs`, `backend/gemini-adapter.mjs`

*State.* The hold above; the gateway's `gateway_receipts` and `gateway_control`;
the adapter's own tables of the same names and its `adapter_vendor_evidence`; the
client's pending call. *Operations.* The Worker reserves, dispatches, POSTs to the
gateway and settles; the gateway claims a receipt, checks the reservation, POSTs
to the adapter and records what it heard; the adapter claims, checks all that
again, calls the vendor, commits the evidence and finalizes its receipt.
*Interaction.* HTTP between the services; the adapter reads the gateway's and the Worker's
databases. There is no transaction across them. *Hard.* Everything: duplicate and
late deliveries, lost acknowledgements, timeouts, crashes between two writes, an
operator reconciling meanwhile. *Correct when* the vendor works at most once per
reservation, a hold is given back only if the vendor billed nothing and cannot any
more, what is settled is what was billed, and the client is told the truth.

### Chat reconciliation: `backend/chat-gateway-reconciliation.mjs`, `backend/chat-reconciliation.mjs`

Closes holds in doubt from a gateway receipt, or from evidence an operator types in.
It shares the hold with the Worker, which may still be running.

### Agent runtime and approvals: `backend/agent-runtime.mjs`, `backend/agent-reconciliation.mjs`, `backend/worker.mjs`, migrations `0005`–`0007`

*State.* `agent_runs`, `agent_steps`, `agent_approvals`, the audit log, one hold per run.
*Operations.* Create (cap of two active runs by trigger), queue delivery, claim,
budget, plan, execute, cancel, approve or reject, reconcile. *Hard.* At-least-once delivery
by the queue, cancellation at every await, a consumer that dies after its claim.
*Correct when* a run executes once, an approval authorises one step once, and a
cancelled run keeps no hold that could have been released.

### Account sessions and second factors: `backend/account-sessions.mjs`, `backend/account-mfa.mjs`, `backend/account-api.mjs`, migration `0002`

*State.* `account_sessions` with their refresh lock, access and refresh tokens, challenges with an
attempt counter, deletion requests. *Operations.* Sign-in, refresh with rotation,
revoke one or all, re-authenticate, finish a challenge, request deletion.
*Hard.* Retried refreshes with an old token, revocation between a refresh's lock
and its batch, two submissions of one code. *Correct when* a token is spent once,
reuse outside the grace period ends the session, no token is issued after a
revocation, and a challenge is consumed once within five attempts.

### Chat and sign-in in the browser: `assets/js/chat-core.js`, `assets/js/auth.js`

*State.* Per account, a store in `localStorage` with the pending request and its
idempotency key; per tab, the operation under way, the user, the epoch and the shared refresh
promise; across tabs, the refresh cookie and the `BLOCKED` entry with its storage events.
*Operations.* Send, retry, check, cancel, clear; sign in, refresh, restore, sign out.
*Hard.* Reloads, refused saves, timeouts, answers of an earlier epoch, other tabs.
*Correct when* a request that may have cost money is not forgotten before its outcome is known,
a signed-out browser is not signed in again by a late answer, and a reply goes to the
account that asked.

### Project store and cloud sync: `assets/js/project-store.js`, `assets/js/cloud-sync.js`

*State.* IndexedDB: projects with their `syncState`, one queued change per project, saved versions;
`localStorage`: recovery snapshots, the legacy copy, the active project. *Operations.* Save (with
its version and trim), remove, restore, migrate, flush. *Hard.* Two tabs on one
database, saves and removals during a push, pages that close between transactions, requests
that land after their sender gave up. *Correct when* what is shown agrees with what is queued, no
saved change is lost from the queue, and the newest versions are kept.

### Page shell and service worker: `assets/js/main.js`, `sw.js`

*State.* The controller's start, current page, connection, module registry, toasts, announcements;
the workers of successive releases and their caches. *Operations.* Start, navigate, act, scroll,
notify, register a module; install, activate, fetch. *Hard.* Modules that register modules
and fail; releases that follow one another while caches are filled and deleted.
*Correct when* the registry agrees with what was announced, and a release that took over can be had offline.

### Stateless and out of scope

The Worker's routing and CORS, the replay guard, validators of provider and staging evidence,
identity and attestation, deployment scripts, and the creative pages themselves. See
[Not modelled](#not-modelled).

## Modules

| module | models | built on |
| --- | --- | --- |
| `CreditHold` | what the billing database promises for one request, whatever else happens | |
| `ChatBilling` | the database: tables, triggers, every exported operation | implements `CreditHold` |
| `MCChatBilling` | its values for TLC | `ChatBilling` |
| `ChatBillingProofs` | its theorems | `ChatBilling` |
| `PaidRequest` | what the chain of services promises: a vendor that works at most once, and a hold that ends accordingly | |
| `MeteredDispatch` | Worker, gateway, adapter, vendor, operator, step by step | implements `PaidRequest` |
| `AgentRuns` | creation, queue, consumer, cancellation and reconciliation of agent runs | implements `PaidRequest` |
| `AgentApprovals` | decisions of the owner and claims of the steps they are bound to | |
| `TokenChain` | what a session promises about its refresh tokens | |
| `AccountSessions` | sign-in under the cap, refresh, revocation, clean-up | |
| `AccountSecurity` | second-factor challenges over the sessions they act on | extends `AccountSessions`, implements `TokenChain` |
| `AuthClient` | the sign-in of the browser's tabs | |
| `ChatClient` | the chat page over that sign-in and the server's request rows | extends `AuthClient` |
| `ProjectSync` | the offline project store and the flush of its queue | |
| `ServiceWorker` | installs, takeovers, caches and fetches over several releases | |
| `AppShell` | the controller of the pages, which asks the service worker for them | extends `ServiceWorker` |

Each of `ChatBilling`, `MeteredDispatch`, `AgentRuns`, `AgentApprovals`, `AccountSecurity`,
`ChatClient`, `ProjectSync` and `AppShell` has a module `MC...` with its values for TLC and a
module `...Proofs` with its theorems.

`ChatBilling` keeps the money and abstracts the services to "some caller issues some
operation at some time"; `MeteredDispatch` keeps the services and abstracts the
money to the status of a row and the usage booked on it. The seam is the row:
`hold` in `MeteredDispatch` takes exactly the steps of `status` and `provider_state`
that `ChatBilling` allows. `AgentRuns` meets the ledger at the same seam, and implements the same
`PaidRequest`; `ChatClient` reduces the server to the row of each key.

The detailed modules also hold a few definitions marked as seeded faults: a guard dropped, a write
not awaited, a reset forgotten. Nothing in the specifications uses them. Each is
a plausible mistake in the operation that follows it, and putting it in that operation's
place makes the property it was written for fail, which shows that the property
depends on that line of code.

## The billing database

An exported function of `chat-billing.mjs` is a single SQL statement, and SQLite runs a
statement with every trigger it fires atomically. So each operation of the module
is one action that does the row, the account and the ledger together. A statement
that a trigger aborts, or whose WHERE matches no row, changes nothing and is a
stuttering step.

A *request* stands for a pair of owner and idempotency key, of which
`usage_reservations` takes one row. Prices, limits and amounts are the code's integers,
with the two roundings of `usageCost` translated as they stand; the sizes are
constants. Time is in ticks and `Tick` is the only step that advances it.

| in the model | in the code |
| --- | --- |
| `blocked` status of an account | active, with `usage_limits.blocked_until` in the future |
| `paused` status | any other account status than active |
| `funded` | history: credits the operator granted, so that the ledger can be replayed |
| policy off in `Init` | migration `0001` inserts it disabled |

Bounds, all named: `MaxTime`, `MaxMoney` and `Balances` (what an operator may set),
`AccountStatuses`, `SweepLimit` (`limit` of `expireUndispatched`), and
`now + HoldTTL <= MaxTime` for a reservation, so that every hold's expiry is
inside the modelled time.

The invariants:

- `HoldsMatchRows`: `reserved_credits`, a running copy kept by two triggers, equals the sum over the open rows.
- `LedgerMatchesRows`, `LedgerReplaysAccount`: the ledger's entries say what the rows say, and replaying them
  from what was granted gives the balances, although the split between included and prepaid
  credits is computed anew at settlement.
- `SpendWithinLimits`: what is held or spent in a window stays within its limit, although limits are looked
  at only at admission and holds settle later.
- `OpenHoldsBounded`: open holds of an owner stay within the plan's concurrency.
- `ClosingNeverBlocked`: no trigger ever refuses to settle or release an open hold, whatever the operator
  did to the account meanwhile.
- `SweepNeverBlocked`: a hold that ran out before its dispatch always finds a batch of the sweep, and no row or account of
  a batch makes a trigger abort the one UPDATE, which every later sweep would then repeat in vain.
- `ClosedIsFinal` (action property), `ImplementsCreditHold` (refinement), `UndispatchedHoldEnds` (liveness).

## The dispatch of a paid request

Every `await` in the three services is a step boundary. A write has one of three
outcomes, `Acks`: it took effect and was acknowledged (`done`), took effect and its
acknowledgement was lost (`lost`), or did nothing (`failed`). A crash needs
no action: a process may at any time take no further step, and nothing it kept in memory is
used again. A POST is put in `posts` and may be picked up by any number of
deliveries (`GateCopies`, `AdaptCopies`) at any later time, or by none. The caller may
time out at any moment after posting, while the callee goes on.

| variable | in the code |
| --- | --- |
| `hold`, `booked`, `expired` | the row of `usage_reservations`, the usage its settlement stored, `expires_at` passed |
| `switch` | `chat_billing_policy.enabled` and the two `gateway_control` rows |
| `worker` | where `executeChat` stands, and what it last heard |
| `gate`, `gateReceipt` | each call of the gateway's `generate`; its receipt |
| `adapt`, `adaptReceipt`, `evidence` | each call of the adapter's `generate`; its receipt; the vendor evidence |
| `bill` | the vendor's own books, which no code reads |

Simplifications, each deliberate:

- Reading the two or three stop switches of one check is one step: every switch may
  change before and after.
- `Recover` and `Reconcile` read a receipt and write in one step: only a terminal
  receipt makes them write its contents, and a terminal receipt never changes.
- A refusal of `beginDispatch` because of the account's status is a failed write.
- The gateway's pair of writes "stop, then unknown" is one step in which each may fail on its own.
- A client's repeat with the same key is refused at the reservation and changes nothing.
- `Init` has the switches on; an operator enabled them. They can go off at any time.

The properties:

- `BilledAtMostOnce`: at most one call of the adapter ever makes the vendor work.
- `RefundedNeverBilled`: once a hold is released or cancelled, the vendor has billed nothing *and no
  call that could still reach it remains*.
- `SettledAsBilled`: a settlement books what the vendor billed.
- `EvidenceRecoverable`: vendor evidence, once committed, is visible in the receipts, and its hold is still
  open or was settled with it.
- `ReplyMatchesHold`: an answer that claims the credits were settled, or given back, is true.
- `RecordsFinal`: terminal receipts, evidence and closed holds never change.
- `ImplementsPaidRequest`: the refinement. `PaidRequest` has five steps (hold, dispatch, bill, charge, refund)
  and no services; the chain maps to it through the ledger row and the vendor's books.

## Agent runs

A *call* is one request to create a run, and names the run it creates; two calls may
carry the same owner and key, as a repeated request does. `create` follows
`createAgent`, `worker[c][d]` follows `prepareAgentExecution` for one delivery of the queue. Writes have
the three outcomes `Acks` of the paid chain, every `await` is a step boundary, a consumer that dies
takes no more steps, and the queue may hand out a run any number of times.

| variable | in the code |
| --- | --- |
| `status`, `stale` | `agent_runs.status`; queued for more than five minutes |
| `sent` | the message is in `AGENT_QUEUE` |
| `hold`, `expired` | the run's row of `usage_reservations`, under a key that begins with `agent_` |
| `billing` | `chat_billing_policy.enabled`, which an answer out of contract switches off |
| `provider` | what the metered provider made of the POST; external |

The properties:

- `OneConsumer`: of all deliveries of a run at most one gets past the claim, also when the claim's
  acknowledgement is lost (then none does).
- `ActiveRunsBounded`: the cap holds although the friendly count before the insert is stale when
  used; the trigger of migration `0005` is what keeps it.
- `CompletedWasCharged`: a run shown as completed was billed by the provider and its hold is settled.
- `RunsEndOnce`: a run that ended never changes again; a late write does not bring a cancelled run back.
- `ImplementsPaidRequest`: a run's budget lives the life of a paid chat request.

`Reconcile` trusts the operator's evidence, as `reconcileAgent` does. A refused `beginDispatch`
and a failed one look the same to the caller and are one case.

## Approvals

`AgentApprovals` has the owner's calls of `decideApproval`, the workers' calls of
`authorizeAgentToolForRun`, and a planner that may rewrite a step until it has begun. An *input* stands for
the tool's name with the hash of its arguments. A decision reads the approval, reads the step, and
writes with an UPDATE that repeats both conditions; a claim likewise. No planner or executor is in the repository:
they are modelled from what this code guards against, and marked external.

- `SuccessIsTrue`: the owner who was told that a decision stands can rely on it. This is what
  `docs/backend-security-checkpoint.md:16` promises of the conditional update.
- `ExecutesWhatWasApproved`: what a worker may execute is what the owner was shown and approved, for a step nobody else
  executes, and while no other step of the run is under way.

## Sessions and second factors

`AccountSessions` has one account, whose statements touch no other's. The refresh tokens of a
session are numbered as they are issued, so a token is a session and a serial. A refresh reads once,
claims with a conditional UPDATE, consumes, exchanges with the identity provider, and
commits in one batch whose later statements depend on the first.

| variable | in the code |
| --- | --- |
| `session`, `holds` | `revoked_at`; `credentials_cipher` is there |
| `lock`, `overdue` | `refresh_lock`; `refresh_started_at` is more than two minutes ago |
| `issued`, `spent`, `past` | `account_refresh_tokens`, those with `consumed_at`, those consumed more than ten seconds ago |
| `age` | neither, the idle or the absolute expiry has passed |
| `refresh`, `granted` | where each `refreshSession` call stands; its batch inserted the tokens it will hand out |
| `challenge`, `kind`, `attempts`, `submit` | `account_challenges` and the calls that answer them (`AccountSecurity`) |

Clocks are steps: a lock becomes overdue, a grace period ends, a session expires, at any moment. The claim of a call that
began long ago is overdue at once, since `refresh_started_at` is the time the call began.
`AccountSecurity` composes the sessions with the challenges: a passed one begins a session, renews
the proof of identity of one, or ends them all.

- `SessionsBounded`: sign-ins that arrive together leave an account within the cap.
- `RevokedHoldsNothing`: whatever writes credentials last, a revoked session keeps none.
- `ExpiryIsTrue`: a device that is told its session is over can rely on it.
- `ChallengeSpentOnce`: codes submitted together share the attempts of their challenge, and one passes.
- `ImplementsTokenChain`: the tokens of a session are one chain, each exchanged once, none after a
  revocation, whatever refreshes race, lose acknowledgements or commit late.

## The chat and the sign-in in the browser

`AuthClient` is `auth.js` in several tabs: the user each shows, the sign-in and the refresh under
way, and what they share: one refresh cookie, `BLOCKED`, and the storage events, which wait in `told`
until a tab handles them. The code's epoch is replaced by what it is compared for: each call knows whether the
epoch has moved on since it began (`fresh`). The server is `alive`, the users with an open session, and
`leaving`, the sign-out calls on their way. Any call may be delayed or lost.

`ChatClient` extends it by the chat. `disk` is `localStorage` per account, `current` the copy in a tab's memory,
`op` the operation under way with the account it is bound to, and `orphans` the transmissions whose page no longer
waits. `uvenaro:auth-change` is part of every step that changes who is signed in. At the server, a key has a
row that goes through the states `ChatBilling` allows, and a call that works on it or does not.

- `PaidIsRemembered`: once a request is dispatched, its key is pending on the device until the page was told the
  outcome, through refused saves, reloads, timeouts and changes of account.
- `SignedOutStaysOut`: a tab that has heard of a sign-out shows nobody until somebody signs in again.
- `RepliesStayHome`: a reply is stored only for the account that asked, which has been signed in in the tab ever since.

Choices: one user has one session in the browser; the chat service is connected (else a message is saved and nothing
is sent); `localStorage` may refuse the chat's saves but works for `auth.js`; the transmissions of one key that nobody waits for are capped
by `MaxOrphans`, and further ones are lost. `PaidIsRemembered` has one exception, `overtaken`, which is behaviour of the code: see
[observations](#findings-and-observations).

## Projects and their synchronisation

`ProjectSync` has the tabs' `saveProject` calls, each a sequence of IndexedDB transactions, the
`flushSync` calls that may overlap in one tab or several, and a backend. The content of a project is
named by the moment its save began, so that moments tell contents apart: they name what was saved, and are not the code's
timestamps, which are milliseconds and may coincide. A recovery snapshot of 0 is none under the project's own id;
`getRecoverySnapshot` then answers with the last project's copy, if there is one (`project-store.js:251-253`), which no property depends on. One tab has one save at a time,
as the editor awaits it.

| variable | in the code |
| --- | --- |
| `stored`, `queue`, `versions` | the object stores `PROJECTS`, `QUEUE`, `VERSIONS` |
| `recovery`, `legacy`, `active` | keys of `localStorage` |
| `save`, `timer`, `push` | the calls under way and the tab's `flushTimer` |
| `late`, `cloud` | requests whose sender gave up; the backend's copies (external) |
| `written` | history: versions put since the project was last removed |

- `QueueTellsState`: a queued save is a project shown as pending with that very content, and a queued removal has no project.
- `UndisturbedPushIsCurrent`: while the change a push listed is still the one queued, what the push read is what is stored; so
  an acknowledgement that compares the two contents would be exact.
- `NewestVersionsKept`: however tabs save and trim together, the newest versions are kept.
- `ChangesWaitInQueue` is what `account.html:55` says, and does not hold: see the findings.

`Replays` says whether a backend answers a key it has committed before without committing again. Both runs use
a backend that commits whatever it accepts.

## The page shell and the service worker

`ServiceWorker` has a cache per release. A new worker fills it (`caches.open` and `addAll`, which may fail), takes over at
once (`skipWaiting`) and deletes the caches of the others; pages, scripts and styles are fetched from the network
first, other assets from the caches first, and the writes of what was fetched are awaited by nobody.
`AppShell` is `main.js` in one tab: the start, of whose steps a failing one skips the rest; navigation
by the route table; actions; toasts and their timers; the announcement region and its animation
frames; the listeners of scroll and resize, each with a throttle of its own; the connection; and the module registry, whose inits may register modules
themselves. A navigation or an action asks the service worker for the page.

- `RegistryIsAnnounced`: the registry is what was announced and what is being initialised, and no init runs inside itself.
- `AvailableOffline`: once a worker has taken over, everything a release is made of can be had without the
  network, unless the worker before it deleted the cache it was filling (`deleted`, an observation below).

## Runs

| run | what it asks | bounds |
| --- | --- | --- |
| `billing_money` | do rows, account and ledger stay in step in any order of holds, settlements, releases, sweeps and operator changes | 1 owner, 2 requests, balances 0, 1, 3, one tick |
| `billing_limits` | does spend stay within all windows as they move, do open holds stay within the plan, is the sweep ever blocked, and does every undispatched hold end with a sweep of one row at a time | 2 owners, 3 requests, 3 prices, windows of 0 to 2 ticks |
| `dispatch_faults` | does one request keep its promise with every write and answer unreliable | one delivery per POST, two usages |
| `dispatch_duplicates` | does the vendor work once if every POST arrives twice | two deliveries per POST, two usages |
| `dispatch_repeat` | is a repeated settlement answered with its receipt, as documented | no faults; ends in a counterexample |
| `agent_runs` | does one consumer work on a run, within the cap, and does its budget keep the promise of a paid request | a run delivered twice, a repeat of its request, a rival for the only slot, every write unreliable |
| `agent_approvals` | is what is executed what was approved, and do decisions stand | 2 steps, 3 approvals, one of them decided twice, 4 workers, 2 inputs |
| `account_sessions` | are sessions chains of tokens under the cap that leave nothing behind, and does a challenge admit one code | 2 sessions with a cap of one, 3 refreshes, 2 challenges, 3 codes with 2 attempts; two calls in flight |
| `chat_client` | is a request that may have cost money remembered, does a sign-out hold, do replies stay home | 2 tabs that race over the sign-in, the chat in one of them, 2 accounts, 2 requests |
| `project_sync` | does the library agree with the queue, and are the newest versions kept | 2 tabs, 2 projects, 2 flushes, 3 saves or removals, one version kept |
| `sync_waits` | does content the backend was not given wait in the queue, as the page says | 1 tab, 1 project, no fault; ends in a counterexample |
| `app_shell` | does the registry agree with what was announced, and is a release that took over there offline | 3 pages, 3 modules, 2 releases |

*Why the bounds are enough.* Two requests are the least for which one settlement can
spend what another's split counted on. In `billing_limits`, three requests of two owners let one owner's limit and the
global one differ, and leave rows for a later sweep. Its three prices and its limits are chosen so that each of the four
windows binds: with any one of the four conjuncts dropped from `WithinLimits`, TLC finds `SpendWithinLimits` violated. (The day's
limit is above the cycle's there, so that it binds once a cycle is renewed.) Balances are
chosen so that a hold of two credits fits, fits only across both kinds, or does not
fit. The windows are so short that a hold can outlive each of them. In the
dispatch runs one request suffices because requests share only the switches, and
the switches are already free to go off at any moment; two usages distinguish "the usage that
was billed" from "some usage"; two deliveries are the least that race. A cap of one
is the least that two creations, or two sign-ins, can break together. Two refreshes present one token and
a third its successor, which is the least for a reuse after a rotation; three codes are one more than a challenge
admits. With one version kept, the second save already trims. Two releases
are the least for which one activates while the next installs, and three modules the least for an init inside an init that fails.

*Constraints.* Five runs also limit how much happens at once, with a named state constraint in the `MC` module.
`MCChatBilling!OnlyCyclesChange` leaves prices, switch and balances alone once requests are made, in `billing_limits`, where
only the renewal of cycles matters to the windows; `billing_money` has the rest. `MCAccountSecurity!FewCalls` allows two calls in flight, and the third refresh, the third code and the second challenge
only apart from one another. `MCChatClient!FewCalls` lets the two tabs race over the sign-in alone; while the chat is used, its tab is the
only one and has one call for the account at a time. `MCProjectSync!FewCalls` allows two
calls at a time and the third save only where one project was touched and one flush runs. `MCAppShell!TakeTurns`
lets registry, messages, scrolling and releases move in turns, as they share no state. The
proofs below lift bounds and constraints for all safety properties of these five runs, `PaidIsRemembered` with the chat open in at
most one tab.

*Symmetry.* Requests, deliveries, usages, accounts and the like are interchangeable where a cfg
says so. The run that checks liveness uses none.

*Fairness.* Only `FairSpec` of `ChatBilling` has any: weak fairness of `Tick`
(time passes) and of `ExpireUndispatched`, which the cron trigger
of `deploy/account-staging/wrangler.json:17` runs every five minutes through the Worker's `scheduled` handler. No
service, consumer or browser is assumed to finish anything: nothing in the code retries a dispatched request,
resumes a run whose consumer died, or retries a failed flush by itself. So no other liveness is claimed.

*Deadlock* checking is on except in `agent_runs`, `agent_approvals` and `account_sessions`. There every run, decision,
refresh and code is used up when it has ended, and no step is left when all have: the calls
are finite and ids are not used again, so the system may stop.

*Types.* Each module keeps one type invariant. Where it is proved and says little
else, it is not part of a run: `AgentRuns`, `AgentApprovals` and `ProjectSync` prove `TypeOK`, and the types of `ChatClient` and `AppShell` are
conjuncts of the invariants in their proof modules.

## Proofs

The proofs are hierarchical and checked by `tlapm` with Z3, Zenon and LS4. They hold for
any number of requests, owners, deliveries and usages, any prices and limits.

### `ChatBillingProofs`

| theorem | states |
| --- | --- |
| `TypeCorrect` | `[]TypeOK`, with balances natural and under the balance guard |
| `LedgerAgrees` | `[]LedgerMatchesRows` |
| `ClosedNeverChanges` | `ClosedIsFinal` |
| `ConcurrencyBounded` | `[]OpenHoldsBounded` |
| `BillingImplementsCreditHold` | `ImplementsCreditHold` |
| `HoldsAlwaysMatch` | `[]HoldsMatchRows` |
| `ClosingAlwaysPossible` | `[]ClosingNeverBlocked` |
| `LedgerAlwaysReplays` | `[]LedgerReplaysAccount` |
| `SpendAlwaysWithin` | `[]SpendWithinLimits` |
| `SweepAlwaysFree` | `[]SweepNeverBlocked` |

They assume `BillingAssumption` and `PriceAssumption`, the ranges that the code
validates at configuration, and `LimitsAssumption`: plan limits and budgets are integers of zero or more,
which is weaker than what the CHECKs of the tables and the configuration accept.
The type invariant is not trivial, since balances must
stay natural under subtraction: it needs that a hold's estimate bounds
what a settlement may cost, and that the triggers' guards bound what can be
taken. `OpenHoldsBounded` counts rows by cardinality and needs that
only a reservation adds to an owner's open rows.

*Sums.* The last five theorems are about sums over finite sets, which the model writes with the library's
`SumFunctionOnSet`, a fold that takes its elements in an order of its own choosing. `SmallestFails` stands in for
induction: a set of subsets of a finite set has a least member (`WFMin` on strict inclusion), so a claim that fails
fails for a smallest set. From it come the existence of the fold's recursive function (`SumsExist`), and that any
element may be taken out first (`SumWithout`); the rest are sums of unions, of pointwise larger or changed
functions, of sets in parts (`SumUnion`, `SumBelow`, `SumChange`, `SumPlus`, `SumInParts`).

*Money.* `MoneyEffect` reduces every step to one of four: a hold, a closing, a batch of releases, or nothing of
interest to money. On it rest these invariants, each checked by TLC before it was proved:

- `HoldsMatchRows` is inductive over the types. The sweep is the hard step: one batch frees rows of many owners.
- `BalancesMatchRows`: what is left is what was funded less what the rows say was taken. It needs
  `TakenOnlyBySettling` (only a settled row has taken anything). With `LedgerMatchesRows` and `HoldsMatchRows` it implies
  `LedgerReplaysAccount`: the ledger is cut into the entries of each request, each part is added up from its row, and what
  was held is what is still open plus what the closing entries freed.
- `QuotedRows`: every row was held at the ceilings of the price it names. Both roundings are monotonic
  (`CeilDivGrows`), so work within the ceilings stays under the estimate (`EstimateCovers`), the estimate stays under what is set
  aside (`HoldsMatchRows`), and the account can pay (`PaidGuard`): `ClosingNeverBlocked`.
- `CyclesBegun`: no cycle starts in the future, so a renewal only moves a window on. Without a new hold no row owes a
  window more than it did (`WindowShrinks`), and a new hold adds its estimate to windows that the guard has just measured
  (`WindowReserves`): `SpendWithinLimits`.
- `SweepNeverBlocked` follows from the types and `HoldsMatchRows`. A finite set has a first part of every size up to its
  own in the order of expiry (`FirstPart`), so there is a batch; what a batch frees of an account is part of what the account sets
  aside (`SumPart`), so its guard passes.

### `MeteredDispatchProofs`

| theorem | states |
| --- | --- |
| `TypeCorrect` | `[]TypeOK` |
| `VendorWorksOnce` | `[]BilledAtMostOnce` |
| `RefundsAreSafe` | `[]RefundedNeverBilled` |
| `SettlementsAreExact` | `[]SettledAsBilled` |
| `EvidenceSurvives` | `[]EvidenceRecoverable` |
| `RepliesAreTrue` | `[]ReplyMatchesHold` |
| `FinalIsFinal` | `RecordsFinal` |
| `ChainKeepsPromise` | `ImplementsPaidRequest` |

None of the properties is inductive: whether a refund is safe depends on
what every process in flight still believes. The inductive invariant `IInv` is `TypeOK` and,
for every request, five parts that follow the path of the money:

1. `OneAdapterCall`: at most one call of the adapter is past its claim, and only such a
   call can have billed;
2. `AdapterRecords`: what that call knows, the adapter's receipt, the evidence and the vendor's books agree
   as far as each can know;
3. `OneGatewayCall`: the same for the gateway's calls and the claim on its receipt;
4. `GatewayRecords`: what the gateway heard or recorded is what the adapter could have said;
5. `HoldRecords`: the hold's state, the Worker's position and its reply agree with the gateway's receipt.

There is one lemma for each service (`WorkerKeeps`, `GatewayKeeps`, `AdapterKeeps`,
`OperatorKeeps`), since each disturbs only its own parts and the one that reads it;
frame lemmas dispose of the others, and `NextKeeps` puts them together. For
the gateway and the adapter, whose many actions change one call and one
receipt, `GateMay` and `AdaptMay` first abstract a step to what it may do. The
refinement is proved from the invariant: every step of a service is seen by
`PaidRequest` as a step or a stutter (`Seen`, `SeenIsAbstract`). Only
`DispatchAssumption` is used.

### `AgentRunsProofs`

| theorem | states |
| --- | --- |
| `TypeCorrect` | `[]TypeOK` |
| `OneConsumerWorks` | `[]OneConsumer` |
| `CapHolds` | `[]ActiveRunsBounded` |
| `CompletionIsCharged` | `[]CompletedWasCharged` |
| `EndsAreFinal` | `RunsEndOnce` |
| `RunsKeepPromise` | `ImplementsPaidRequest` |

The invariant is `TypeOK` and two parts for every run: `RunRecords`, what the status of the run says of its deliveries
(before the claim none works, after it one does), and `HoldRecords`, what the provider's outcome allows
the hold and the working delivery to be. The consumer's twenty steps are first abstracted to what they may do
to one run (`ClaimMay`, `PrepareMay` and their like), and each part is proved of those. The cap needs
cardinalities: only an insert adds to an owner's active runs, and it repeats the count.

### `AgentApprovalsProofs`

`TypeCorrect`, `SuccessTrue` (`[]SuccessIsTrue`) and `OnlyTheApproved` (`[]ExecutesWhatWasApproved`). The three
together are inductive: a claim finds the step unbegun and fitting, and nothing rewrites
a step that has begun or a decision that was taken.

### `AccountSecurityProofs`

| theorem | states |
| --- | --- |
| `TypeCorrect` | `[]TypeOK` |
| `CapHolds` | `[]SessionsBounded` |
| `NothingLeftBehind` | `[]RevokedHoldsNothing` |
| `ExpiryTrue` | `[]ExpiryIsTrue` |
| `SpentOnce` | `[]ChallengeSpentOnce` |
| `SessionsAreChains` | `ImplementsTokenChain` |

`IInv` is `TypeOK`, `SessionInv` and `ChallengeRecords`. `SessionInv` has the two facts that make a chain: the tokens of a live session
are spent in order, all or all but the last, and a refresh past its claim has the lock while its session
lives and presented the last token. `ChallengeRecords` counts: the codes tried for a challenge are at most its
attempts, and one past the redemption is the only one.

### `ChatClientProofs`

| theorem | states |
| --- | --- |
| `SignOutHolds` | `[]SignedOutStaysOut` |
| `RepliesHome` | `RepliesStayHome` |
| `PaidRemembered` | `[]PaidIsRemembered`, if the chat is open in at most one tab (`OneChatTab`) |

All hold for any number of tabs, accounts and requests; the first two also for any number of tabs with the chat
open. For the third, `OneChatTab` is needed: see [observations](#findings-and-observations). `AuthInv` strengthens the first: a
tab that has heard of the sign-out also has no refresh whose answer it would accept (`Out`), and a closed
tab holds nothing. `ReplyInv` is about ownership: everything a store holds, on disk or in memory, was asked by its account;
an operation that has a key is bound to the account that asked for it, which is the one signed in.
`TabMoves` says once what a step of one tab may do to that, and the actions follow from it.

`PaidInv` looks ahead of the dispatch. A request may cost money (`MayCost`) if it is dispatched, or if it may still be
without any act of the page: reserved with its call at work, or not reserved with a transmission on its way.
Whatever may cost money is `Remembered`, on disk and, where the store in memory is the asker's, in memory too, since the
next save writes that copy. An operation past its start has the key that is pending in memory, and a page
that was refused holds a key that will not cost anything (`RefusedIsFree`), so forgetting it is safe. The only step that makes a request
costly is `Transmit`, which has just saved its key (`PostKeeps`).

### `ProjectSyncProofs`

| theorem | states |
| --- | --- |
| `TypeCorrect` | `[]TypeOK` |
| `QueueAndStateAgree` | `[]QueueTellsState` |
| `UndisturbedIsCurrent` | `[]UndisturbedPushIsCurrent` |
| `NewestAreKept` | `[]NewestVersionsKept` |

The invariant adds `Fresh`: the moment of a save is its own until the save is stored and its version put, so that a
change that reads like the one listed is the one listed. `Kept` says the same of versions about to be dropped: each has
enough newer ones, counted by cardinality.

### `AppShellProofs`

`ServesOffline` (`[]AvailableOffline`) and `RegistryTrue` (`[]RegistryIsAnnounced`). Caches and registry share no
variable, so each has an invariant of its own: the active worker's cache exists and has the whole site, and
an installing worker's cache exists, unless it was deleted; the registry is what was announced and what
runs. The first found in the order of caches is the least position (`WFMin`).

### Model-checked only

`UndispatchedHoldEnds` is liveness under fairness, which needs ENABLED, and rests on TLC at the bounds above; its safety
half, that nothing ever keeps the sweep from a hold that ran out, is `SweepNeverBlocked`. The findings are
counterexamples and rest on TLC too.

## Findings and observations

**A repeated settlement returns no receipt.** `docs/atomic-chat-billing.md:38`
promises that repeating a settlement with the same usage "returns the same receipt,
without another debit". `settleChat` (`backend/chat-billing.mjs:107-110`)
throws `RESERVATION_FINALIZED` instead, and its test asserts that. There is no second
debit. But when the operator's reconciliation books the usage the Worker is about to
book, the Worker's catch (`backend/chat-execution.mjs:133-138`) takes the repeat
for a failure, discards an output that was paid for, and answers
`RECONCILIATION_REQUIRED`. `dispatch_repeat` shows this with no fault at all.

**A save during a push loses its queued change.** `account.html:55` promises that "authenticated sync waits safely in the
project queue". `flushSync` deletes the queued record by its id, `project:${id}`, which every change of a project has
(`assets/js/project-store.js:142,360`), and marks the project as it then is "synced" (`:361-367`). A save made
while the older change is on its way is removed from the queue by that change's acknowledgement, and the library shows
"Synced". `sync_waits` shows it in one tab with no fault. To acknowledge only the change that
was listed would do (`UndisturbedPushIsCurrent`); a change would need a number of its own for that, as its timestamp in
milliseconds may be that of the next one.

Behaviours of the code that no document contradicts clearly, worth knowing:

*Paid requests*

- Recovering a receipt whose adapter call is still open counts as a broken
  contract and switches the gateway off for everyone (`backend/metered-gateway.mjs:156-158`).
- The gateway's own 503 `RECONCILIATION_REQUIRED` makes the Worker switch billing
  off globally (`backend/chat-execution.mjs:124-128`).
- A Worker that dies after `beginDispatch` and before its POST leaves a hold that only evidence
  supplied by an operator can close; so does a gateway that dies after its claim and before its POST.
- A stop switch may go off between the adapter's last check and the vendor call: one
  request may still be billed after everything was stopped.
- The sweep is one UPDATE over many rows, so one row a trigger refused would stop it for
  all. `SweepNeverBlocked` is what rules this out.

*Agents*

- A consumer that dies after its claim leaves the run active, and its slot taken: redeliveries are acknowledged. `docs/core-intelligence-runtime.md:7`
  calls runs "server-owned and resumable". So does an INSERT whose acknowledgement is lost, of a run never sent.
- A settled hold with a failed completion write ends as a run that failed and was charged.
- A cancellation after the run is `running` does not stop `beginDispatch` and the POST.
- If the write that puts a hold in doubt fails twice, the handler throws before the run is marked, and it stays `running`
  (`backend/agent-runtime.mjs:187`).
- The audit trigger labels the steps to `running` and `completed` as `runtime_failed` (`backend/migrations/0006_agent_audit_trail.sql:36-43`).
- A step that was authorised goes on after its run is cancelled.

*Sessions*

- `saveChallenge` supersedes and inserts in two writes, so two concurrent openings leave two live challenges (`backend/account-mfa.mjs:6-9`).
- A refresh whose read saw an overdue lock may revoke a session whose exchange completed meanwhile, and a refresh call
  that began two minutes ago takes a lock that is overdue at once.
- The lost answer of a refresh costs the session when the old token is presented after ten seconds; that is the design.
- A changed password revokes all sessions before the identity provider is asked, which may then refuse (`backend/account-api.mjs:129-135`).

*Chat and sign-in*

- A key refused while an earlier transmission of it still travels is forgotten, and may then be reserved and charged (send, stop,
  retry, refusal, the first POST served). `docs/atomic-chat-billing.md:48` says that the client "prevents a
  different request … until the outcome is checked". This is the exception `overtaken`.
- Two tabs with the chat open keep separate copies in memory (`chat-core.js:8`) and overwrite each other's pending request, so
  two requests of one account may be unchecked at once, of which one is on record; the sentence just quoted
  holds within one tab only. TLC finds `PaidIsRemembered` violated with `ChatTabs = {t1, t2}`; the run has the chat in one.
- A guest who sends while the service is connected leaves a pending request that can never be checked, retried or cleared.
- A late answer of a refresh sets the cookie of the earlier account, so a later refresh signs the tab in to it; a late
  answer of a sign-out empties the cookie of a newer sign-in (`backend/account-api.mjs:43`).

*Projects*

- The `Idempotency-Key` is `project:${id}` for every change of a project, while `backend/openapi.yaml:51-52` has 200
  mean "committed or previously committed with same key": a backend that keeps to this would drop
  every change but the first (`Replays = {TRUE}`).
- A removal during a push of the same project is deleted from the queue by the acknowledgement; an upsert listed before a
  removal is pushed as an empty project.
- A save during a pushed removal stays "pending" with nothing queued.
- One refused change holds up all later ones, and no timer retries a failed flush.
- `restoreVersion` changes the recovery snapshot without queueing a change; manifest and snapshot of a push are read apart; the fallback of
  `getProject` answers any id with the legacy copy; a request that timed out may land after a newer one.
- The sync endpoint is empty in `config.js`, so no flush leaves the device as shipped.

*Page shell*

- An activation deletes every cache but its own, also the one that the next release is filling: release 1
  activates while release 2 installs, and the worker of 2 takes over with nothing cached (`sw.js:15`). `AvailableOffline`
  excepts this by name (`deleted`), so it does not guard against it; without the exception TLC finds it in a second.
  `device-test.html:30` has testers check that the "core shell/editor opens offline after first successful load".
- A response is copied in a promise nobody awaits, when its body may be read already; late writes can bring back a deleted
  cache; a lookup over all caches may mix releases; the offline fallback shows the home page under another address.
- The throttle drops the last scroll, so the active section may stay stale; a start step that fails is never tried again.

## Not modelled

- `reconcileChat` called by hand: its evidence is what an operator types in, and no code
  says what that may be.
- Validation of message formats, lengths, configuration and callers' credentials: it comes
  before the first change of state and decides only whether a request begins.
- Of the agents: the quarantine of a stored objective that is malformed, which `createAgent` never stores; the audit
  trigger, which only appends.
- Of the sessions: rate limits, profiles and preferences, the deletion request with its cooling-off period, security events, the
  check of the client's context, re-authentication by password.
- Of the browser: `chat-ui.js`, which only shows; protected calls of `auth.js` but for their refusal; names, sizes and previews of projects;
  of `main.js` the storage helpers, the event bus, error reporting, the targets of anchors and keyboard shortcuts (what they scroll is `Scroll`), external links and the unused
  debounce, which keep no state the rest depends on.
- The replay guard: one INSERT under a unique key and a DELETE of expired rows. Every transmission of the chat
  carries a fresh nonce, so it never meets the retries modelled here.
- The Worker's routing and CORS, the validators of evidence and configuration: no state. Identity, attestation: cryptography and I/O.
- Deployment scripts: an operator runs them one at a time, and the state is the cloud's.
- Creative and utility pages: rendering, with no protocol of their own. What they save goes through the project store.

## Plan

Done: everything in [Modules](#modules), with runs and proofs. Worth adding, in this order:

1. The deletion request of an account with its cooling-off period, over `AccountSessions`.
2. Two tabs with the chat open, once the code reads the store again before it writes.
3. Cost arithmetic: the two roundings in JavaScript and SQL against one reference.
4. The resumable journal of `scripts/provision-isolated-databases.mjs`.
