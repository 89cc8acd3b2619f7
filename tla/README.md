# Formal model of leuwongrr-gateway

TLA+ modules, TLC configurations and TLAPS proofs kept beside the TypeScript
gateway in `src/`. The gateway is a single Node process in front of an upstream
model server. It authenticates callers by API key, admits requests under budgets
and ceilings, proxies JSON and server-sent-event answers, meters them in SQLite,
derives a token ledger from the metering, takes payments through webhooks, and
serves a member and an admin console. An operator works on the same database
with a command line and on the host with shell scripts.

## 1. Inventory

| Component | State | Operations | Hard behaviour | What makes it correct |
|---|---|---|---|---|
| Request pipeline (`http/pipeline.ts`) | per request: claim, reservation, tenant slot, permit, stream, idle timer | execute; end, error, idle, close, shutdown of a stream | every exit gives back what it took, once; two exits race | balances of slots, permits, reservations; charged iff answered |
| Daily budget (`persistence/database.ts`) | `usage_events` | reserve, settle, release, maintain | concurrent admissions, midnight, failed writes, crash | never over-promised, resolved once |
| Idempotency keys (`persistence/idempotency.ts`) | `idempotency_keys` | claim, complete, abandon, expiry | rows without owner, crash, expiry racing completion | single flight, at most one paid answer per key and day |
| Tenant concurrency (`policy/tenant-limits.ts`) | counter per tenant, bounded registry | tryAcquire, release closure | leaks, double release | counter = requests in flight |
| Upstream client (`upstream.ts`, `policy/semaphore.ts`) | permits | request, pull, cancel | body read by somebody else, aborted reads | counter = open calls, an exhausted semaphore recovers |
| Process (`main.ts`, `http/stream-lifecycle.ts`) | stopping flag, registered closers, maintenance timer | start, maintain, shutdown, deadline | shutdown races new streams, uncaught exception, kill | nothing leaks into the database but what a crash must leave |
| HTTP surface (`http/app.ts`, `policy/allowlist.ts`, `contracts/errors.ts`) | none of its own | onRequest, authenticate, resolve, estimate, refuse | order of checks, two dialects of errors | a stranger learns nothing, the reservation covers the answer |
| Rate limits (`policy/rate-limit.ts`, `policy/tenant-limits.ts`) | token buckets, LRU registry | consume, evict, change a limit | eviction and limit change reset a bucket | no caller gets more than a bucket that is never forgotten |
| Billing (`billing/service.ts`) | plans, subscriptions, wallets, ledger, cursor | subscribe, pack, reset, credit, settle, reconcile, gate | late settlements, stacked packs with timers, shortfalls | no row billed twice or for other than its units, ledger explains the balances, spend order |
| Payments (`payments/*`, webhooks in `http/console.ts`) | payments, payment_events | open invoice, webhook | duplicated, reordered, early and failing deliveries; crash between provider and insert | granted exactly once, never revoked |
| Accounts (`accounts/*`, auth routes) | accounts, identities, codes, sessions, OAuth states | issue and consume a code, session, state; register, reset, federate | reissue, attempts, expiry, a callback that awaits, the sweep | a code is consumed once, for its purpose; passwords of verified accounts are kept |
| API keys (`persistence/tenant-store.ts`, `auth/api-keys.ts`) | api_keys | issue, revoke, rotate, authenticate | two processes, grace window of a rotation | a dead key stays dead; replacements carry what they replace |
| Models (`models/*`, `policy/model-resolver.ts`) | models, groups, plans' lists, policies | edit, delete, sync, resolve | sync across an await, guards of deletes, purchases rewriting policies | what is named exists; a sync widens nothing; an edit takes nothing paid for |
| Usage meter (`http/usage.ts`) | partial line, counters | observe a chunk | chunk boundaries, long lines, later events lowering a count | result independent of chunking |
| Configuration (`config.ts`) | environment | load, boot | rules across settings | what the other modules assume of their constants holds |
| Forms (`web/src/admin`, `cli/keys.ts`, route schemas) | none | validate | five writers of the same limits, written apart | a form sends what its route takes; nothing typed is dropped |
| Host (`scripts/*.sh`, systemd unit) | releases, links, schema, unit, archives | deploy, roll back, back up | a script that dies at any command, leftover links, a unit systemd has not read, failing health gate | current can start, a reported activation is real, a good archive stays |

Interactions: `onRequest` and `authenticate` spend the rate limits, resolve the
model and ask billing for funds; the pipeline then calls the idempotency store,
the budget, the tenant registry and the upstream client in that order and shares
the semaphore with the readiness probe; billing reads the `usage_events` the
pipeline settled; payments call billing; a purchase rewrites the policies the
resolver reads; maintenance deletes rows of the pipeline and of the accounts;
shutdown calls the closers the pipeline registered; the scripts restart the
process, which migrates the database it opens.

`PROJECT.json` lists the hazards of this code by line.

## 2. Modules

| Module | Models |
|---|---|
| `Gateway` | pipeline + idempotency + budget + tenant slots + permits + stream registry + process + probe |
| `BudgetAccount` | what the budget promises, abstractly: one atomic test and reservation, one resolution |
| `UsageMeter` | what a stream's events are read as; pure |
| `Billing` | one account's plans, subscriptions, packs, wallet, ledger; reconciliation of metering rows; the funding gate |
| `Payments` | checkout with both providers, their callbacks, settlement |
| `Purchases` | what checkout promises, abstractly: delivered after payment, once, for good |
| `Accounts` | codes, passwords, federated identities, OAuth states, sessions, the sweep |
| `ApiKeys` | the life of a key, written by the service and by the operator's command line |
| `RateLimits` | the bucket limiters, the tenants' registry, changed limits |
| `TokenBuckets` | what a limiter promises, abstractly: one bucket per caller, never forgotten |
| `Catalogue` | models, groups, plans' lists, policies, the sync, resolution of a model |
| `FrontDoor` | routes, the order of a request's checks, estimates, the answers of refusals; pure |
| `Configuration` | `loadConfig`, and what is made of a configuration; pure |
| `Forms` | what the console's forms, the command line and the routes' schemas let through; pure |
| `Host` | deploy.sh, rollback.sh, backup.sh, the service they restart and its database |
| `MC...` | instances for TLC (`Payments` needs none) |
| `..._proofs` | TLAPS proofs |

How they fit. The rows `Billing` reconciles are the `usage_events` of `Gateway`,
reduced to what billing reads (state, units, time of reservation); what
`Gateway` calls an actual use is what `UsageMeter` reads off a stream, so
`MCGateway` evaluates the meter. `Payments` decides that an order is granted once
and takes from Billing only whether it can be; `Billing`'s `PaymentSettles`
assumes the former (`settled`) and models what the grant does; `Catalogue` models
what the same purchase does to policies. `FrontDoor` takes what the limiters, the
key, the account and the catalogue decide as inputs and models the order in which
they are asked; `MCRateLimits` evaluates it. `RateLimits` and `Gateway` assume of
their constants what `Configuration` shows every configuration that boots to
have (`LimitsAreSound`); `MCAccounts`, whose constants are settings too, evaluates it.
`MCCatalogue` evaluates the `Forms` that edit it.

### How the modules correspond to the code

Node runs JavaScript without interruption between two awaits and
better-sqlite3 is synchronous, so **one action is the code between two awaits**,
with every database statement in it. Where a second process writes the same
database (the command line in `ApiKeys`) or a statement group is not a
transaction and may be cut off (the sync in `Catalogue`), the action is split
there. In `Host` one action is one command of a script.

**Gateway.**

| State | Code |
|---|---|
| `stage[r]` | where `execute` is suspended: `fetching` (`upstream.request`), `reading` (`upstream.json`), `streaming` (piping, upstream open), `draining` (upstream ended, client not), `aborting`/`cancelling` (closed, abort of the body under way), `hung` (the end listener threw before the response ended), `lost` (the process died under it) |
| `usage[r]` | the `usage_events` row; `at` is `created_at`/`day`, fixed at reservation |
| `idem[t][k]` | the `idempotency_keys` row; `by` is a history field: who stored the answer |
| `slots`, `active` | release closures not yet run, and the registry's counter |
| `permits`, `inUse` | the same for the semaphore |
| `registered` | `activeStreams` of `stream-lifecycle.ts`; a stream is finalized exactly when it is no longer registered |
| `phase` | accepting, `shutdown` under way, dead |

Sets of closures and counters are kept apart on purpose: the code decrements a
counter in a closure, and that the two agree is a theorem, not a modelling choice.

`Admit`, `NotOwner`, `OverBudget`, `Overloaded`, `RefuseKeyedStream` are the
outcomes of everything before the first await. A call without a stream goes
`fetching`, `reading`, answered; `GiveUp` is the error exit. A stream goes
`fetching`, `streaming`, `draining`, answered; `CloseStream` is the idle timer or
the client's close, `StreamErrors` the error event, `PullRejects` and
`CancelSettles` the two releases an aborted body may run. When the client closes
a JSON call the abort rejects the fetch or the body in the same turn, so it is
`FetchRejects` or `BodyUnusable`. `...WriteFails` are the paths of a failing SQLite write:
of a JSON call it lands in the catch; of a stream it is thrown in an event
listener, is uncaught and starts a shutdown. `Exit` waits until no connection is
left, as `app.close()` does, including streams opened after `closeActiveStreams`.
`Crash` is a kill or the 15 s deadline. Nothing repairs `reserved` rows or pending
keys at the next start: `Restart` only runs maintenance.
Abstractions: bodies are told apart by their hash; units are small numbers; the
tenant's limits are constants during a run; audit rows other than
`budget.overshoot`, metrics and headers are left out; a write that fails inside
`closeStream` is left out.

**UsageMeter.** A payload has the usage objects and stop reasons at each place the
two dialects put them; a count that is missing, negative or no number is `Null`. A stream
is a sequence of symbols; `observeSseChunk` keeps the unfinished line, skips what
outgrows the buffer and reads a line of at most `MaxEvent` symbols. The state is folded
over symbols (`readSymbol`), lines (`observeLine`), chunks and payloads (`observe`).

**Billing.** Every method of `BillingService` that writes is one SQLite transaction
of one synchronous call, so an operation is an operator from account to account
(`startSubscription`, `credit`, `applyUsage`, ...) and an action applies it. `reconcile`
folds `applyUsage` over the batch it selects, `debit` folds `draw` over what is
`Drawable`, in the order `SpentBefore`; both are those of the account before anything is drawn,
as the code sorts before it activates a pack. `account.subs` are the
subscriptions in order of creation; an expiry of `-1` is NULL, a duration of 0 is
NULL, a legacy plan. The reference `<id>:unfunded` of the ledger is a source of its
own. `account.envelope` is the plan whose limits and models `applyPlanLimits` copied to
the tenant; `account.restored` is a history field: allowance used before a reset.
`order[x]` is the entitlement snapshot a checkout stores, computed by the three
routes from the plan as it then is; `Delivered(x)` is what a callback settles, with the tokens of
the exchange rate where the rupiah handler finds none. `meter[u].at` is the time of the reservation,
which is what the cursor compares. Abstractions: one account, since every
statement is keyed by its id; token amounts, rates and hours are small numbers;
display fields, `balance_after` and audit rows are left out; the gate and the
reservation that follows it are one step, as no I/O lies between them.
`cancelSubscription` has no caller and is left out.

**Payments.** `invoice[o]` is where `openInvoice` stands; between `creating` and `done` it
awaits Cryptomus, and losing the answer - a timeout or the end of the process - is
`InvoiceFails`, whether or not Cryptomus registered the invoice. A webhook runs
without an await, so it is one action: `Accepts` are the checks before the
transaction, then one of `Duplicate`, `AlreadySettled`, `Grant`, `GrantFails`
(rolled back, then marked for reconciliation) or `NotPaid`. The two handlers
differ in `AlreadySettled` and in the exchange rate. Providers are external: they
sign only what they received, and a signed callback may arrive never, late or
often. `Packs` are orders whose grant leaves no ledger entry of source `payment`
(`startDurationPack`), so that only `settled_at` protects them.

**Accounts.** An account is named by its address (`accounts.email` is UNIQUE and never
updated). Rows of codes, states and sessions are numbered in the order they are
inserted; a deleted row keeps its number and what the properties read of its
history (`accepted`: how often a code was accepted). `Challenge` is the newest
unconsumed code of the purpose; a wrong guess counts before it is compared.
`Callback` deletes the OAuth state and awaits the provider, `ExchangeReturns` or
`ExchangeFails` is what follows; anything may happen between. `maintain` is the
hourly sweep. Abstractions: hashes, signatures and the Access JWT are what they
decide; roles are left out; a kill between two statements of one handler is left
out.

**ApiKeys.** Two processes, each one command or handler at a time. `rotate` reads the
key before its transaction and its UPDATE does not test `revoked_at` again: it is
`findForRotation` then the insertion and retirement, and the other process may
write between. NULL is 0, so the clock starts at 1.

**RateLimits.** A bucket is refilled when it is looked at. A source pays before anything
is known of it, a credential and its tenant after authentication. `evictIdle` runs only when
the map is full; the registry drops its least recently used tenant. `seen` is a
history variable.

**Catalogue.** `resolveCatalogModel` is the operator `Resolves`. `Sync` is the
reconciliation after the await against a list that may be any set of ids, and may
stop after any of its statements, as it is no transaction; its first half is
`syncing`. Foreign keys and delete guards are guards of the actions. Names, prices and capabilities
are left out.

**FrontDoor.** Every decision is a function from a request record (with what the
limiters, the key's row, the account and the catalogue will say) to the first
refusal in the code's order. `handleError` and `sendProtocolError` are the
envelopes, `Estimate` and `Bound` the reservation.

**Configuration.** `Rules` are the refusals of the schema and of `loadConfig` in their
order; `loadConfig(env)` is 0 or the first that applies.

**Forms.** What is typed is blank, a word, or a number with or without fraction; `ToNumber`
is JavaScript's `Number` (a blank is 0). Each writer - limits form, `limits:set`, plan form,
`plan:upsert`, bulk editor - is an operator next to the schema of the route it feeds.

**Host.** `tree[r]` is how far a release is unpacked, `link` the symbolic links next to
`releases`, `stray` links that `ln -s` made inside a release because the name was
already a link to it. `LinkName` is the name a script links its goal under before
`mv` renames it to `current`. `ScriptFails` is `set -e` with the cleanup trap, `ScriptDies`
a kill, which cleans nothing up. `unit` is the installed unit, `loaded` the one systemd has read:
`sync_unit` installs, `ReloadsUnits` is the `daemon-reload` after it, a restart starts what is loaded,
and `UnitIsLeft` is what a script leaves that ends in between (a file cut off, or one nobody read; `torn`
is the history of it) until a reload or a boot. `report` is the success the last script printed:
`activated`, through the health gate, or `already_active`, the early exit of `rollback.sh`
(`AlreadyActive`), which looks at the link only; `behind` is the history of a script that ended between
`mv` and the restart, until the service is started again. The service may stop and be started by systemd at any moment. Opening the database applies the migrations the release knows.

## 3. Runs

| Run | Question |
|---|---|
| `gateway_keys` | Who owns, replays or waits for an idempotency key, when requests fail, keys expire, a process dies or a write fails? |
| `gateway_streams` | Is everything a request borrowed given back exactly once, and does the pipeline implement `BudgetAccount`? |
| `gateway_live` | Does every admitted request end, and does an exhausted semaphore recover? |
| `billing` | With a first-use pass, stacked packs, a legacy plan that replaces them, cents, edited rates and rows that settle late: is every token that is billed accounted for, once, and taken from where it should be? |
| `billing_late` | Is a row that settles late billed, as the comment of `reconcile` says? It is not (finding below). |
| `payments_settle` | Is each order delivered once, after it was paid, for good, whatever callbacks come and whatever grants fail - and delivered in the end? |
| `accounts` | Do codes, states, passwords and sessions admit only whom they should, once, when handlers interleave over two addresses and the sweep runs between them? |
| `api_keys` | Does a dead key stay dead, and is every replacement accounted for, with two processes writing? |
| `rate_limits` | Does a bounded limiter that forgets callers keep the promise of one that does not, and a tenant in use its bucket? |
| `catalogue` | Does everything named exist, does a sync that stops anywhere widen nothing, and does an edit of a plan take nothing that was paid for? |
| `host` | When scripts fail or die at any command: can what is current start, is a success reported of what is current, installed and not behind another running release, and does the last good archive stay when backups are cut off? |
| `catalogue_stacked` | May either of two live subscriptions entitle a model, as the comment of the resolver says? It may not (finding below). |

Four modules have no state. TLC evaluates what they promise as assumptions of an
instance, over every input of a small universe; a false one ends the run.

| Module, evaluated by | Promises |
|---|---|
| `UsageMeter`, `gateway_*` | the counts and the stop reason do not depend on where a stream is cut into chunks; a line that outgrows the buffer is skipped and the next one read; the OpenAI charge is the last usage's that counts anything, the Anthropic one the largest input and output reported; all of it for every stream and sequence of payloads is a theorem (section 4) |
| `Configuration`, `accounts` | the limits of a configuration that boots are what the other modules assume; OTP codes go the way that is configured; a provider is offered exactly when its flow can start; secrets differ; a production configuration boots exactly with what it must have |
| `FrontDoor`, `rate_limits` | without the console its routes are absent; probes are hidden from outside; a stranger is told nothing about keys, tenants or models; a model a key may list is refused by no endpoint of its scopes; the reservation covers the answer; an Anthropic client is told of load or a fault exactly when it may retry, but for the cases an operator or a payment must cure |
| `Forms`, `catalogue` | the limits form saves exactly what its route takes, and `limits:set` does not; whatever plan is stored, its limits are limits the route takes; what the bulk preview lets through the server accepts, up to the number of rows; no line that says something is dropped in silence |

### Bounds

*Gateway.* Three requests suffice for the keys (an owner, a replay, a claim after
either) and for streams (two tenants compete for two permits and a registry of one
tenant). `Budget = 3` against estimates 1 and 2 and actual use 1 or 3 makes the
budget full, exceeded and undershot. A day is two ticks and the key run lasts two days,
so keys expire, midnight passes in flight and maintenance deletes. One crash and
one failed write per run; a second of either starts again from a state the first
already reaches. Requests are symmetric in the safety runs; the liveness run has two
of them and no symmetry.

*Billing.* Two metering rows suffice for lateness, batches (of one row)
and two debits; two subscriptions for a pass and a pack, a pack and a bought pack, and a
legacy plan that replaces either. Rows of 3 units against allowances of less leave
the rest to cents or unfunded; a rate edited from 2 to 0 per 3 tokens gives both
roundings and a wallet that cannot pay. A pass resets once, the pack and the
legacy plan never. A pack without tokens is granted those of the exchange rate (`RateTokens`). Time is long enough for every timer, the reset and the retention.
`billing_late` has rows of 0, 1 and 3 units and one tick more.

*Payments.* Orders interact only through the rate: one of each provider,
one of them a pack, cover the handlers. Four callbacks make every order of a short,
a failed, a repeated and a contradicting one; each may be delivered any number of times.

*Accounts.* Two addresses and two passwords, one federated user whose provider
reports another address later, one Telegram user, two providers; at most two codes,
states and sessions, three of codes and states together, one attempt per code. Two codes show
superseding and a guess of the old one; one attempt is spent by one
guess; two ticks let a code, a state and a session expire. Addresses, passwords and providers
are symmetric. Attempts above one are the subject of the proof.

*ApiKeys.* Three keys make a chain of two rotations; a daily limit of two refuses the
third; graces of 0 and 1 within three ticks make a grace end and a day pass.

*RateLimits.* Three tenants over a registry of two evict; four credentials over two
entries do; a burst of 3 and a rate of 1 or 3 fill a bucket within the run or not.

*Catalogue.* Two models, two groups, of which one is the undeletable default, one
tenant with one subscription of a rolling plan; two plans and two subscriptions in
`catalogue_stacked`. A bulk update changes one model at a time: the server applies the
changes in one transaction, whose steps nobody sees.

*Host.* Two releases; the second brings a migration and a unit of its own, so `sync_unit` meets
an equal file and a different one, and a rollback an older schema. Two suffice for links that are
left over: a rollback that dies leaves one that a later script swaps in or follows. Two of up to four
archives are kept, good and bad in every order. `SuccessHolds` and `CurrentCanStart` are proved for
any number of releases.

The systems may stop (all requests done, all counters used up), so deadlock is not
checked.

### Fairness

*Gateway* (`FairSpec`) assumes only the code's own timers: `AbortSignal.timeout`
of `REQUEST_TIMEOUT_MS` on every upstream call, `STREAM_IDLE_TIMEOUT_MS` on every
stream, `READY_UPSTREAM_TIMEOUT_MS` on the probe. The upstream and the client owe nothing.
`Tick` lets a request outlive midnight but not a second tick, because
configuration limits both timeouts to minutes.

*Payments*: a provider repeats a signed callback until it is acted
upon (the comment of the handler: "Cryptomus retries"). Plans may be edited for
ever; the property asks for a grant only if from some time on one is possible.

Elsewhere nothing must happen: no other component promises progress by itself.

## 4. Proofs

The theorems hold for every value of the constants, from the named assumptions of the
component's module only, which TLC evaluates on every run. `<Module>_proofs` holds
those of `<Module>`. Every invariant and every step property of the runs that pass is a theorem.

**Gateway.** `TypeCorrect`, `SlotsConserved`, `PermitsConserved`, `ReservationsOwned`,
`ChargesAnswered`. None of the properties is inductive alone. The inductive invariant is
`IInv == TypeOK /\ PermitsBalance /\ SlotsBalance /\ Places /\ Accounting`.
`Places` says which requests have a registered closer (exactly the streams in
`streaming` or `draining`), that a dead process holds nothing, and that a new request has no row yet;
without it a double finalize would be possible and the slots would not balance.
`Accounting` ties the state of a usage row to the stage and the answer of its
request. The counters need lemmas on cardinalities: removing the closures that
ran takes exactly their number from the counter. `AccountKept` (`Gateway` implements
`BudgetAccount`) follows from `IInv` step by step: a new request has no row, so an admission is a
`Reserve` or a `Void`; whatever two writes of one failing step leave of a row is one resolution of it.

**Idempotency keys** (the second part of `Gateway_proofs`). `OneFlightPerKey`, `ClaimsHaveOwners`, `ReplaysWerePaid`,
`ChargedOncePerKey`, from `IInv` and `KeyInv`. A row has no owner: `complete` and `abandon`
find it by key and body, so that they write the right one has to be shown. The
argument is time: timers end a request within two ticks (`Young`), a claim lives for
a day of at least two, so while a request is in flight nobody can take its claim over,
and the row is its own (`LiveClaims`); afterwards the row holds its answer until it expires (`PaidClaims`,
`StoredClaims`). Whoever owns a key later was admitted after that (`Spaced`, `Apart`). Maintenance
must not take the charge of an answer that can still be replayed: a purge is `Retention`
days late, an answer lives one (`DaysApart`).

**Usage meter** (the third part of `Gateway_proofs`). `AnyChunksReadTheSame`, `ChunksNeverMatter`,
`LongLinesAreSkipped`, `LastWordAlwaysCharged`, `LargestPartsAlwaysCharged`: what `MCGateway` evaluates over
short streams, for every stream, every way to cut it into chunks and every sequence of payloads. The hypotheses are the
code's: `MAX_BUFFERED_BYTES` is a number (and above `MAX_EVENT_BYTES`, for the long line), no line
outgrows the buffer (`Fits`), a count is a number or missing.
Each reading is a fold, and a fold is the value of a function on all places of a sequence: such a function exists
(`TableExists`) and a sequence longer by one element has one step more (`TableGrows`), so every
fold is reasoned about as a loop. The invariants of the loops are that the state stands behind the
text read so far (`Behind`: its complete lines are observed, the rest is buffered, `ChunksAreRead`), that a part of the meter
is `Largest` of the counts said, and that the total is the last word's.

**Billing.** `BillingTyped`, `LedgerExplains`, `RowsBilledAtMostOnce`, `RefusedPaysNothing`,
`OneEnvelope`, `WalletDrawnLast`, `CursorPassesBilled`, from `BillingInv`: the types and an account
that is `Sound`. That the ledger explains the balances (`Explained`) is not inductive
alone. A charge adds an entry only because none with its source and reference is there
(`Keyed`); a shortfall is recorded next to the debit it completes (`Booked`),
without which a row billed twice would be explained all the same; and what pays is all that
could have, because one rolling pass at most is live (`Enveloped`). The operations
are lemmas on an arbitrary sound account: what one `draw` moves is bounded by the subscription's
allowance and by what is left, so by induction over the set that pays a `debit` takes
the units of its row, no more, and the wallet only when every allowance is gone; by induction over
the batch `reconcile` applies each selected row once and passes the cursor over those.
A fold is a `CHOOSE` of a function over all subsets: `FoldExists` shows that there is one
(subscriptions and metering rows are finitely many), after which a sum or a fold is
reasoned about one element at a time. The library's induction theorems take a predicate, so
induction is proved here for sets (`NumberInduction`, `SubsetInduction`), which
the provers can instantiate. The proof failed at first on a snapshot that matched two arms of
`settlePaymentSnapshot`, where the code tests in order; the arms now exclude each other as the code's do.

**Payments.** `PaymentTypeCorrect` (with it: no order is granted twice), `GrantsAreRecorded`,
`Refinement` (`Payments` implements `Purchases`).
The invariant adds that an unanswered invoice has no row (`Fresh`; otherwise
answering it could erase a settlement), that a ledger entry stands for a grant,
and that a callback that may settle was signed for money received.

**Accounts.** `AccountsTypeCorrect`, `CodesSpentOnce`, `VerifiedPasswordsKept`,
`SweepsAreInvisible`, `SessionsAreEarned`, the first four from `AccountsInv`: one part per variable, so that a handler disturbs
few of them. Beyond types and the bounds on attempts and acceptances it says that
a verified address has an account (`VerifiedExist`), that a callback waits for a real provider
and an open session is an account's. That the sweep is invisible follows from what every
reader tests of a row: what it deletes nobody would have accepted.
`SessionsAreEarned` needs `EarnedInv`: the proof of a session is an accepted code or an identity and a
state that can answer no more (`Backed`), no two sessions share one (`Separate`), an identity has
one owner, a verified address an accepted code (`Proved`), an id not yet given out was
never accepted (`FreshCodes`), and a state some callback awaits the provider with is
deleted and awaited by that one only (`OneCallback`): otherwise the same state would earn
two sessions. It assumes that `code` and `telegram`, the other two ways in, are no OAuth providers.

**ApiKeys.** `KeysTypeCorrect`, `LineageKept`, `DeadKeysStayDead`, `KeysAreCounted`, the first three from `KeysInv`:
the lineage, that no row is of the future (`RowsOfThePast`; otherwise a key could be
retired before its replacement was there), and that a rotation under way found its
key unrevoked (`Found`): only a command that read the
key before the other process revoked it can write its time anew, which is the exception
`DeadKeyStaysDead` names. `KeysAreCounted` needs `CountsInv`: a rotation that found its key and has not
written yet is counted as the replacement it will be, so a key has at most one replacement for each process;
and while the service's own is under way the tenant is still below its limit, because only
the service issues keys that count and it does one thing at a time.

**RateLimits.** `CredentialLimiterKeepsPromise`: the limiter that evicts implements
`TokenBuckets`. What it needs is that a bucket idle for longer than the eviction age
is full, hence `Burst <= Rate * Minute`, which the configuration gives the limiters
of credentials; then forgetting a bucket and refilling it are the same. `LimitsTyped` is the type
invariant of both kinds. `TenantBucketStays`: a tenant among the last `MaxTenants` asked about keeps
its bucket. The registry is a list that is reordered, cut and rewritten; the invariant
(`RegistryInvariant`) is that its tenants are always the end of the history `seen`, in that order.
Removal from both lists is by `RemoveAt`, whose places and length can be computed.

**Catalogue.** `CatalogueTypeCorrect`, `SyncWidensNothing`, `PlanEditsKeepPaid`. The
type invariant, which says that whatever is named exists, is inductive; the two action properties
follow from it step by step.

**Host.** `CurrentCanStart`, `SuccessHolds`, `LastGoodCopyKept`. The invariant
(`HostInv`, `ArchivesInv`) says of a script in progress what its next
commands rely on: every link but the candidate of a deploy names a release that is
complete and knows every migration of the database, what the pruning removes is not named, and
a backup prunes only when its own archive is the newest good one. Of the unit it says that the
installed one was read unless a script is about to reload or `torn` holds (`UnitIsRead`), and of a report that it
stays true until the next script begins: no command of a script runs, and systemd starts only what is current.
`RunsCurrent` is what "target already active" rests on: the service runs what is current or nothing, but
between a swap and its restart or after a script that ended there.

Only model-checked: the liveness properties `RequestsEnd`, `PermitsReturn`,
`PaidIsGranted` (fairness and ENABLED are out of the prover's reach). The other
pure modules (`FrontDoor`, `Configuration`, `Forms`) are evaluated over bounded inputs: their promises are about finite tables of cases.

## 5. Findings, and where words and code differ

Two runs show a disagreement.

- `LateIsNotFree` (`src/billing/service.ts:928`): the cursor compares the time of
  the reservation; a row reserved before and settled after a billed one is never
  billed. What does hold is `CursorPassesOnlyBilled`, that no row is passed that was settled by then, and
  `BilledAtMostOnce`, that a row which is billed is billed once and for its units. Nothing promises
  that a row is billed before maintenance deletes it (`main.ts:35`).
- `EitherGroupEntitles` (`src/billing/service.ts:550`): a purchase rewrites the policies
  of the tenant to deny every model outside its own group, including those of a live
  subscription to another group.

The models describe what the code does; where its comments, messages or neighbours
say otherwise, in short:

*Budget and billing.*
- `settleBudget` measures what is left of the day on which it runs; the row belongs to the day
  of its reservation. Across midnight a `budget.overshoot` row is missing or
  unfounded (`database.ts:183`).
- `resetSubscription` asks for a subscription that is not canceled, not for one that has time left:
  a reset revives a pass that ran out (`service.ts:498-519`, `SubscriptionRevives`). So `EnvelopeIsHeld` counts
  subscriptions by status, and a plan that ran out may still be the tenant's envelope; limits an admin edits
  directly (`limits:set`, the limits form) are outside it.
- A pack waiting for its first use is sorted by its `period_end`, then activated; a
  running pack that expires earlier is debited after it (`service.ts:636`).
- Cents open the gate without a plan that gives them a rate; the usage ends up
  unfunded (`service.ts:1021`).
- A rolling pass is granted from the plan at settlement, not from the snapshot at
  checkout (`service.ts:830`).
- The payment row is written after the invoice was registered; if the answer is
  lost, its callbacks meet `404` (`console.ts:1080`).

*Catalogue.*
- `catalog.remove` asks the plans' `models_json`, which is rewritten only when a plan is.
- The sync claims one transaction (`console.ts:1455-1457`) and has none; with a reset it
  deletes the denials of a model that may come back.
- A paid order whose group was removed while it was pending fails on a foreign key.

*Keys and accounts.*
- "Revoke unused keys to free a slot", although revoked keys count (`console.ts:938`, `992`).
- The schema takes `expiresDays` (`console.ts:283`); the handler ignores it.
- A revoke during the grace of a rotation changes nothing and answers `revoked: true`.
- `rotate` reads the key outside its transaction and does not test `revoked_at` when it writes.
- `OTP_RESEND_SECONDS` may exceed `OTP_TTL`; a resend whose delivery fails has
  superseded a code that was delivered.

*HTTP and metering.*
- Of two stop reasons the last wins; the comment says the first (`usage.ts:71-76`).
- A chunk is decoded alone, so a character that is split becomes two replacement
  characters; a last line without a line end is not read.
- A body that is no JSON or too large fails before authentication, as `502 gateway_error` in the
  OpenAI dialect, also on `/v1/messages`.
- In the Anthropic dialect 402 is `api_error`; `model_group_missing` and
  `plan_group_missing` are `overloaded_error`, which clients retry.
- The chat page's comment (`web/src/chat/main.tsx:133-136`) about what `/v1/models` lists
  differs from the route; stopping before the first delta leaves an empty answer.
- The keys of Cloudflare Access are cached for 15 minutes.

*Configuration and forms.*
- The ceiling of one tenant may exceed `UPSTREAM_CONCURRENCY`, which `loadConfig` forbids the default.
- Telegram is offered with a token and no bot name.
- `limits:set` (`cli/keys.ts:204-214`) has no upper bounds and refuses 0, against
  `limit-bounds.ts:4-9`.
- `plan:upsert` without `--model-group` moves the plan to the default group (`keys.ts:270`).
- The plan form's "no group" sends an empty name, which the schema refuses; its number boxes
  read a cleared field as 0 (`main.tsx:79-85`).
- The bulk preview has no bound of 500 rows; the route has (`console.ts:1496`, `bulk-models.ts:28-30`).

*Host.*
- `rollback.sh` compares its target with the link `current` only (`rollback.sh:127`). Run again after a
  script was killed between `mv` and restart, it exits 0 with "target already active" while the release
  before it runs, under the unit before it; the runbook says that a rollback restarts and requires
  readiness (`docs/runbooks/operations.md:326-327`).
- A unit that is equal is not reloaded (`deploy.sh:91`, `rollback.sh:29`), even when the script that
  installed it ended before `daemon-reload`. The next deploy or rollback reports success with a service
  started by the unit before it, against "syncs the systemd unit from the release"
  (`docs/runbooks/operations.md:79-80`). `SuccessIsReal` excepts these two cases, by the names `behind`
  and `torn`, and no other.
- Preflight migrates the live database before anything is activated: after a failed
  deploy the restored release runs on a newer schema, and a rollback to an
  older one is refused.
- With a leftover `.rollback` or `.rollback-revert` link, `ln -s` creates its link inside
  the release it names and `mv` makes the stale release current (`deploy.sh:248`).
- A failure of `sync_unit` after the swap ends the script with a release nobody proved.
- The cleanup may delete a release the service still runs.
- A killed deploy leaves `releases/<sha>`, so that commit is refused as immutable.

## 6. Not modelled, and why

- Arithmetic on time alone: `Retry-After` hints, a clock that steps back. The code
  takes time from `Date.now()` everywhere and does not defend against the latter.
- The shell of a handler: rendering, static files, the grammar of request bodies,
  headers, metrics, logs, string lengths, loopback forms of an URL.
- Input and output without state of its own: the SMTP dialogue and the relay worker, the egress policy
  (which resolves names once at start), fetching and caching the exchange
  rate, signatures and JWTs (taken as what they decide), the contents of a backup.
- Account roles and the creation of tenants: single statements, tested by an `if`.
- Corruption of data the program alone writes (the JSON of capabilities).
- A kill between two statements of one handler of `Accounts`: each leaves a
  state that another interleaving reaches.
- The statements of a migration: each is one transaction applied once, in order; `Host`
  models that, and the other modules the schema that results.
- Building and signing a release, and the checks before a script writes anything,
  which decide only whether it begins; `record_rollback_evidence`, whose failure is ignored.
- `cancelSubscription`, which has no caller.

## 7. What is left

1. A second account in `Billing`, when a statement stops being keyed by account.
2. Theorems about the pure modules: that `Estimate` bounds what `FrontDoor` lets through, and that a
   configuration that boots has the limits the other modules assume.
