# TLA+ models of ZEROFAYYZ FINTECH

TLA+ models of the payment platform in this repository, the TLC configurations
that check them on small instances, and theorems about them that the TLAPS proof
system has checked. `PROJECT.json` maps every definition to the lines it
models, lists the runs, the hazards, the disagreements found between code and
documents, and for every checked property a plausible bug of the code (a
"slip" in the modules) that would break it.

## The system

One Fastify API (`apps/api`) over PostgreSQL, with Stripe's sandbox behind it,
three browser clients, a Go reconciler that reads the same database, and an MCP
server that drives the API in tests.

| Component | State it keeps | Operations | Interacts with |
|---|---|---|---|
| Checkout (`payments.routes.ts`) | `payments` | create a session, mark it processing or failed | Stripe Checkout |
| Webhook (`payments.routes.ts`) | `payments`, `transactions` | record a session event, record a refund event | Stripe's deliveries |
| Refund requests (`refunds.routes.ts`) | `refund_requests`, `audit_logs` | request, approve, reject, withdraw | Stripe refunds, webhook |
| Reconciler (`services/reconciler`) | none | read both tables, derive, report | the ledger tables |
| Job queue (`jobs/queue.ts`) | `jobs` | enqueue, claim, succeed, fail, next due time | workers, magic links |
| Session cleanup (`jobs/handlers.ts`) | `sessions`, `jobs` | delete old rows, schedule the next run under the key of its day | the queue |
| Worker loop (`jobs/worker.ts`) | variables of the process | poll, sleep, wake, stop | the queue, its listeners |
| Server (`server.ts`) | the process | boot, take requests, shut down on a signal | the worker, the pool |
| Sign-in and accounts (`auth/`, `admin.routes.ts`) | `users`, `sessions`, `login_tokens` | two doors, logout, create, role, disable, enable, revoke | every route |
| Database access (`database/database.ts`) | a pool of connections | query, query as a user in a restricted role, retry a cold start, close | everything |
| Row-level security (migration 007) | policies | admit a row to a person | the request lane |
| Operator panel (`web-vue`, `web-svelte`) | a store, the browser's cookie | resume, sign in, sign out, load the audit trail | the auth routes |
| Rate limiters (`auth/rate-limit.ts`) | a map per process | status, failure, reset | login, magic links |
| Next.js client, MCP server | what the last answer said | show it | the API |

What makes it hard:

- Every handler is a sequence of awaits, so another request, a webhook or a
  crash may come between any two of its statements. There are no transactions
  across statements on these paths: the code relies on single statements with
  guards (`WHERE status = 'pending'`), unique indexes and `ON CONFLICT`.
- Stripe delivers events at least once, late and in any order, and a call to it
  may succeed without its answer arriving.
- The queue tells a slow worker from a dead one only by a lease, and the chain
  of cleanups names its runs by a clock of the host, not of the database.
- The worker sleeps for hours, so a lost wake-up matters; the process must stop
  in an order that cuts nothing off, whenever the signal comes.
- A pooled connection that has worn a restricted role must not be lent out in
  it, although the statement that takes the role off may fail.
- Answers to a browser come late, out of order or not at all, while its cookie
  is shared by every page.

What makes each part correct, in a sentence: the ledger claims no money Stripe
does not have and misses none it has; a refund is made once, on another
person's word; a report names what is wrong and nothing else; a job has one
worker at a time and ends; the cleanups go on or end visibly; a notice is not
lost; a process stops after everything it lends its pool to; an account that is
disabled cannot act; a call reads what its person may; a browser acts as the
user its panel shows, or as nobody.

## The modules

| Module | Models | State and actions |
|---|---|---|
| `Ledger` | the two webhook statements | `status`, `intent`, `log` = `payments.status`, `provider_payment_id`, `transactions`; `RecordSession`, `RecordRefund` are one data-modifying CTE each |
| `PaymentLifecycle` | abstract: the edges a payment's status may take | one variable, one action |
| `Payments` | checkout handler, Stripe, payer, deliveries | `pc[p]` is the await the handler is at; `asked`, `session`, `returned`, `events` are Stripe's |
| `Refunds` | the four refund handlers, Stripe's refunds, the webhook | `rstat`, `decider`, `refundId`, `audit` are columns; `at[u]`, `on[u]` where a decision handler stands; `filing` where a request handler does |
| `RefundContract` | abstract: what a refund promises | money moves once, only after an approval |
| `Reconciler` | `DeriveStatus`, `Check`, a run's two reads | extends `Payments`, so ledger and run interleave; the sorted loop of `DeriveStatus` is the latest session row and the sum of the refund rows |
| `JobQueue` | the `jobs` table and `runOne` | one action per statement; `delay` and `age` are `run_at` and `claimed_at` relative to `NOW()` |
| `CleanupChain` | the recurring job on that queue | a job is a day; `Seed` and `ScheduleNext` are the enqueues under the key of a day as the host's clock tells it, `Skew[w]` is how far that clock is ahead of the database's |
| `Worker` | the loop of `worker.ts` and the two queue objects | code between awaits is atomic, as in JavaScript |
| `Server` | the process around that loop | extends `Worker`: requests that enqueue, the signals, and for each the awaits of `shutdown`; `pool` is the process's connections |
| `Accounts` | both doors, links, sessions, account management | `door[d]` and `req[d]` are the awaits of a sign-in and of an administrator's request |
| `Lanes` | the pool and the two lanes of `database.ts`, with the six read policies | `role`, `context` are what a connection wears; `pc[r]` is the statement a call is at |
| `StaffPanel` | the store of the Vue client (the Svelte store is its twin), the cookie and the API's side of its four calls | `task[t]` is an action of the store that waits for an answer; `HeadArrives` is the browser obeying the answer's Set-Cookie when `fetch` resolves, `Answered` the store going on once it has read the body |
| `Refunds_proofs`, `Payments_proofs`, `JobQueue_proofs`, `CleanupChain_proofs`, `Server_proofs`, `Accounts_proofs`, `Lanes_proofs`, `StaffPanel_proofs` | theorems | `Payments_proofs` holds those about `Reconciler` too |
| `MC*` | instances for TLC | |

`Ledger` is shared: `Payments` and `Refunds` extend it, and the statements of
the webhook are the same definitions in both. `CleanupChain` composes hosts
with the queue, `Server` composes the routes, the signals and the worker loop,
and `Reconciler` composes a report with the running ledger.

## The runs

Passing runs:

| Run | Question |
|---|---|
| `Refunds_two_requests` | two requests of one payment, two administrators, crashes, lost answers, repeated webhooks: one pending request, a ledger that never runs ahead of Stripe, and the refund contract (refinement) |
| `Refunds_contention` | three administrators race on one request: one winner, one refund, on another's word; audit entries are true for good; money that moved reaches the ledger (liveness) |
| `Payments_cards` | everything Stripe may deliver for card payments, with another installation's events: true status, a projection of the log, the lifecycle (refinement), no overwritten verdict; the outcome shows and no living handler leaves a payment in `created` (liveness) |
| `Reconciler_report` | the report of a ledger at rest is exact, also with payments that settle late and with edits by hand |
| `Cleanup_chain` | two hosts run the daily cleanup on the queue: the chain does not end silently; one worker per job, honoured leases, earned outcomes and bounded attempts for handlers within their lease; every job ends (liveness) and dead stays dead also for slower ones |
| `Server_lifecycle` | no lost wake-up, a prompt stop, nothing cut off by the end of the pool; no job forgotten and every signal ends the process (liveness) while statements fail |
| `Accounts_doors` | one session per link, the exact extent of the disable race; until two requests overlap, disabled accounts have no session and an administrator remains |
| `Lanes_pool` | three calls over two connections with every failure: no connection goes back in a person's role, and a call reads what its own person may |
| `StaffPanel_doors` | two people at one browser: the browser acts as the user the panel shows or as nobody; the panel signs out for a cause, comes to an end with what it started (liveness) and leaves when asked |

Runs that end in a violation, each a disagreement between the code and what the
repository says of it (quoted in `PROJECT.json`, "findings"):

| Run | What happens |
|---|---|
| `Refunds_stuck` | a claim whose revert is refused by the index stays approved for ever |
| `Reconciler_two_refunds` | the running totals of two partial refunds are added up: a false alarm |
| `Worker_other_queue` | a mail job that does not wake the worker |

### What the models showed beside the runs

The properties above are stated as strongly as the code allows. Where one of
them carries a condition, the condition is needed, and leaving it out shows one
of these behaviours:

- A refund whose answer was lost is reverted to `pending` like a refusal; the
  request can then be rejected or withdrawn although Stripe makes the refund
  (`refunds.routes.ts:337`).
- A refund is audited after it is made, in a statement of its own, so a crash
  leaves it without an entry (`refunds.routes.ts:387`), and the entry of a
  whole-amount request states the payment's price also when less was left to
  refund (`:396`). The same order holds for a forced sign-out
  (`admin.routes.ts:190`).
- With a payment method that settles late, a completed event learned after
  `async_payment_succeeded` sets a paid payment back to `processing`
  (`payments.routes.ts:456`); checkout offers only cards.
- A refund event that arrives before the completed event has stored
  `provider_payment_id` matches no payment, is acknowledged and lost
  (`payments.routes.ts:343`).
- The reconciler reports a payment no event has arrived for, and one whose
  webhook commits between its two reads (`reconcile.go:68`, `main.go:55`).
- A handler that outlives its lease writes its outcome over the live claim of
  another worker (`queue.ts:188`); a job that kills its worker every time is
  claimed beyond `max_attempts` (`queue.ts:170`).
- The next cleanup is due thirty seconds after midnight UTC (`handlers.ts:41`). That
  margin is what lets a host's clock be behind the database's: with none, a run
  that starts before the host's midnight finds its own day's key taken, and the
  chain ends without a dead job.
- A session whose sign-in had passed its check when its account was disabled
  is live afterwards (`auth.routes.ts:202`), and two administrators who demote
  each other at once may leave none.
- A second signal that comes while the pool is ending makes its own
  `pool.end()` reject, and the process exits with status 1 although nothing was
  cut off (`server.ts:46`). The seeding of the cleanup at boot is not awaited by
  the shutdown and may be refused by an ended pool; that is only logged.
- An operator panel acts on an answer whoever asked for it (`auth.ts:90`): a 401
  asked for under an earlier session signs out the user of a later one, an
  audit trail asked for earlier appears under a later user, and stays if that
  user is refused it. A sign-out given up after 45 seconds leaves the cookie.
- A second click on Sign out can clear the cookie of a session that began
  between the two answers. Alice clicks twice, the first answer shows the form,
  Bob signs in, and the head of his answer sets the cookie (`api.ts:105`); the
  answer of the second sign-out clears cookie and store (`auth.ts:73`), and only
  then is the body of Bob's read (`api.ts:112`), which shows him as signed in
  (`auth.ts:59`). The panel "only mirrors what /auth/me is willing to admit"
  (`auth.ts:18`), but here shows a user the API takes for nobody. Its audit call
  is then refused and tells him that his session has ended, while that session
  is live until it expires. `taken` in `ActsAsShown` is this case.

Seen while reading and not modelled: after a reachable health answer
`wake-watcher.tsx:59` refreshes the page and arms no further attempt, so a page
whose new render is still without an answer keeps saying that it is retrying;
the lists report a total of 0 for an offset beyond their end
(`ledger.routes.ts`), and their page then has no link back; `post()` of
`refund-controls.tsx` does not catch a failed fetch, which leaves its button
disabled; `api-client.ts` of the MCP server never renews an expired cookie.

### Bounds

- Refunds: one payment of price two (so that a partial refund exists) with two
  requests and two administrators, or one request and three. Payments: one of
  price three (so that refunds come in up to three parts) beside a foreign one,
  whose session may settle late; no statement of the checkout or the webhook
  touches two payments.
- Cleanup: two days, so that a run schedules another and the other exists; two
  hosts, of which one is a tick ahead; a lease of two ticks, two attempts, one
  fault. The day after the last is `Horizon`, whose job nobody runs.
- Server: two jobs, one of them of the other queue object, due at once or after
  four ticks, an idle cap of three ticks, a lease of two; two signals, so that
  one comes during the shutdown of the other.
- Accounts: two accounts, two sign-ins, one link. Lanes: three calls (two of the
  request lane, one of the service lane) over two connections, a person's row
  for each of two persons. Panel: two people, two sessions, two actions at a
  time, two loads: enough for a sign-out clicked twice with a sign-in between
  its answers.

The races found and excluded are between two parties about one row, one
connection or one cookie; a third party only repeats the second, and where it
might not, a theorem covers any number. Counters that would grow for ever are
bounded by a CONSTANT in the guards: crashes and faults by `MaxFaults`, page
loads by `MaxLoads`, refund calls by the steps of finitely many handlers, time
by counting relative to `NOW()`. Symmetry is used for a safety run only.

### Fairness

A handler that has not died runs on, since the event loop runs every ready
callback; Stripe answers or drops every call and redelivers an event until it
is acknowledged, as it documents; a worker polls while there is something to
claim, and time passes. In `Server` a poll or a job that can succeed again and
again eventually does (strong fairness, because failed statements come in
between), a request ends, and each await of a shutdown ends once what it waits
for has. Every fetch of the panel has an `AbortSignal.timeout` of 45 seconds,
so each of its actions settles. `StopIsPrompt` is stated without fairness, as
an invariant: after `stop()` there is no sleep for the clock to end. No fairness
is assumed of users, payers, administrators, crashes, failures or signals.

## What is proved

All for every value of the constants, checked with `tlapm`. Every invariant and
every action property that a passing run checks is stated by a theorem, and so
are both refinements; only liveness is left to TLC. An invariant is seldom
inductive alone; each module says what has to be added and why.

- `Refunds_proofs`: the type invariant, `OnePending`, `DecisionsComplete`,
  `WinnerOwnsRow`, `RefundIdIsReal`, `MoneyMovedByAnother` (FourEyes),
  `OneRefundPerRequest` (NoDoubleRefund), `DecisionIsFinal`, `AuditIsTrue`,
  `LedgerBehindStripe`, and that `Refunds` implements `RefundContract`
  (`KeepsContract`). The invariant (`Inductive`) adds that a request without a
  row has not been filed, that approvals are administrators', that calls and
  refunds carry their request's own key, and that a handler storing a refund id
  has been told of a refund. `AuditIsTrue` follows from `DecisionIsFinal`'s step
  and from what a handler about to write its entry knows (`AuditorKnows`).
  `LedgerBehindStripe` is about rows that state a running total: a total only
  grows, so an event stays true of Stripe however late it is learned
  (`EventsStayTrue`, with it `Booked`). For the contract, every step of a handler
  is shown to move money, to decide, or to change nothing the contract sees;
  that money moves once is `Inductive`'s part about keys.
- `Payments_proofs`, about `Payments`: `NoInventedMoney`, `CheckoutKeepsVerdict`
  and `StatusIsLastLearned` for any payments, settling at once or late; and,
  when sessions settle at once (`Delayed \subseteq Foreign`), `SettledShows` and
  that `Payments` implements `PaymentLifecycle`. Events are old news when they
  arrive, so the invariant is about what they say for good (`StripeSays`): a
  session that was paid stays paid, one that expired stays expired, a charge that
  went back is back, and when there is an event the handler is over. For
  `StatusIsLastLearned` it has to be added that refunds find their payment by the
  intent a session's row brought (`SessionRowFirst`), so no log of a payment
  begins with a refund. `CardSteps` says what the status can be at each step of
  the handler and that one payment has one outcome; `Acknowledged` that a paid
  session has said so and that what was acknowledged was written. The assumption
  is needed: see the payment set back to `processing` above.
- `Payments_proofs`, about `Reconciler`: `DerivesTheTruth` and `ReportIsRight`.
  Nothing of the above can be used, because a status may be edited by hand; the
  invariant (`Told`) says that later events carry later times, that the latest
  session event says how the session stands and that one refund event says how
  much has gone back, and `RunKnows` that a report is about the log as it is
  while no row arrives. A sum over at most one row needs no induction, which is
  why these theorems are within reach; both properties are stated for at most
  one refund because of what `Reconciler_two_refunds` shows. Without edits the
  reconciler leaves the ledger as it would be (`RunOnlyReads`).
- `JobQueue_proofs`: for jobs in `Prompt` (their handler ends before its lease
  does) `OneRunner`, `LeaseHonoured` and `AttemptsWithinFaults`; for every job
  `RunningHoldsLease`, `SucceededWasDone` and `DeadNeverRetried`. A row does not
  know which worker still believes in its claim, so the first invariant
  (`Claims`) is about time: a worker at work holds a lease that has not run out,
  or, when the answer to its `succeed()` was lost, a job nobody can claim. The
  second (`Accounted`) counts: what was claimed was claimed in earnest or lost
  to a fault. `Prompt` is needed: see the late outcome above.
- `CleanupChain_proofs`: `ChainUnbroken` for any days, hosts and faults, and for
  clocks that differ by no more than the margin after midnight; and that the
  chain implements the queue (`ChainIsQueue`), so the theorems about the queue
  hold of the cleanups. The invariant says how late it must be by every clock
  once a run has begun (`Begun`), that a run that ended well is followed by a
  row (`Followed`), and that the last row is not a success (`LastRow`).
- `Server_proofs`: `NoOversleep`, `StopIsPrompt` and `NothingCutOff`. Two
  invariants: what the loop knows when it falls asleep (`Informed`), and that
  the awaits of every shutdown have been passed in order (`Orderly`).
- `Accounts_proofs`: the type invariant, `OneSessionPerLink` and
  `OnlyOvertaken` whatever overlaps; `DisabledHasNoSession` and `SomeAdmin` up
  to the first moment two requests overlap. The invariant of the second part
  (`Quiet`) says that what a request checked is still true when it acts. The
  condition is needed: see the two behaviours above.
- `Lanes_proofs`: the type invariant, `CleanPool`, `ReadsItsOwn` and `LentOnce`.
- `StaffPanel_proofs`: `ActsAsShown` and `LeavesForCause`, for any people,
  sessions and actions of the store at once. Every step is first summed up by
  what it does to the records and the panel (`StepIs`): a page is loaded, an
  action begins, is served, sees the head of its answer, signs in and goes on,
  or ends; or the world changes the cookie and the sessions.
  The invariant (`Inductive`) says what a record can be on its own (`Records`),
  whose turn it is (`Turns`: nothing else is waited for while the session is
  being checked, and no sign-in unless the panel is signed out), that the check
  was sent with the cookie the browser still has (`ChecksTheCookie`), that the
  cookie a sign-in brought is still there when its body is read, or was cleared
  by the end of its session or a late sign-out (`HoldsTheCookie`), and that what
  an answer says of a session is still so when it is read (`Made`), since a
  session is made once, keeps its holder and ends for good (`Grows`).

`TypeCorrect` of three modules, `DecisionsComplete`, `RunningHoldsLease`,
`RefundIdIsReal`, `LentOnce` and the panel's `Inductive` are in no run: TLC agreed
with them before they were proved.

Only model-checked: the liveness properties (`MoneyReachesLedger`,
`OutcomeShows`, `CreatedIsLeft`, `EveryJobEnds`, `EveryJobTaken`, `SignalEnds`,
`NeverHangs`, `LeavesWhenAsked`), because fairness and ENABLED are out of the
prover's reach; and the three violations, which are counterexamples. What
`DeriveStatus` makes of several refunds is a sum over many rows, an induction
the provers cannot instantiate; TLC shows there that it is not right.

## Limits of the models

- A user has one decision call under way at a time (`at[u]`, `on[u]`).
- Stripe keeps idempotency keys for ever; in fact for a day or longer.
- `ORDER BY run_at` is over-approximated: any claimable job may be claimed.
- A session expires at Stripe only after its checkout handler is over (a day
  later).
- Ticks stand for time. Only `CleanupChain` has clocks that differ; `Worker`
  compares the due time of PostgreSQL with its own clock as if they were one
  (`worker.ts:116`).
- Wrong passwords and the limiters are not in `Accounts`; amounts are small
  naturals; text, formats and logging are left out everywhere.
- In `StaffPanel` head and body of an answer are two steps where the head
  changes the cookie; of the others the store sees nothing before the body. The
  cookie a sign-in is sent with is left out, since login does not look at it.
- `Refunds` begins with a paid payment whose `provider_payment_id` is stored, so
  the refund event that comes too early and is lost (above) cannot occur there,
  and `MoneyReachesLedger` does not speak of it.
- Of the row-level policies the reads are modelled; the one insert the request
  lane may make is used by no route.

## Not modelled

- Rate limiters: a window per process, beside the awaits of login. Planned.
- The Next.js client and the dashboards, the read routes: pages and queries that
  show what an answer said; their few states are the ones described above.
  Planned.
- Outgoing mail: one HTTP call, which the queue model has as a handler that
  returns, throws or outlives its lease.
- Password hashing, cookie parsing, error tracking, security headers:
  sequential functions over strings, tested directly.
- Migrations and seeds: run by one operator at a time.
- The MCP server, end-to-end tests, deployment, documents: they drive or
  describe the program.

## Plan

Done, in the order of importance: the refund workflow, the ledger and checkout,
the reconciler, the queue with its cleanups and its worker, the process around
them, accounts, the database lanes, the operator panel.

To do next:

1. `RateLimit`: the fixed window beside login's awaits and the synchronous one
   of the magic links; composed with `Accounts`.
2. `MoneyFlow`: `Payments` and `Refunds` composed over one `Ledger`, so that
   dashboard refunds, approved refunds and late checkouts meet.
3. `Dashboard`: the waking page with its watcher, and the lists read page by
   page while rows come and change.
4. The MCP server's cookie.
