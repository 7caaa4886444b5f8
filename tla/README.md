# Verification of Skattjakt

TLA+ models of Skattjakt in two groups.  The first is where several processes
work on shared rows: the job queue and its workers, the analysis a customer
polls, payments, the request that turns an order into work, Monte Carlo runs,
the notification outbox, sessions, uploads and the sweep over the cited
sources.  The second is what a run computes: the pipeline with its rules and
findings, the gateway to the language model, the reading of documents, and the
simulation engine.  Every model is checked with TLC on a small instance; the
safety properties of the first group and of the pipeline are also proved with
TLAPS for every instance.

Paths below are relative to `src/skattjakt/`.

## The system

A customer uploads documents, buys an order (Swish), and starts an analysis.
The API stores the request and enqueues a job; worker processes claim jobs, run
the pipeline (extraction, rules, language model) and write the result; a third
process delivers notifications.  All state shared between processes is in
PostgreSQL, except the documents' bytes, which are in a blob store.  No process
talks to another except through these, so every hard question about processes is
which statements share a transaction and what may happen between two
transactions; the other hard questions are about boundaries in pure functions.

| Component | State | Operations | Talks to | Hard part | Correct means |
|---|---|---|---|---|---|
| job state machine (`crates/core/src/state_machine.rs`) | one of seven states | the rows of `try_transition` | used by the queue | SQL literals beside the table | no move outside the table, terminal is final |
| job queue (`crates/jobs`) | `jobs`, `job_transitions`, `dead_letters` | enqueue, claim, heartbeat, succeed, fail, cancel, backoff release, reap | API enqueues, workers claim | leases, stale copies, last attempts, delays | one owner, bounded attempts, nothing lost |
| analysis worker (`workers/analysis-worker`) | a private copy of the row, an outcome | loop, heartbeat task, maintenance task, shutdown | queue, runner | crash or lost report between any two steps | reports count only for the current attempt |
| analysis row and runner (`runner.rs`, `crates/store/src/lib.rs`) | `analysis_jobs`, facts, opportunities | set_stage, complete, fail | queue, outbox, pipeline | unordered stage writes, two runs at once, swallowed errors | an answer is backed by a result and stays |
| orders and payments (`payment_routes.rs`, `crates/store/src/payments.rs`, `crates/payments`) | `orders`, `payments` | create, callback, sweep, settle, redeem, cancel | Swish | answers applied late, lost or forged callbacks, lost acknowledgements | credit only for money, spend once, settle in the end |
| start_analysis (`routes.rs`) | the above plus `rate_limit_counters` | rate limit, redeem, create, enqueue | payments, queue | two transactions, two notions of "same request" | paid once, run once, answered truthfully |
| notification outbox (`crates/store/src/notifications.rs`, `crates/notify`, `workers/notification-worker`) | `notifications` | enqueue, claim, deliver, record, exhaust | runner, mail relay | partial delivery, no lease, NULLs | told once, recorded truthfully, never stranded |
| simulation runs (`simulation_routes.rs`, `simulation.rs`, `crates/store/src/simulations.rs`) | `simulation_runs` and the result tables | start inline or queued, cancel, mark, watch, complete, fail | queue, engine | cancellation and completion by two workers at once, unlocked reads | results exactly with success, finished stays finished, cancelled only if asked |
| identity and sessions (`crates/identity`, `crates/store/src/identity.rs`, `auth_routes.rs`) | `sessions`, `user_credentials`, memberships | sign in, refresh, sign out, change password, switch company, purge | API | rotation races, lost answers, reuse detection | one live generation, ended stays ended, a lost answer is forgiven |
| uploads (`upload_routes.rs`, `routes.rs`, `crates/store/src/uploads.rs`) | tickets, versions, blobs | upload, issue, put, complete, expire | blob store | the blob is outside the transaction | a version has its bytes, a ticket is used once |
| source sweep (`workers/analysis-worker/src/sources.rs`, `crates/store/src/sources.rs`, `crates/rules/src/verify.rs`) | `source_retrievals`, an advisory lock | ask, lock, fetch, check, record, release | law pages, rules | a lock that lives on a pooled connection, panics | one sweep at a time, outages overwrite nothing, nothing is neglected |
| pipeline (`crates/pipeline`) | one run's facts, candidates, verdicts | read, discover, falsify, conclude | gateway, rules | models that fail or contradict, merging, incomplete answers | nothing gets lost, nothing ungrounded is established or counted |
| rules and core values (`crates/rules`, `crates/core`) | - | evaluate conditions and amounts | pipeline | three-valued logic, overflow, conflicts | decided is final |
| gateway and model (`crates/gateway`, `crates/model`) | a budget | one call: fence, price, send, retry, validate, charge | language model | cost of retries and failures, fences in documents | the ceiling holds |
| extraction and OCR (`crates/extract`, `crates/ocr`) | - | sniff, cut, read amounts and labels, rebuild rows | pipeline | two-byte letters, columns, thousands | a figure reads back as it was written |
| simulation engine (`crates/simulate`) | one run's samples | compile, draw, evaluate, report | simulation runs | NaN, constraints, boundaries of samples | agrees with reference definitions |
| governance (`crates/store/src/governance.rs`) | budgets, retention, deletion requests | open, charge, purge | runner, API | retries sharing a budget | never above the budget |
| edge settlement (`vercel/lib/settle.mjs`) | `orders`, `payments` | callback, sweep | Swish | a second settlement path with rules of its own | settles as the API does |
| telemetry, HTTP shell, front ends | none shared | logs, routing, pages | - | - | - |

`PROJECT.json` lists every component with its sources and whether it is
modelled, and every hazard with the line it is at.

## Modules

| Module | Models |
|---|---|
| `JobLifecycle` | abstract specification of one job: the transition table and the attempt counter |
| `JobQueue` | the queue's tables and transactions and the worker loop |
| `RetryDelay` | the delay between two attempts, to the millisecond |
| `AnalysisRun` | extends `JobQueue` with the runner's transactions on the analysis row |
| `SimulationRun` | extends `JobQueue` with the routes and the worker of Monte Carlo runs |
| `OrderPromise` | abstract specification of an order, as a buyer sees it |
| `Payments` | orders, payments, the provider, callbacks and the sweep |
| `StartAnalysis` | concurrent `POST /v1/analyses` requests |
| `Notifications` | the outbox, the dispatcher and the delivery workers |
| `Sessions` | one user's sessions, statement by statement |
| `Uploads` | documents and tickets, rows and blobs |
| `SourceSweep` | the sweep of all workers over the cited sources |
| `SourceCheck` | what the sweep makes of one retrieved page |
| `FactSet` | amounts with their width, facts, the sequence helpers |
| `RuleEngine` | selection and evaluation of rules, in any language of conditions |
| `RuleLanguage` | the language of conditions and calculations the code has |
| `Findings` | what a finding is worth, the summary, and which findings rest on what (the evidence graph) |
| `Pipeline` | one analysis, from documents to result (extends `RuleEngine` and `Findings`) |
| `Gateway` | one call to a language model: fence, price, budget, retries, schema |
| `Extraction` | the parser of figures; what a file is taken for, and the rows rebuilt from recognised words |
| `Float`, `SimExpr`, `SimDistribution`, `SimEngine`, `SimStats` | the simulation crate: numbers, expressions, inputs, compiler and run, report |
| `GatewayChecks`, `ReadingChecks`, `SimulationChecks` | what these pure parts promise, over all small inputs |
| `JobQueueProofs`, `AnalysisRunProofs`, `SimulationRunProofs`, `PaymentsProofs`, `ReportProofs` (start_analysis and the pipeline), `NotificationsProofs`, `UploadsProofs`, `LockingProofs` (sessions and sweep) | theorems and proofs |
| `MC...` | the instances TLC checks |

In the modules of shared state one action stands for one transaction, with
everything that transaction writes.
A step that spans two transactions (claim, run, report; ask the provider,
settle; commit, enqueue; deliver, record) is two or more actions with the
process's private state in between, and a crash or a lost statement is an action
of its own.  Durations are kept as the comparison the SQL makes with `now()`
(`due`, `lease`, `deliverable`); identifiers are model values.  A definition
preceded by "Mutant of" or "A likely slip" is not part of the model: it is a
plausible wrong version of the definition that follows, and serves to show that
a property would notice it.

A pure part is a set of operators named as the source names its functions.  What
they promise is stated as named assumptions (`ASSUME`) of a `...Checks` module,
of `RetryDelay`, of `MCPipeline` and of `MCSourceSweep`, over all inputs up to a
small size and, where there is one, against a reference definition written
another way.  TLC evaluates them when it starts the run whose MC module extends them: `queue` for
`RetryDelay`, `pipeline` for `GatewayChecks`, `uploads` for `ReadingChecks`,
`source_sweep` for `SourceCheck`'s, `simulation_runs` for `SimulationChecks`.

**JobQueue.**  `state`, `attempt`, `leasedBy`, `lease`, `due` are columns of
`jobs`; `trail` is `job_transitions`; `held`, `heldAttempt` and `outcome` are
what a worker remembers.  `Claim` takes any claimable row because `SKIP LOCKED`
may pass over the oldest.  `Finish` and `Heartbeat` share the guard
`leased_by = worker_id` and work from the copy taken at the claim.
`ReapExpiredLeases` handles any non-empty set of expired rows, for the same
reason as `Claim`.  `Crash` covers an evicted pod and a shutdown that drops the
future of a claim that has just committed.

**AnalysisRun** breaks a run into the runner's transactions.  Reading inputs,
the pipeline and the write of the result can each fail for now, for good, or
die with the process; the stages reported by the pipeline are spawned tasks
that run in any order (`stageWrites`).  `NotificationAbortsWrite` is the case
where a statement fails inside the result's transaction, the error is
swallowed, and PostgreSQL turns the `COMMIT` into a rollback; `rolledBack`
remembers it for the properties.  The job and its analysis are one identifier.
Results are counted, because facts and opportunities are inserted under new ids
each time.

**Payments.**  `swish` is what the provider knows, and is external.  A settler,
callback or sweep, reads the rows, asks outside any transaction, and applies
the answer later; `answer` is the answer in flight.  Amount, currency and
reference checks are one outcome, `mismatched`.  `line` is `payments.created_at`
order, which is the order the sweep works in.  `CreateFailed` is the error path
of `create_order`, taken on a timeout too: the provider may have accepted the
payment before, or accept it afterwards.

**StartAnalysis.**  The analysis a request creates is identified with the
request.  The requests are for the same documents, so the key derived for a
request is its order, or `None`.  A client may send any key in its header, one
that spells out an order's derived key included (`crates/jobs/src/job.rs:196`
admits it), and `fromHeader` remembers whose key came that way.  Whether the
deployment takes payments is chosen once, in `Init`.

**Notifications.**  `Deliver` goes over all channels of the row; what each may
come to is given by `PushResults`, `InAppResults` and `EmailResults`, the last
being the outcomes of the SMTP dialogue.  `DeliverUnanswered` is a relay that
accepted a message and whose reply was lost.  `RecordDelivery` models the SQL
literally: `array_agg` over no rows is NULL, the column is `NOT NULL`, so with
nothing delivered the statement fails and changes nothing.

**SimulationRun.**  `run`, `cancelReq` and `execution` are columns of
`simulation_runs`, `stats` the runs with rows in the result tables, `request`
the position of the handler that started the run, `phase` the worker's, and
`stopFlag` the atomic flag the watcher raises.  What the engine makes of a run
is fixed when it starts (`verdict`), because model and seed are stored with it
and the engine is deterministic; only cancellation and, inline, the deadline
end it otherwise.  The worker's first transaction is two actions, since its
read takes no lock.  A commit may be applied and its answer lost (`Committed`).
Any inline request may find the slots taken: they are shared with every other
company's runs.  Iteration counts are left out.  The report needs no step for
dead letters: the loop tells `analysis_jobs`, where a simulation has no row.

**Sessions.**  A session is a family of rows, one per generation of its refresh
token.  A refresh locks the row of the token presented, reads the family in
statements of its own and appends a generation; a revocation is an `UPDATE` over
the rows its snapshot shows and waits for rows that others have locked.  Both
are several actions, because a row that commits between the snapshot and the
write is in neither.  `held` and `unheard` are what the client knows: an answer
may be lost.  `overlap`, `raced`, `late` and `torn` remember, for the
properties, which families had two requests under way.  `evaluate_refresh` is a chain of tests in
the code's order, as are the other first-match decisions of the project.

**Uploads.**  A version is a row and an object under its own key; a ticket adds
a landing object that the client writes by itself.  Contents are what was
declared, another content of the same size, or one of another size.
`CompleteTicket` is the handler's transaction, `FetchBytes` and `DeleteLanding`
its calls to the blob store, and a request may be abandoned between any two.

**SourceSweep.**  A page is the number of its version; `retrievals` is
`source_retrievals`, `depth` how often the worker's pooled connection holds the
advisory lock.  An error that skips `release` leaves `depth` positive until the
pool recycles the connection.  `Panic` is the byte slice of
`crates/rules/src/verify.rs:295` on a page whose window ends inside a letter; it
ends the task that sweeps, not the process.  **SourceCheck** is what decides
between the outcomes: markup, entities, folding, the locator, the strings.

**Pipeline.**  `run_with_budget` awaits twice, so it is three actions and a
last one: `ReadDocuments` (facts and rules), `Discover`, `Falsify`, `Conclude`.
A model may answer with anything its schema admits, or fail in any way the
gateway reports.  Shares are basis points where the code has floating point
numbers; rules are data, of the forms the code distinguishes.  What the customer
has not answered is a key outside a function's domain, as in the code's maps.

The engine asks eight things of a rule's conditions and calculations (their
truth in a context, the facts and fields they read, the questions they leave
open, whether their names resolve), and these are constant operators of
`RuleEngine`.  `MCPipeline.cfg` gives them the operators of `RuleLanguage`, which
recurse over the syntax as the code does.  What the rest relies on is stated as
assumptions, which TLC evaluates with that language, every rule and every input
of the instance: `RuleSetAssumption` (the rule set passed `RuleEngine::new`),
`RulesAssumption` (the types the rule file's parser gives), `LanguageAssumption`
(questions are lists, amounts are numbers), `AnswersAssumption` (an answer of a
model fits its schema), `SourcesAssumption` (four standings) and
`LanguageIsMonotone` (a further answer changes a condition only from unknown, and
no calculation).  `Ranked` sorts a finite set by how many elements come before
each, and `Picked` filters a sequence by ranking the positions kept; `sort_by` and
`filter` are both of this form.

**Gateway.**  A call is an operator of the budget and of what the network would
answer.  Text is a sequence of the tokens the gateway tells apart, so a document
that contains the fence itself is among the inputs.

**Extraction.**  A text is a sequence of pieces: digits, marks,
kinds of spaces, and parts of words cut so that one label contains another
exactly where its letters do.  Bytes are ASCII or halves of a two-byte letter.
The readers of PDF, Office and markup formats and the recogniser itself deliver
pages and words.

**The simulation crate.**  `Float` keeps NaN and the infinities and computes
with exact fractions otherwise; rounding and overflow are left out.  A random
stream is the sequence of uniforms it yields.  A quantity the code takes a root
or a logarithm of is kept as the quantity under it.

## Runs

| Run | Instance | Shows |
|---|---|---|
| `queue` | an analysis and a simulation, 2 attempts each, 2 workers with their own ids | a lease exactly while running; attempts and dead letters agree; the lease guard identifies the current attempt; each attempt ends once; refinement of `JobLifecycle`; no stale report; every job ends (fair) |
| `run_safety` | 1 analysis, 2 attempts, 2 workers | the notice is in the outbox exactly with a result; a succeeded job has an answer unless a COMMIT undid it; an answered analysis stays answered; refinement of `JobQueue` |
| `payments_safety` | 2 orders, 2 analyses, a callback handler, a sweeper, batch 2, creates that fail before or after the provider accepted | order and payment agree; paid means paid; spent once; a paid order is closed unpaid only by a create that reported an error; refinement of `OrderPromise` |
| `payments_settle` | 2 orders, a sweeper and no callbacks, fair | every decided payment is settled |
| `start_requests` | 4 requests, 2 orders, two header keys, one of them the derived key of an order, quota 2 | nothing runs unpaid or twice; answers name stored analyses; without a key of their own buyers get what they bought, unless a header spelled out their order's key |
| `simulation_runs` | 1 run, inline or queued, 2 attempts, 2 workers | results exactly with success; a job reported done leaves a finished run; cancelled only on request; only a late completion changes a finished run |
| `outbox_safety` | 2 notifications, 2 workers, batch 2, 3 attempts, faults | one worker per notification; attempts bounded; the row tells the truth; no email after an acknowledged one |
| `sessions` | 4 requests, 4 rows, 2 companies, lockout after 1 failure | one live generation unless two refreshes were decided at once on different rows; an ended family stays ended unless a refresh was under way; one lost answer never signs its client out |
| `uploads` | 4 requests, 2 tickets, quota 1 | a directly uploaded version has its bytes; a ticket becomes at most one version, of the declared size |
| `pipeline` | 5 rules, 6 document sets, 5 profiles, 4 standings of the sources, 3 lists of candidates, 3 verdicts | further answers undo nothing that was decided; an established finding is grounded and no verdict weighs against it; the headline total counts only supported reductions; no finding or candidate gets lost |
| `source_sweep` | 2 workers, 3 sources (one without an address), 3 versions of a page, 2 faults, fair | one sweep at a time; a failed fetch overwrites nothing that was read; a neglected source is checked in the end, unless a page ended every worker's sweep task |
| `uploads_dangling` | as `uploads` | violated: `VersionHasBytes` |

**Bounds.**  Two workers are the least for which a stale worker and a current
one coexist; two attempts give a first, a retried and a last one; two jobs let
the reaper and the release take several rows in one statement and let the two
kinds compete.  For `AnalysisRun` and `SimulationRun` one job suffices: no
statement relates two analyses or two runs, and two attempts are what the policy
gives a simulation.  Two orders are needed for uniqueness of redemption and
for a batch with more than one element, and one callback handler beside one
sweeper gives two settlers holding answers of different age.  Four requests
give a double press, a second purchase and a request without an order, and
quota 2 lets the limit be reached and rolled over.  In `Sessions` four rows are
a family of four generations, or two families, which lets a client miss two
rotations; four requests are two refreshes, a revocation and a switch at once.
In `Uploads` two completions of one ticket, a direct upload and the issue of a
ticket overlap.  In `Pipeline` the rules use every form of condition and
calculation between them, and the document sets include a scanned one, a
contradictory one, one whose amounts overflow and one that is not read.  In
`SourceSweep` the address that is missing makes the sweep skip a source, one
version contradicts the rule, one makes the check panic, and two faults are
enough for a lost release and a crash.  Pure parts are evaluated over all inputs
of the sizes given in the `...Checks` modules, where constants such as the
4,096 bytes of a head, the batch of 4,096 iterations or the limit of an `i64`
are replaced by numbers small enough to be passed.  Attempts are bounded by the
policies, so no run needs a state constraint; `MaxRows`, `MaxVersion` and
`MaxFaults` are bounds in guards.  Symmetry is used only for identifiers drawn at
random or otherwise interchangeable, and never with a liveness property.  The
type invariants (`TypeOK`, `RunTypeOK`, `SimTypeOK`, `SweepTypeOK`) hold in
these instances too; the cfgs leave them out, and all but that of `Payments` are
theorems.

**Fairness.**  In `JobQueue`: the clock (weak fairness of each expiry); the
maintenance task, a `tokio::time::interval` loop that releases backoffs and
reaps; an idle worker's poll, a loop with a sleep; a run returns (every wait in
it has a timeout) and its report is made.  Nothing is assumed of heartbeats,
crashes or lost reports: attempts are bounded, so even a system that always
crashes ends every job.  In `Payments`: the sweep's timer and its steps, and
strong fairness of answers about one order, i.e. a question asked again and
again is not lost to a crash, an unreachable provider or a failing commit every
time; callbacks get no fairness.  In `SourceSweep`: the ticker, which fires for
ever, and the sweep's steps, each of which has a timeout (weak fairness); rows
grow old (weak); and the pool recycles a connection at its maximal lifetime
(strong, because the worker draws connections in between).

## What the code does that its comments deny

`uploads_dangling` is expected to be violated: `complete_ticket` commits a
version under a storage key nothing has written, and then deletes the landing
copy, which held the only bytes.  `PROJECT.json` quotes the comments under
`findings`.

Statements kept in the modules beside the properties, which do not hold of the
model, each for a comment or doc that says they should:

- `EndedJobIsTold` (`AnalysisRun`): a job that fails before its pipeline starts
  (`runner.rs:171`), or is dead-lettered by the reaper (`queue.rs:412`), leaves
  its analysis pending or running for ever;
- `SuccessHasResult` (`AnalysisRun`): a swallowed error of
  `enqueue_notification` loses the result of a job that is then reported as
  succeeded (`runner.rs:353`);
- `UnreachableIsNotFailed` (`Payments`): a create call that times out although
  the provider accepted, or accepts later, fails an order that the payer may
  still pay (`payment_routes.rs:249`; line 517 says "A provider we cannot reach
  is not a failed payment").  `MoneyNotLost` says there is no other way;
- `DerivedKeysAreTheirs` (`StartAnalysis`): a request whose header spells out the
  key derived for another order makes that order's buyer be answered with an
  analysis the order did not buy (`crates/jobs/src/job.rs:196`; the comment of
  `derived_for_order` says the order "already makes the key unique").
  `AnsweredWithPurchase` says there is no other way;
- `UnrefutedIsNotEstablished` (`Pipeline`): when the call to the refuting model
  fails or is refused, the objection counts as zero and earns the full weight of
  consistency, as if a refutation had found nothing
  (`crates/pipeline/src/pipeline.rs:812`, `crates/core/src/confidence.rs:200`),
  and findings are established all the same; `pipeline.rs:590` says they "are not
  silently promoted";
- `BoughtIsQueued` (`StartAnalysis`): a request that ends between spending the
  order and enqueueing the job leaves a paid analysis that no retry queues
  (`routes.rs:521`);
- `EveryNoticeEnds` (`Notifications`): a transient delivery failure with nothing
  delivered, or a worker that dies, strands a notification in `delivering`
  (`crates/store/src/notifications.rs:341`).

The models also show the following, which no property of a run states.

*Queue and runs.*  Two workers may run one job at a time (`spawn_heartbeat`
stops the heartbeat, not the run), so facts may be stored twice and a failure
shown before a success; a late stage write may change the stage of a finished
analysis; the release of a backoff records no transition; processes that share
the fallback worker id can report for each other (`DistinctIds` in the theorems
rules it out).  The jitter of `delay_for` only shortens a delay, by up to a
quarter (`crates/jobs/src/job.rs:119` says plus or minus).  Three attempts cost
three budgets, since nothing calls `charge_budget` (`runner.rs:189`).

*Payments.*  With a batch smaller than the number of payments the provider does
not know, the sweep never reaches younger ones.

*Monte Carlo runs.*  A run one worker cancelled can be turned into a succeeded
one by another that was computing it too (`crates/store/src/simulations.rs:54`
says "A finished run never changes again"; `FinishedRunsKeepState` states
exactly this exception); a cancel answered with `cancelled: true` may be
followed by success, always so for an inline run; a second worker's completion
fails on the primary key and may dead-letter the job of a run that succeeded;
and a run whose job ends by `Refuse`, by the reaper or before it was enqueued
keeps its row queued or running for ever.

*Sessions.*  `refresh_session` locks the row and not the family
(`crates/store/src/identity.rs:364`), so two refreshes of one family on
different rows can leave two live generations (`raced`), and a sign-out can miss
a generation that commits after its snapshot (`late`); two lost answers in a row
sign an honest client out.

*Source sweep.*  An error between lock and release leaves the lock with the
pooled connection; a panic in `verify.rs:295` ends the sweep task and leaves it
too; a source without a row is only swept when a neighbour is old
(`crates/store/src/sources.rs:140` says "immediately"); `&amp;#53;` is decoded
twice, into a digit the page did not contain.

*Pipeline and rules.*  A finding whose figures were read by OCR can be
established (`crates/pipeline/src/facts.rs:22` says otherwise).  A candidate that
suggests a rule which fires but has nothing to read is dropped along with it.
Verdicts are matched by title.  A rule left undecided by an unanswered number or
accounts state names no question.  `div_round_half_away` wraps near the top of
`i64` (`crates/core/src/money.rs:104`).

*Gateway.*  The provider reports the configured model, so a fallback is not
noticed there; where another model serves, the ceiling can be passed by one
call; retries inside the provider are charged once.

*Reading.*  A UTF-8 text whose first 4,096 bytes end inside a letter is taken
for binary (`crates/core/src/document.rs:130`).  The scale of an image is not
detected after it is read, so "tkr" on a photograph is ignored
(`crates/ocr/src/fill.rs:93`).  Two year columns in one row of an image, or two
columns with one space between them whose second begins with a group of three,
become one number (`crates/extract/src/swedish.rs:205`).  A Unicode minus
followed by a space is lost.  A deserialised evidence graph answers nothing until
`reindex`, and nothing outside the core crate uses it.

*Simulation.*  NaN is swallowed by logic, comparisons, minima and maxima; `not a
< b` is `(not a) < b`; unary plus and left-nested chains are not counted by
`MAX_DEPTH`; an identifier's limit is in bytes; an impossible outcome of a
discrete distribution counts towards its support, so a constraint nothing can
meet is accepted; a run of exactly 1,000 iterations has one checkpoint.

## Proofs

Proved by TLAPS for any sets of jobs, workers, orders, requests, tickets,
notifications and sources, and any attempt limits, quotas and batch sizes, from
the assumptions on the constants named in the modules.  Those say that limits
are positive where the code's are, that NULL is no identifier and identifiers of
two kinds differ (orders and requests, callback tasks and sweepers; keys clients
send may be any that parse),
and that functions such as `OrderOf` are defined where they are used;
`AnalysisRun` and `SimulationRun` assume jobs of their own kind.  `DistinctIds`
is a hypothesis of the theorems that need it and of no other.

`JobQueueProofs`:

- `TypeCorrect`: `TypeOK`, from `TypeInv` (the types, and that a worker that
  runs or reports holds a job).
- `LeasesAreWhole`, `HoldersAreCurrent`, `AttemptsBounded`,
  `ReportsAreCurrent`, `AttemptsEndOnce`, `QueueImplementsLifecycle`, under
  `DistinctIds` (no two processes share a worker id).

The inductive invariant `IInv` is `TypeInv`, `LeaseExactlyWhileRunning`,
`HolderIsCurrent` and `AttemptsAndDeadLetters` together.  None of the last
three is inductive alone: that a report moves a job to the dead letters only on
its last attempt needs the worker's copy to carry the row's attempt number
(`HolderIsCurrent`); that needs a lease to end whenever the job stops running
(`LeaseExactlyWhileRunning`); and that a retry leaves an attempt unused needs
the bound itself.  The refinement theorem maps each action to moves of the
table, with the attempt conditions of `MayMove` supplied by `IInv`.
`AttemptsEndOnce` counts the rows of the trail: `CountAppended` says what one
more row does to the two counts, and `TrailInv` adds that a job without a row
has used no attempt, since `enqueue` writes the counter.  That a report's row
closes the attempt the job is on is `HolderIsCurrent` again.

`AnalysisRunProofs`, with no assumption on worker ids:

- `RunTypeCorrect`, `NoticesMatchResults` (`NoticeIffResult`),
  `SuccessesHaveAnswers` (`SuccessHasAnswer`), `AnswersStay`
  (`AnsweredStaysAnswered`);
- `RunImplementsQueue` (`ImplementsQueue`).

`SuccessHasAnswer` is about the row and the queue, which are never written
together; `AnswerInv` says what holds in between.  A worker that returns with
`ok` has stored a result for the job it holds, or a COMMIT undid it, and a
stored result keeps the row answered whatever other runs do to it.
`PhaseShape` ties the position in the run to the position in the loop.  In the
refinement a worker that still has to tell the customer of a dead letter is,
for the queue, already polling: the first of the two transactions is the
queue's report, and the second, like a crash before it, is no step at all
(`RunStepMaps`).  `WorkerMoves` carries every other change of a worker across
the mapping.

`PaymentsProofs`:

- `CreditIsCovered` (`PaidMeansPaid`), `TablesAgree` (`RowsAgree`),
  `OrdersSpentOnce` (`SpentOnce`), `PromiseKept` (`KeepsPromise`);
- `PaidOrdersStayOpen` (`MoneyNotLost`), with no assumption on create's errors.

`IInv` adds `Columns` (the types the argument needs) and `AnswersStandUp`: an
answer in flight is the provider's final word or `open`.  That is what makes a
late answer harmless, because the provider's states are final once decided.
`MoneyNotLost` needs `ClosedForCause` in addition: an order closed unpaid has a
provider state that can no longer become paid, or a create that failed.

`SimulationRunProofs`:

- `SimulationsUseQueue`: `SimSpec => Spec`, so the theorems of
  `JobQueueProofs` carry over;
- `SimTypeCorrect`, `StatisticsStayWithState`, `NoUnaskedCancellation`,
  `OnlyLateCompletions`, `DoneJobsLeaveFinishedRuns`: all properties of the run
  `simulation_runs`, with no assumption on worker ids.

`SimInv` adds to the two row invariants who may write a row (`WritersInv`: the
request alone while it computes inline, workers only for queued runs), that a
cancellation on its way to the row was asked for (`AskedInv`), and that what is
about to be written agrees with the engine's verdict (`VerdictInv`); without
the last, a failed run could be completed.  `DoneInv` adds that a worker
reports success only of a finished run.  Every step of a worker inside its run
satisfies `RowsWritten`, so the invariant is shown once for steps that return
and once for steps that move on.

`ReportProofs` goes from the request for a report to the findings in it; the two
specifications share no variable.

start_analysis: `StartTypeCorrect`, `RunsArePaidOnce`
(`EveryRunIsPaidOnce`), `AnswersAreReal` (`AnswersNameRealAnalyses`),
`BuyersGetTheirPurchase` (`AnsweredWithPurchase`).  The transaction that spends
the order and the enqueue are two steps, so `HandlerInv` says what a request
owns between them, `OrderInv` that an order names an analysis only when spent on
it, and `QueueInv` that a job's key leads back to the request that inserted it.
The last is what decides a duplicate: whoever finds the order's derived key taken
finds what the order bought, or a job inserted by a request that sent this key in
its header.

The pipeline: `AnswersUndoNothing` (`DecidedIsFinal`), `EstablishedIsGrounded`
(`IdentifiedIsGrounded`), `EverythingIsAnsweredOnce` (`NothingFallsThrough`),
`CountsWhatIsSupported` (`CountedIsSupported`), for any inputs, rule set,
language, number of candidates and verdicts, from the assumptions above.  Only
the first needs `LanguageIsMonotone`.

- `RunInv` says what each stage leaves: the facts are those of the documents, the
  evaluations are those of the rules in force for the year, candidates and
  verdicts are what a model may answer, and the result is `Conclude`'s.
- Evaluations, findings and the answer are sequences that are filtered, split and
  sorted.  `RankedIsBijection` counts predecessors: in a strict total order no two
  elements have equally many, so ranking is a bijection.  Hence `ByPriority` and
  `Picked` are the old sequence read through a bijection of positions
  (`PrioritiesRearrange`, `PickedPositions`), whatever the scores.
- `FindingsHaveOrigins` composes these up to the split into presented and
  rejected, and `FindingsArePlaced` through the split and the sort: a position of
  the answer is the image of one firing rule or of one candidate no rule
  anticipated.  `RulesOnce` and `CandidatesAsOften` then count positions.
- `RuleFinding` and `CandidateFinding` say what one finding is.  For an
  established one, that its rule is contradicted by no source and vouched for is
  `CombineSaysWhat`, and that no verdict bit is `ConfidenceFails`: a
  serious objection caps the score below the threshold whatever else speaks for
  the finding.
- The total is a checked sum over the findings as they stand in the answer, the
  property a plain sum over positions of the evaluations, so the two agree only by
  induction.  The library's induction theorems take an operator and cannot be
  used; `Least` gets the least number outside a set from the well-foundedness of
  strict inclusion among finite sets, and `UpTo` and `Recursion` the induction and
  the recursive functions from that.  `RuleFigure` says what one finding counts
  for, `PartGrows` what one more evaluation does to a sum, and `TotalIsPart` that a
  running total that did not overflow is the sum of the evaluations met so far,
  each met once because the findings are a bijection's image of them.
- `AnswersOnlyAdd` goes through the branches of `OutcomeOf` with the truth of
  each condition before and after an answer.

`NotificationsProofs`: `OutboxTypeCorrect`, `NoticesAreClaimedOnce`
(`OneWorkerPerNotice`), `AttemptsStayBounded`, `RowsTellTheTruth`,
`EmailsAreNotRepeated`.  The table does not say who delivers a row, so the
argument goes through what workers have in hand (`HandsInv`).  `MailInv` says
that where another attempt may follow no email was acknowledged, and
`OutcomeOfSends` why: email is the only channel that can fail transiently, so
an outcome with a delivered email is never retried.

`UploadsProofs`: `UploadsTypeCorrect`, `UploadsKeepBytes`
(`UploadedVersionHasBytes`), `TicketsAreSingleUse` (`TicketRedeemedOnce`).
`BlobBeforeRow` says that a request about to commit has put its bytes under its
own key, and that none has a version before its transaction; `OneRedemption`
names the version a completed ticket was accepted for.

`LockingProofs` has the two protocols that rest on PostgreSQL's locks; they share
no variable, and each is proved of its own specification.

Sessions: `SessionTypeCorrect`, `RotationKeepsOneLive` (`OneLiveGeneration`),
`SignedOutForGood` (`SignedOutStaysOut`), `LostAnswersForgiven`
(`LostAnswerForgiven`), for any number of requests, rows and companies.  A row
lock keeps out only a second refresh of the same token, so mutual exclusion
yields nothing; the argument is about what a request has read and may still
write.

- `ChainInv`: the generations of a family count up in the order of insertion and
  all but the last are superseded.  It holds because what a lone rotation decided
  is still true when it writes (`RotateInv`); another that could have inserted a
  row since was being decided or written at the time, and then the family is
  `raced` (`RaceInv`).
- `SnapshotInv`: from the snapshot of a revocation to its write, all rows of the
  family it is to end are in the snapshot or revoked already, because whoever
  refreshes meanwhile makes the family `late` or finds its own row revoked.
  After the write that stays so (`EndedInv`), and `PurgeInv` keeps deleted rows
  from mattering.
- `ClientInv`: the client is behind the family's newest row by the rotations it
  has not heard of, so a token that counts as reused is two rotations old or past
  its window (`TearInv`).  `OverlapInv` and `LinkInv` say which families have two
  requests out and that everything referred to exists.

A step leaves the rows what they are (`Kept`) or inserts one (`Grown`), and moves
at most one request (`OthersWait`).  Each conjunct is shown to survive such steps
in general, and the few actions that establish it are treated singly.

The sweep: `SweepTypeCorrect`, `SweepsExcludeEachOther` (`OneSweepAtATime`),
`TrueVerdictsLast` (`TrueVerdictLasts`).  Mutual exclusion rests on the depth of
the advisory lock (`LockInv`), because a worker that dropped its guard may still
hold the lock.  The second rests on the first: what the one sweeping worker
fetched lies between the row and the page (`VersionInv`), since nobody else
records meanwhile.

Only model-checked:

- liveness under fairness (`EveryJobEnds`, `EveryPaymentSettles`,
  `NeglectedSourceIsChecked`), which the prover cannot do;
- that the code's language satisfies `LanguageIsMonotone`: conditions nest, and
  the induction over them is out of reach, so the assumption is evaluated for the
  rules of the instance, which use every form of condition;
- what the RECURSIVE operators compute (the simulation crate, the reading of
  documents) and the checks of pure functions, which nothing here proves about;
- `TypeOK` of `Payments` (`SelectSeq` has no typing theorem in the library).

## Not modelled

Nothing that changes shared state is left out except: `mark_refund_owed`,
`charge_budget`, the retention purges and the deletion requests, which nothing
outside the tests calls; the creation of simulation models and versions; the
rate-limit window sweep; the `verify-sources` command, which takes no lock; and
the edge settlement, which is in the plan.  Of payments, the lookup grace
period, the sweep's counters and amounts (right or wrong) are left out; of
simulations, iteration counts and the rate limit of their routes.

Of the pure parts: the wire formats of Swish, S3, SMTP and the model's API;
password hashing, cookies, devices and the permission table; the readers of PDF,
Office and markup formats and the recogniser; the parsing of the rule file; the
wording and layout of prompts, reports and pages; the bits of the random
generator, the rejection samplers for large counts, gamma deviates and the
density curve.  Telemetry, the HTTP shell and the front ends have no state of
the system's.

## Plan

1. `EdgeSettlement`: the JavaScript settlement against the promise `Payments`
   keeps, including what a repeated callback does to a consumed order.
2. Simulation versions (numbering under concurrent edits) and the inline slots,
   which a dropped request releases while its thread computes on.
