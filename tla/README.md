# A TLA+ verification of the PPT agent

The repository is a service that turns lesson material into a presentation. It
plans a deck with a language model, generates one image per page with a paid
provider, reviews and revises the pages, and delivers a PPTX; a host system
holds the budget. Everything durable is in SQLite, and a worker in the server
process advances the work from a timer. Requests of users and administrators,
and answers of the provider and the host, arrive between any two of its steps.

The modules below model the parts where those interleavings decide whether the
same image is paid twice, whether money stays reserved for ever, whether a
person's decision is overtaken by a late answer, and whether work that stopped
is taken up again. Paths are relative to the repository root under `src/`; the
source tree itself is `src/src/`.

## 1. Inventory

| Component | State it keeps | Operations | Hard behaviour | What makes it correct |
|---|---|---|---|---|
| Run lease and worker tick (`core/lease.ts`, `runtime/mock-runtime.ts`, `server.ts`) | lease columns of the Run row; renewal timer of the process | list, acquire, renew, release, expire | two workers, late timers, death of a worker | one worker in force per Run; an abandoned Run is retaken |
| Generation batch (`core/generation-batch.ts`, `core/slide-generation-coordinator.ts`) | batch step and its accounting, committed units of the Run | plan, preflight, reserve, dispatch, refresh, finalize | lost answers of the host, crash between commit and call, users acting meanwhile | one authorization per batch, finalized once, the ledgers agree |
| Media step runner (`core/media-step-runner.ts`) | one step per page: key, status, operation id | prepare, authorize, submit, look up, inspect, record | lost answers of the provider, results after a cancellation | no image is submitted twice; what is charged is settled |
| Images of a round (`core/slide-generation-coordinator.ts`, `core/revision-media-coordinator.ts`) | the route of the round, the request of each page | draw, edit, generate, search, reuse, repeat a dispatch | another build or configuration between two dispatches, late images | one route per round, one place per page, a repeated dispatch agrees with what is stored |
| Technical recovery and terminal failure (`core/technical-recovery.ts`, `core/v4-lifecycle.ts`, `core/v4-terminal-accounting.ts`) | `technicalRecovery`, `pendingTerminalFailure` | begin, resume, fail, complete a failure | failures of several pages at once, failure while money is open | bounded attempts; FAILED only when nothing is open |
| Run policy and user actions (`core/policy.ts`, `core/run-service.ts`) | status, version, budget, resume state | create, approve, pause, resume, cancel, add budget, revise, deliver, retry | actions between any two steps of the worker | only allowed transitions; a cancelled Run submits nothing new |
| Planning (`core/planning-runner.ts`, `core/v4-reflection/`) | one step per stage and repair, evidence, reflections | prepare, call, record, repair, complete, reflect, compile | crash between answer and record, repeated requests, a changed picture | one request per key, one completion, planning ends |
| Model adapter (`adapters/gateway-courseware-model.ts`) | none | preflight, request, read a stream, parse | streams cut at any point over three protocols | an answer that was cut off is not gone on with |
| Run phases (page and deck review, revision, delivery) | one step per model call, issues, artifacts | prepare, call, repair, complete or fail | an answer that arrives after a pause, cancellation or retry | a late answer never moves a Run that left the phase |
| Usage V2 (`core/usage-v2-coordinator.ts`) | event outbox, finalization step | authorize, observe, flush, finalize, review | order of events, lost acknowledgements, late rejection | events reach the host once and in order, the bill is complete |
| Administrator operations (`core/admin-operations.ts`) | one `admin_reconciliation` step per action | reinspect, mark charged or not, retry | acts beside the worker without the lease | the ledger of the host stays true |
| Presentation Job V2 (`core/presentation-job-v2-service.ts`) | job record, next attempt | create, submit, inspect, reconcile, fail, defer | lost acceptance, contradictory answers, late bills, bounded listing | the bill is closed once and never too high; an outcome stands once the bill is closed; nothing starves |
| Quick-deck evaluation (`core/quick-deck-evaluation-service.ts`) | job record, claim columns, event log | create, plan, submit, drain, package, expire, recover | claims lost during slow calls, expiry, restart | at most one submission per page, every job ends |
| Event log and streams (`http/run-event-broker.ts`) | shared cursor and subscribers per Run | subscribe, poll, close | catch-up, slow clients, terminal events | every client reads a gapless prefix |
| Repository (`adapters/sqlite-repository.ts`) | the tables | transactions, listings | listing limits | a transaction is atomic |
| Other adapters, compilers, rendering, HTTP, health, rate limiter | little or none | pure transformations, I/O | - | covered by tests |

How they meet: the server's timer calls `MockRuntime.tick`, which lists Runs,
takes the **lease** of each, and calls the coordinator of the Run's stage.
PLANNING calls the **planning runner**, which calls the **model adapter**.
EXECUTING is `submitBlueprintImages` and `refreshBlueprintImages`, which drive
the **batch** and the **media steps** and, for tenants under **Usage V2**, the
outbox. The reviews, the revision and the delivery follow, each a call of a
model with its contract repairs; any failure goes through **technical
recovery**. `RunService.act` writes the same Run row from HTTP requests, with no
lease, and so do the **administrator operations**. Every transaction appends to
the event log, which the **event streams** read. Presentation Job V2 is a
server process of its own with its own tick.

`PROJECT.json` lists the hazards of each component at their lines, and which
property covers which.

## 2. What is modelled

| Module | Models | Refines |
|---|---|---|
| `RunLease` | the lease of one Run, its workers and their clocks | `LeaseGrants` |
| `LeaseGrants` | what a lease promises: one owner, a new epoch per grant | - |
| `GenerationBatch`, `MCGenerationBatch` | the EXECUTING stage of one V4 Run: batch, pages, recovery, user actions, host, provider | - |
| `ImageRoutes`, `MCImageRoutes` | where the image of each page of a round comes from, over several dispatches and builds | - |
| `UsageV2` | image operations under Usage V2: permits, outbox, flush, finalization, the administrator beside the worker | `UsageLedger` |
| `UsageLedger` | what the host holds: events in order, a complete bill | - |
| `RunPolicy` | the Run row as the operand of the transition table, technical recovery and the terminal failure | - |
| `RunLifecycle` | one V4 Run from planning to delivery: every phase, revision rounds, quality policy, users, crashes | - |
| `ContractCall` | which failures the reviews and the revision may end with, from the repairs and retries inside a call | - |
| `PlanningStages` | the stages of one planning: keys, claims, repairs, completion, reflections, replays | - |
| `ModelCall` | what one call of the text model is told over each protocol and every stream | - |
| `PresentationJobV2` | the job service, its listing, the provider operation of each job | `PresentationJobContract` |
| `PresentationJobContract` | what a caller sees: the outcome, then the bill, which closes once and ends both; a delivery may be taken back while its bill is open | - |
| `QuickDeckEvaluation` | one quick-deck job: claims, planning, submission, draining, packaging, expiry, cleanup, restart, the image gateway | - |
| `EventStream` | the channel of one Run, its subscribers, connections and the poll | `EventFeed` (by the property `ReadsInOrder`) |
| `EventFeed` | what a client that resumes by sequence is promised | - |
| `LeaseAndStream_proofs` (of `RunLease` and `EventStream`), `PresentationJobV2_proofs`, `ImageRoutes_proofs`, `QuickDeckEvaluation_proofs`, `GenerationBatch_proofs`, `RunLifecycle_proofs`, `PlanningStages_proofs`, `UsageV2_proofs` | the theorems | - |

One repository transaction is one step. A call to the host, a provider or a
model is a step of its own, and so is the transaction that records its answer,
so a crash, a user action or another page can come between any two of them.
`RunPolicy` is shared: `RunLifecycle`, `PlanningStages` and `UsageV2` EXTEND it
and so agree on the transition table, recovery and the terminal failure.

### RunLease

`run` is the row (status class, pending media, `leaseToken`, `leaseVersion`),
`leaseLeft` is `leaseUntil - now`, and `phase`, `lease`, `sinceRenew` and
`renewalFailed` are a worker's tick, its `currentLease` and its renewal timer.
Statuses are reduced to the three classes lease.ts tells apart. `RunChanges`
stands for everything else in the system that writes the row. Time is discrete
and all processes read one clock. A *punctual* worker is one whose timer
callback is at most `MaxDelay` late; nothing is assumed of the others, which is
why `LeaseExcludes` says that a starved worker may operate beside a punctual one,
under an older version. `withRenewedLease` really does let it: a failed renewal
is recorded and reported at the end and the operation is not stopped.

### GenerationBatch

`run`, `batch` and `pages` are durable; `host` and `provider` are external;
`tick`, `pc`, `job`, `instruction` and `seenBudget` are the memory of the worker
that holds the lease, lost in a crash. `pc` follows `advanceRun`: first
`reconcilePendingRun`, then `submitBlueprintImages` (plan, preflight, commit the
budget, call the host, record its answer, dispatch), then
`refreshBlueprintImages` and `finalizeGenerationBatch`. `job[p]` is the
concurrent submission or inspection of page `p`. `FailRun`, `BeginRecovery` and
`ReconcileTerminal` are functions of the rows because the code calls them inside
the transaction of whoever failed. `seenBudget` is there because the budget is
compared on a snapshot of the Run and committed in a later transaction.

Assumed of the outside (the ports have no implementation in the repository that
decides it): the host and the provider are idempotent per key, the host treats a
different instruction under the key of a finalization as an error, the
provider's answer NOT_SUBMITTED is final, and an accepted task has an operation
id. A fatal exception strikes between page jobs only. Delays are abstracted by
`RetryDelayElapses`. The Run leaves the model in PAGE_REVIEW.

### ImageRoutes

Every dispatch and every refresh of a round works out again, from what is
stored and from the configuration of the process, which pages a local renderer
draws, which are edited from an earlier image and by which model, which are
generated, and which come from the web or the material. `deployment` is the
configuration of the build that is running and changes at a crash; `batch` and
`step` are what the round has stored; `tasks` the accepted image tasks. `source`
is the image a page starts from, which a late completion of an earlier round
may replace (`drifts`). What a stored row cannot agree with ends the round, as
CONFLICT, BROKEN or EDIT_UNAVAILABLE.

### UsageV2 and UsageLedger

`job[c]` is what a client of the coordinator (the job of a page, the worker, the
administrator) is in the middle of; `outbox` the numbered `report_usage_v2`
steps; `flush` the lock of the process with the last event it listed; `host`
the external ledger. A page asks for a permit, is submitted, observed and
resolved; the worker flushes, and closes the bill of a Run that has ended. The
administrator reinspects a step, decides a charge, or retries a rejected event
or finalization, without the Run lease: the RUNNING step of the action is written
first (`Begin...`), and the retry itself is a step of its own that a crash may come
before. The gateway may name the operation and leave open whether it was taken, or
say at once that it failed (`SendDoubted`): the page then has an operation that no
event reports yet. Reviews between drawing and delivering
are one step here; they are the subject of `RunLifecycle`.

`UsageLedger` is the specification: events in the order of their sequence, each
operation observed before it is resolved, a bill that closes once over a
ledger that decides every charge. The mapping hides everything but `host`.

### RunPolicy, RunLifecycle and ContractCall

`RunPolicy` has no variables. Its operators take the Run row and return the next
one, as `transitionRun`, `beginTechnicalRecovery`, `resumeTechnicalRecovery`,
`failVisualDeckV4Transaction` and `reconcileVisualDeckV4TerminalState` do with
the row of their transaction; `CanTransition`, `CanFail` and `CanReconcile` say
when they throw.

`RunLifecycle` adds the steps, the issues and the worker. `run` is the row,
`steps` the step rows by tool (with `exhausted`, `outages`, `repaired` and
`broken` for what the code reads back from outputs and events), `issues` what
was detected and not resolved. `worker` says what the worker is in the middle
of and the round it read the row in: the runners key their steps by it, so a
user who moves the Run on leaves the worker with the old one. Every runner is
prepare, call, complete or fail, so each is `Begin...` and the actions that
answer it. The row is not read again before the transaction that answers, and
what that transaction does when the Run has moved is what the module is about:
some check the status, most call `transitionRun` and throw, and `Throw` is
`advanceRun` failing the Run with WORKER_FATAL unless a person has it.

`ContractCall` has no variables either. A page review, a deck review, a revision
plan and its application each ask a model two or three times under different
keys while its answers break the contract, each of these attempts up to five
times while the provider is unavailable, and translate what is left into an
error code. `Ladders` are the sequences of answers this allows, and
`Failures[caller, chain]` the classes the code may end in: retryable (the Run
recovers), not retryable (it fails with the code), internal (it fails as
exhausted), or a person's. The four callers differ in what they repair and in
what they persist; `RunLifecycle` offers each phase the failures of its own
caller in the chain of its Run.

`settled` is the accounting of `deriveV4TerminalAccounting`, whose detail is
module `GenerationBatch`; `SettleAccounting` is the finalization of the batch.
HARD is what `isHardQualityIssue` says of an issue.

Simplifications. The Run has one slide, so a page review gives one verdict and a
page that is not 16:9 is a HARD one. The image drawn in EXECUTING and the edit
of REVISING in the same round are one step, though the code gives them two keys.
Whether a failed image is retryable is chosen anew at each tick. A review that
was prepared is not checked again for the status between the tick and prepare.
Planning is one call with a choice of outcomes; its stages are `PlanningStages`.
ADD_BUDGET, the administrator's resolution of a media step and its way back into
a phase (`core/v4-media-recovery.ts`), `failBeforeRender` and a finalization that
the host rejects after COMPLETED (which is in `UsageV2`) are left out. COMPLETED
stands for COMPLETED_AFTER_CANCEL of a step too.

### PlanningStages and ModelCall

The worker runs `plan()` from the start on every tick that finds the Run in
PLANNING; what it did before comes back from the steps. `stages[k]` is the step
under the key of a stage or of its repair, `audit`, `evidence` and `reflection`
the steps beside it, `worker` the locals of `plan()`, and `sent[k]` the requests
that ever went out under a key. A request is the texts it is made of and what
is asked on top. Texts are SOUND, OTHER (sound, not the same), REPAIRABLE or
BROKEN. Chain 4 claims one completion for one of its two manuscripts before it
asks for it; chain 3 repairs its slide briefs once and reflects on two of its
stages.

What an answer may be comes from `ModelCall`: for each protocol the streams the
gateway may send, cut off at any point, are read event by event as the adapter
reads them, and `Request` gives the set of outcomes: the whole text, a cut one,
or a code. `ModelCall` has no variables: a call is made and answered within one
step of its caller.

### PresentationJobV2

`job` is the stored record, `due` whether `next_attempt_at` has passed, and
`queue` the order of `updated_at`, which the bounded listing follows. `listed` and
`answer` are the tick's memory. The server ticks in one process with a guard
against overlap, so no other writer exists and the record read when the jobs
were listed is the stored one when it is saved; two jobs saved in the same
millisecond are ordered by the model and not by the code. `task` is the
provider's operation. The budget policy of the server allows the first operation
of a job and a QUEUED job never has one, so the refusals before the provider call
are unreachable and left out. `notCharged` operations are left out of the count.

The ports are the environment. The tick tells two exceptions apart, whatever it
was doing for the job: one with a 4xx status and a code (`Refused`) fails the job
with an empty, final usage; any other (`Threw`) defers it. A task in state
`failed` is one the provider reports FAILED. The internal provider does so for a
Run that is paused, waits for a person or has drawn more than its cap, and such a
Run may go on: `Resume` puts the task back to running, `reopened` remembers it.
FAILED is also answered for a delivery that cannot be read. Each of these answers
is bounded by `MaxFaults`, `Resume` too, except a refusal that creates nothing.

### QuickDeckEvaluation

`job` is the stored record and `lease` the claim row, `live` while its
`lease_until` has not passed. `worker[w]` is the position of a turn and its own
copy `rec` of the record: a worker reads the job when it claims it and afterwards
works on its copy, so what protects the row is the check of the claim in every
save (`Holds`). `store` holds artifacts under the numbers of their pages, and
`Preview` and `Pptx`. `late` is the set of deadlines that have passed.

`gateway[p]` is the image task under the key of page `p`. A request that was sent
is `flying` until the gateway has it, whatever the caller has heard meanwhile;
`sent` counts submissions. Assumed of the gateway: it is idempotent per key, it
answers UNKNOWN when asked for a key it does not have, and a finished result may
expire (`done` to `failed`).

Where the control does not tell values apart they are one: SUBMITTED and
PROCESSING pages, the failure codes (present or absent), `pendingFailure` (set or
not), the two saves of the same record at the end of a submission. Limits at
creation, events and billing labels are left out. `Restart` kills every worker
and runs `recoverInterruptedQuickDeckEvaluation`. A database has one server
process; a second worker is there for a claim that runs out while its worker is
still busy, the case the fence in the save is for.

### EventStream and EventFeed

All subscribers of a Run share one channel, one cursor and one poll. `log` is
the events of the Run, `cursor[c]` that of a subscriber, `wire[c]` what was
written to its connection and not read, `seen[c]` what it reconnects with,
`read[c]` the history. Subscriptions and polls are one action each, because
SQLite is read without yielding. `EventFeed` is what README.md:22 promises: who
reconnects with the last sequence it has read goes on from there, so what it has
read is a prefix of the log. The broker of quick decks is the same code. The
specification is called `StreamSpec`, beside the `Spec` of `RunLease`, because
one module proves theorems about both.

## 3. The runs

| Run | Bounds | States | Shows |
|---|---|---|---|
| `RunLease` | 3 workers (2 punctual, 1 of them and the starved one mortal), TTL 4, renewal every 1, at most 2 late, 4 grants | 12 k | types; `LeaseExcludes`: a punctual worker keeps its lease and works alone or beside a starved one with an older version; `LeaseNeverStolen`; `GrantsAreSerialized` (refinement); `AbandonedRunIsRetaken` (liveness) |
| `batch` | 2 pages, budget for 1 estimate and a top-up, 2 attempts, 2 faults, all user actions and preflight answers | 1.7 M | types; `SubmittedOnce`: nothing is submitted unauthorized or twice; `LedgersAgree`: Run, batch and host agree while the hold stands, when it is settled and when the Run has failed |
| `batch_undisturbed` | 2 pages, budget for 2 estimates, 3 attempts, 2 faults, CANCEL only, the preflight succeeds | 450 k | `SubmittedUnderHold`; `SettlementIsExact`: committed once, one instruction, what is settled was charged; `ExecutionSettles` (liveness) |
| `image_routes` | 2 pages, 2 edit models, 2 deployments after the first, 1 late image | 490 k | types; `OneRoute`, `OnePlace`, `ReplaysAgree` |
| `usage` | 1 page, 2 recoveries, 2 faults of 6 kinds, 1 failed task, 1 administrator action, 3 user actions | 1.6 M | types; `ReportedInFull`: a closed bill decides every charge and what is delivered is reported; `LedgerIsKept` (refinement of `UsageLedger`) |
| `lifecycle` | 1 round, 2 planning attempts of 1 stage, 2 recoveries, both automation levels and chains, 9 user actions | 1.7 M | types; `RowsAgree`: FAILED only when settled, every round planned; `SuspensionsHold`: a recovery, a pause and an end are left only for what they stand for |
| `lifecycle_judged` | 1 round, 2 recoveries, both automation levels and chains, the blueprint actions and the administrator's override | 2.4 M | `DeliveredOnlyJudged`: what is delivered has no open issue and an image, that of its round unless an administrator overrides, and was judged as its disposition says; `HardIssuesOnlyRepaired` |
| `planning` | chains 3 and 4, 2 recoveries, 3 calls per stage, 1 replan, 1 fault, 1 changed picture | 350 k | types; `AskedOnce`: a key is one request, one completion is bought; `ExecutesWhatWasAsked`; `AnswersAreWhole`; `PlanningEnds` (liveness) |
| `PresentationJobV2` | 2 jobs, 1 listed per tick, cap 2, bills 1 and 3, 1 fault | 441 k | types; `BillsAreTrue`: never too high, exact for a delivered job; `KeepsContract` (refinement); `EveryJobIsBilled` (liveness) |
| `quick_deck` | 1 worker, 2 pages, 1 fault, 1 restart | 840 k | types; `SubmittedOnce`; `DeckIsKept`: the deck is whole while offered and gone after the cleanup |
| `quick_deck_workers` | 2 workers, 1 page, 1 fault, 1 restart, with fairness | 240 k | `EndsAreHonest`: an end is final, a doubt never completes, what is written off was never submitted; `EventuallyCleaned` (liveness) |
| `events` | 2 clients, pages of 2, 3 events, clients that begin at 0 | 86 k | types; `ReadsInOrder` (refinement of `EventFeed`, and nothing after the end); `EveryEventIsRead` (liveness) |

Why the bounds are enough:

- *Workers.* The exclusion concerns a pair; the third worker is the one that
  takes over. TTL 4 with renewal due at 1 and at most 2 late leaves exactly one
  unit of slack, the tightest case `LeaseAssumption` admits.
- *Pages.* Two pages give every combination of a page that fails while another
  completes, and of one that is drawn while another is edited. The batch and the
  routes treat pages alike, hence their symmetry; no liveness property is
  checked under it. Usage V2 has one page: with two, a verdict of an
  administrator breaks `ReportedInFull` (section 5). One page already sends two
  events beside an administrator, and what several pages add is proved: the ledger
  and the closed bill for any deck, `ReportedInFull` for any deck without verdicts.
- *Faults.* The interesting histories need one lost answer and one more failure
  while recovering from it. Provider refusals and failed tasks are not faults
  and are not bounded, except in `usage` (`MaxFailed`).
- *Attempts.* 2 reaches the exhausted recovery, 3 a recovery that succeeds the
  second time; the code's 5 adds repetitions. In planning 3 calls per stage stand
  for `MAX_PROVIDER_ATTEMPTS`, so that a stage may use them up across a crash.
- *Calls.* `ContractCall` is exact: every sequence of answers is enumerated.
- *Jobs.* Two jobs and a listing of one make starvation possible: a job retried
  for ever against one that waits.
- *Lifecycle.* One round has the whole cycle: a review of round 0, a plan, its
  application, a redrawn image, a review of round 1, and no round left. Two
  attempts give a recovery that restores its phase and one that is used up. The
  three actions of `lifecycle_judged` are apart from the others because two of them
  leave RECOVERING, which `SuspensionsHold` is about.
- *Quick decks.* Two pages let the second be skipped because the first was
  refused, and a poll store one image and lose the other. One fault is a claim
  that runs out, a save that throws or an artifact that cannot be read or
  removed; with one restart it comes before or after the crash. The second
  worker needs only one page to take a claim over.
- *Events.* Three events and pages of two make a catch-up that takes two reads,
  and one subscriber ahead of another on the shared cursor.

`CHECK_DEADLOCK FALSE` everywhere but in `RunLease`: the model ends when the Run
has left the stage, has ended or waits for a person, when all jobs are closed,
the log is full and read, or the quick-deck job is expired and cleaned up.

Fairness. `RunLease`: time passes, timers of punctual workers fire, a worker that
lives keeps ticking, and an operation ends because every call in it has a
timeout. `GenerationBatch` and `PresentationJobV2`: the server's interval keeps
ticking (`server.ts`, `presentation-job-v2-server.ts`), retry delays pass, the
provider ends every task and settles its bill, while nothing makes it go on with one
it reported FAILED. `PlanningStages`: the worker keeps stepping, each of
its calls has a timeout. `QuickDeckEvaluation`: the worker loop ticks for ever,
every call of a turn has a timeout, and the clock reaches the deadlines; the
gateway may stay silent, a job ends by its deadlines alone. `EventStream`: the
poll is rescheduled after every read, and what is written to a connection that
lasts is received. Faults are bounded, so a worker that keeps stepping meets
finitely many; no fairness is assumed of users, crashes or job creation.

What a property leaves out on purpose: `DeckIsKept` is checked with one worker and
inside the cleanup window, `ExecutionSettles` excepts a cancelled Run and a
stranded failure, `batch_undisturbed` the pauses, `events` the clients that claim
to have read what does not exist, `image_routes` assets that vanish, and the
lifecycle runs the actions named above; `usage` has one page. Section 5 says what
happens there.

## 4. The proofs

Eight modules hold theorems, each for every value of the constants; what a
theorem assumes beyond the named ASSUME of its module stands in its statement.

**`LeaseAndStream_proofs`**, of the lease from `RenewEvery + MaxDelay < TTL` (`LeaseAssumption`):
`TypeCorrect`, `LeaseExclusion` (`LeaseExcludes`), `NeverStolen` and
`Serialization` (the refinement of `LeaseGrants`). Mutual exclusion is not
inductive. Whether the lease is active is a matter of time, so the invariant
must say how much time there is: `TimerInForce` states that a punctual operation
is the one the row names and that `sinceRenew + leaseLeft = TTL`; with the bound
on the delay of the timer this keeps `leaseLeft` positive, no guard of an
acquisition can hold, and nobody takes the lease. `GrantsNumbered` says that the
n-th grant has token n and version n, and `LeasesDistinct` that no two operations
share a grant, which is what makes the comparison in renewal and release safe.
Of the stream the same module proves `StreamTypeCorrect`, and `OrderIsKept`
(`ReadsInOrder`) from the assumption that clients begin at the start of the log
(`Starts = {0}`). The invariant `Contiguous` says of each client that what it has
read, what is on its wire and where its cursor stands are adjacent intervals of
the log. Without the assumption the conclusion is false.

**`PresentationJobV2_proofs`**, from `JobAssumption` (cap and bills are numbers,
a tick lists at least one job): `TrueBills` (`BillsAreTrue`), `ContractIsKept`
(`KeepsContract`, every step of the service is a step of
`PresentationJobContract` or none) and `TypeCorrect`. What a save writes of a bill
is what an earlier answer said, so the inductive invariant says what that answer
is still worth (`AnswerIsTrue`): a completed operation stays as it was reported,
and one reported failed has billed at least what was told, and exactly that unless
it went on. Beside it stand the types of the rows (`Typed`), that an operation that
does not exist bills nothing (`NothingBilled`), that a bill is closed with its job
or after it (`ClosedAfterEnd`) and that a delivered job's operation is completed
(`DeliveryStands`). `TypeOK` says more than types: the queue holds every created
job and none twice, and a tick works on created jobs, at most `Limit` of them. It
is part of an invariant on top of the first one (`QInv`), from a lemma on positions
(`RequeueKeeps`): taking a job out of its place and putting it at the end loses and
doubles none. `QInv` also says that the jobs a tick still holds are distinct and
each wait for something, so that a job whose bill is closed is never advanced
again. That is what keeps the contract, since the bill of a failed job is not
always what the provider came to charge.

The contract is weaker than ADR-009, and by how much is explicit: `Revoke` lets a
delivery be taken back while its bill is open, at no charge, and nothing else.

**`ImageRoutes_proofs`**: `TypeCorrect`, `RouteIsOne` (`OneRoute`),
`ReplaysAreAnswered` (`ReplaysAgree`), and `PlaceIsOne` (`OnePlace`) from the
assumption that no source asset vanishes (`~MayVanish`).
The worker works its targets out before it stores the batch, so the invariant
ties the targets in its memory to the rows (`Sending`, `Agreed`), the rows of the
pages to the batch (`StepsFollow`) and the tasks to the rows (`TasksFollow`); for
the place of a page also that what the provider was asked for needs no source
or has it (`FromAsset`), and that what a dispatch knows of the sources is still
so (`SourcesKnown`).
`ReplaysAreAnswered` asks in addition what the next dispatch would work out:
while no image was replaced since the batch was stored, whatever build is
deployed arrives at the targets stored (`TargetsAnswer`) and at the request of
each stored step (`RequestKept`), because the route is read back from the batch
and not from the configuration. The invariant `Steady` keeps batch, steps and the
targets in memory equal to that answer, and after an end nothing moves
(`EndedStays`).

**`QuickDeckEvaluation_proofs`**: `TypeCorrect`, `PaidOnce` (`SubmittedOnce`) and
`HonestEnds` (`EndsAreHonest`), for any number of workers, pages, faults and
restarts. The request to the image gateway is sent without looking at the claim,
so a worker that lost its claim may send it late. It is sent once all the same,
because the save that leaves QUEUED succeeds once: past it there is one submitter
for ever (`OneSubmitter`), which takes the pages in order and has sent nothing
that lies ahead (`PagesInOrder`, `SentFirst`). Only the holder of the claim writes
the record, and its copy is the record but for what it has just learnt
(`CopyIsCurrent`), which lets a save be judged by the step the holder is at
(`StepFitsStatus`). A page recorded NOT_SUBMITTED was refused or never sent, and no
request for it may still go out (`PagesAreTrue`); a doubt is carried by the error
of its page until `pendingFailure` is set (`DoubtIsRecorded`).
For the deck, `DownloadsAreWhole` (`DownloadReady`, any number of workers) rests on
`KeptInv`: a removal begins only after EXPIRED is saved (`RemovedLate`), an image is
recorded as complete only after it was stored, and a worker that may still save
has put away what it is about to deliver (`Whole`). `DeckStays` (`DeckIsKept`) adds
`GoneInv` from the assumption of one worker (`Workers = {w}`): nobody but a cleanup
works on an expired job (`OnlyCleaned`), and within its window a cleanup that knows
everything has all that is left of the deck on its list (`DeckIsListed`). With two
workers the second half is false: a packaging worker that lost its claim may
still put a file after the cleanup.

**`GenerationBatch_proofs`**, for any pages, budget, bounds, faults, user actions
and answers: `TypeCorrect`, `PagesSubmittedOnce` (`SubmittedOnce`) and
`LedgersKeepAgreeing` (`LedgersAgree`). The row of a page tells what the provider
has of it (`PageFits`), and a job in flight what its row says (`JobFits`). The
answers of the host and the records of them are separate steps with a crash
between any two, so `BatchFits` says, per point the worker is at, how far the
authorization is; `Covered` that whatever may still turn into a hold of the host
is in the committed budget; `FailedIsFrozen` that nothing is left to move in a Run
that failed. From `Undisturbed`, that nobody resumes the Run by hand and every
preflight is answered OK, also `SubmissionsAreHeld` (`SubmittedUnderHold`) and
`SettlementStaysExact` (`SettlementIsExact`). These two need that pages which have
all ended stay as they are (`Sealed`) and that the finalization is decided on
such pages only (`SealedAtEnd`); that is so because a page that fails takes the
Run out of EXECUTING (`FailureIsTold`), and an estimate committed and forgotten
belongs to a Run that reserves no more (`CommittedIsExact`). Without the
hypothesis both are false, by the resume and the preflight of section 5; the run
`batch_undisturbed` checks them under it.

**`RunLifecycle_proofs`**, for any rounds, attempts, stages, automation levels and
compilers. `TypeCorrect` and `RowsKeepAgreeing` (`RowsAgree`) hold whatever the
users do. The hard part is a worker that comes back to a row users have moved.
Their invariant therefore says what a worker may still be in the middle of
(`WorkerFits`): one that plans is not overtaken by a phase that draws, one that
reviews the page by no review of the deck, and one that plans the revision of a
round by no revision of that round. With `RunFits` (what the fields of the row
say of each other) and `AccountsFit` (what is settled has no image at the
provider) a late completion is refused by the transition table or harmless.

A second invariant, `CInv`, follows the Run through its phases, where the phase
of a Run that is paused or recovering is the one it goes back to: the blueprint
exists once the Run is past planning (`BlueprintFits`), a plan nobody approved
lies one round ahead and no worker is busy beside it (`OffersFit`,
`AwaitingRests`), a round whose delivery began goes nowhere else
(`DeliveriesFit`), the worker is in the phase and round it began in
(`WorkerInPlace`), no image is at the provider while the Run is reviewed or
delivered (`Drawn`), and what is delivered stays judged through a recovery
(`Judged`). A third, `Imaged`, says where there is an image: of the round while the
Run is reviewed, or is delivered without an override, and of some round once the
Run has left the first review, or a person has it with its blueprint. The worker
draws only what nothing was drawn for, so no image is lost (`ImagesStay`), and each
step is shown to keep the phase, to go where no image is asked for, or to find the
image there (`Steers`); a Run that is reopened comes back to an image of its own
round, because every round was planned. From the three follow three theorems, each
under what it says users leave alone:

| Theorem | Property | Hypothesis on `UserActions` |
|---|---|---|
| `DeliveriesAreJudged` | `DeliveredOnlyJudged` | no REJECT_REVISION, and not RETRY_DELIVERY together with the blueprint actions |
| `HardIssuesAreRepaired` | `HardIssuesOnlyRepaired` | no REJECT_REVISION, or neither the blueprint actions nor the override |
| `SuspensionsAreHeld` | `SuspensionsHold` | no blueprint action, and not REJECT_REVISION together with the override |

The two lifecycle runs satisfy the hypotheses of what they check. They are not
there for convenience alone: TLC refutes `DeliveredOnlyJudged` with
REJECT_REVISION, and `SuspensionsHold` with APPROVE_BLUEPRINT alone and with
REJECT_REVISION, APPROVE_REVISION and the override (section 5). Where it finds
no counterexample within one round, `DeliveredOnlyJudged` with RETRY_DELIVERY
beside the blueprint actions and `HardIssuesOnlyRepaired` with REJECT_REVISION
beside the override, the hypothesis is what the argument needs: a plan or a
delivery that a person left behind may not be found again by a later round.

**`PlanningStages_proofs`**, for every chain (also the two no run takes), any
calls, replans, faults and changed pictures, and whatever the user may do:
`TypeCorrect`, `RequestsAreAskedOnce` (`AskedOnce`), `RecordsAreExecuted`
(`ExecutesWhatWasAsked`) and `WholeAnswersAreTaken` (`AnswersAreWhole`). The
properties speak of records, and a worker that stops anywhere leaves them half
written, so the invariant ties the two together: where the worker is in the
course of its chain (`Placed`), that the step it is in the middle of is its own and
holds the request it is about to send, with the pictures that were persisted
(`Holds`), that each text it has is on record under the texts before it
(`MadeFits`), that whatever was sent under a key is what the step and the evidence
of the key name (`SentFits`), and that a completion goes out under its claim alone
(`ClaimsFit`). The first lemmas are about data: a course names each stage once
(`CourseIs`), so a step writes no record the worker already relies on; and an
answer that was cut off has no text under any protocol and is nothing chain 4
completes (`CutOffIsUnreadable`), whatever the stream was. A case analysis of
every action (`WorkerMoves`) then says what becomes of the texts of the worker:
it keeps them, loses all of them, gives the review back to the compiler, or gains
what its stage returned and a record holds. `StartedIsLeft` closes the argument:
a Run that is executed is planned no more.

**`UsageV2_proofs`**, for every deck, every selection of faults, of user and of
administrator actions, and every bound: `TypeCorrect`, `LedgerKept` (`LedgerIsKept`,
every step is a step of `UsageLedger` or none) and `ClosedBillIsFull`
(`BilledInFull`, the first half of `ReportedInFull`). A client reads a row, calls
the host or the provider, and writes another row steps later, while the other
pages, the administrator and a crash come between; so the invariant ties the rows
to the place of each client. The events are numbered without a gap (`Numbered`),
and the ledger is the beginning of the outbox (`LedgerFits`), whichever answer was
lost and whoever holds the lock; what a client found before a call is still stored
after it (`ClientFits`), and an action that was cut off still names an operation
(`AdminFits`); an operation not reported yet belongs to a page that the worker
attends to, or whose submission is still in doubt (`PageFits`). `CloseFits` is the core of the bill: when
someone may say the last word, each operation is with the host, and no other page
can get one any more. The administrator needs it as much as the worker, since he
retries a finalization without the lease.

`ReportsAreFull` (`ReportedInFull`) adds that the pages go on, and their batch is
closed, when all is reported or else the Run is lost (`DInv`). Each action is shown
to take neither turn too early (`Calm`); of the operations of `RunPolicy` this says
that none takes a Run past pages it had not drawn (`Follows`). The hypothesis is
`OnlyTheWorkerFinalizes`: one page, or no verdict of an administrator. It comes
from a step that could not be proved: a verdict closes the batch by the charges of
the pages alone, and for two pages TLC found the behaviour of section 5.

Only model-checked: all liveness and what needs ENABLED, out of the prover's
reach. Each safety property the runs check is a theorem. `ReportedInFull`,
`DeckIsKept`, `OnePlace`, `ReadsInOrder`, the two of an undisturbed batch and the
three of the lifecycle hold under the hypotheses named above, which their runs
satisfy.

## 5. Where code and documents disagree

Every run passes. What follows was met while modelling; each case is a trace of
the model when the restriction named is lifted (an action added to
`UserActions`, a constant, the merged properties checked with the constants of
the other run), or follows from the lines named.

In the accounting of images:

- The integration guide (`docs/frameflow-v4-integration.md:418`) says the fifth
  failure of a stage ends in FAILED. When the failure that repeats is the
  reservation itself (its answer is unknown each time), the budget is committed,
  no page step exists, and the terminal accounting is never final: the Run stays
  RECOVERING with a pending failure and nothing dispatches the pages it waits for
  (`Stranded`, excepted by `ExecutionSettles`).
- The API guide (`docs/ppt-agent-v4-api.md:217`, `:226`) says the accounting of a
  cancelled Run is reconciled in the background. The listing finds a cancelled
  Run only through a pending page or an unknown settlement, so a hold without
  either is forgotten.
- The comment in `batchFinalization` (`core/generation-batch.ts:650`) says an
  authorization is not released while a page is being retried. A page refused
  while the Run is paused begins no recovery, so a resume in the same dispatch
  finalizes the batch, and a later recovery retries the page under the finalized
  authorization.
- `reserveGenerationBatch` is called safe to replay
  (`core/generation-batch.ts:385`); after a crash or an unknown answer, a
  preflight that fails with an unknown answer leaves the batch step FAILED, and
  the next attempt commits the estimate again.
- `pauseForBudget` is decided on a snapshot: a top-up in between is overlooked
  and the Run pauses although its budget suffices.
- A late completion of an image of an earlier round changes what an edit starts
  from; the repeated dispatch then ends in `V4_REPAIR_PERSISTED_IDENTITY_CONFLICT`.
- A deployment without the controlled renderer, or with a compiler that no longer
  proves a page exact, ends a round in progress as WORKER_FATAL
  (`CONTROLLED_RASTER_PORT_REQUIRED`, `CONTROLLED_RASTER_CONTRACT_MISSING`).
- The failure of a missing source asset is put over the step of its page
  (`core/slide-generation-coordinator.ts:870`). When the asset vanishes after the
  page was sent (`MayVanish = TRUE`), the record of a running task is lost.

Under Usage V2:

- Two concurrent reports of one operation that disagree on the charge end in
  `USAGE_V2_EVENT_IDENTITY_CONFLICT`, which fails a Run whose images are all there.
- A lookup that says NOT_SUBMITTED for an operation already observed leaves its
  event unresolved, and the bill never closes.
- An operation that was named with a doubt and turns out not to have been submitted
  keeps its id in the step and has no event; `usageV2BatchOutboxReady`
  (`core/generation-batch.ts:688`) stays false, and the accounting is never final.
- An administrator action that is cut off after its retry, and before it completes,
  is refused when it is repeated, since nothing is left to retry
  (`STEP_NOT_REINSPECTABLE`), and no other action may begin
  (`core/admin-operations.ts:131`).
- A persisted NOT_CHARGED stands when the operation of the same key is charged
  later.
- An event the host rejects while the Run is PAUSED leaves the Run as it is,
  where `docs/ppt-agent-v4-api.md:174` says it waits in RECOVERING with a pending
  failure: the rejection marks only the states technical recovery knows.
- The comment in `batchFinalization` (above) is contradicted by an administrator
  too. One page is refused and waits for the recovery, the other is
  SUBMISSION_UNKNOWN. While a refresh of the second is at its lookup, an
  administrator marks it charged; the answer of the lookup puts the page back to
  WAITING, since the record stops only at a page that is WAITING already
  (`core/media-step-runner.ts:696`), and it completes. The verdict then finalizes
  the batch by the pages as they are (`core/admin-operations.ts:402`), with the
  refused page counted as released. That page is drawn again under the final
  batch, the flush of its last event is lost, and since the batch is final already
  the pages are settled without another flush: the Run is in PAGE_REVIEW with an
  operation whose charge the host was not told. `ReportedInFull` fails with
  `Pages = {p1, p2}`, `AdminActions = {"MARK_CHARGED"}`, the faults LOST and
  REJECTED, and no user action. A bill that closes is full all the
  same (`ClosedBillIsFull`).

In Presentation Job V2:

- ADR-009 (`docs/decisions/ADR-009-presentation-job-v2-provider-boundary.md:21`)
  says a delivered job cannot become FAILED through later accounting, and ADR-010
  (`:24`) that no empty summary may stand for an unknown usage. The tick takes every
  exception with a 4xx status and a code for a refused submission
  (`core/presentation-job-v2-service.ts:192-201`), the exceptions of `inspect`,
  `reconcile` and `artifacts.put` included. Such an exception makes a billed
  operation free, and a delivered job whose bill is open FAILED without its
  artifact. `BillsAreTrue` and `KeepsContract` except this case (`refused`,
  `Revoke`). No adapter in the repository throws such an exception there today: the
  HTTP provider turns errors into answers, the internal one and the artifact store
  throw errors without a status.
- The internal provider reports FAILED, with what was drawn so far, for a Run that is
  paused or waits for a person (`adapters/internal-presentation-job-v2-provider.ts:205`)
  or that has drawn more than its cap (`:201`). The job then ends with a final usage, and
  what the Run draws when it goes on is never charged: the bill of a failed job is a
  lower bound then (`reopened`).

In planning and the calls of models:

- `docs/frameflow-v4-integration.md:417` promises that a recovered stage goes on. A
  base text that was repaired is asked for again after a recovery; when the model
  answers otherwise, the request of the review, already on record, no longer
  matches, and the Run fails with `V4_PLANNING_REQUEST_REPLAY_MISMATCH`
  (`core/planning-runner.ts:1214`). The shortest trace has 30 states.
- A crash between the failure of a repair and `markV4SemanticCompletion` buys a
  second call for the same completion.
- A stream of chain 4 that is closed cleanly before its end is
  `V4_CHAIN4_PROTOCOL_UNSUPPORTED`, which ends the Run, while one that breaks is
  retried; a 400 or 422 in the preflight ends it too. For callers that do not
  insist on a stream the same early end is `MODEL_JSON_INVALID` over one protocol
  and `PROVIDER_UNAVAILABLE` over the others.
- A rejection the adapter calls not retryable is `PROVIDER_UNAVAILABLE`, and the
  technical recovery retries it.
- A page review repeats a chain 4 call after `V4_CHAIN4_PROTOCOL_UNSUPPORTED`, as it
  repairs every error that is a code (`core/visual-review-runner.ts:128`); the deck
  review and the application do not.
- A revision manuscript that is too large ends the Run with
  `V4_MANUSCRIPT_CONTEXT_TOO_LARGE` when it comes first, and goes to a person when
  it comes as the second answer (`core/revision-application-runner.ts:300`).

In the lifecycle:

- `REJECT_REVISION` is accepted in every status that may go to NEEDS_HUMAN, a deck
  review in progress included. NEEDS_HUMAN may go to DELIVERING, so a review that
  then passes delivers the Run the person rejected, and after
  `SUBMIT_LIMITED_REVISION` even in a round whose image was never drawn
  (`DeliveredOnlyJudged` fails). In BOUNDED_AUTO a plan that is completed after
  the rejection moves the Run from NEEDS_HUMAN to REVISING.
- A plan whose revision was rejected stays COMPLETED. After the administrator's
  override `APPROVE_REVISION`, which asks only for a completed plan of the next
  round (`core/run-service.ts:543`) and for the transition table (`policy.ts:153`),
  takes a Run that is RECOVERING from a failed delivery into REVISING instead of
  the delivery (`SuspensionsHold` fails with REJECT_REVISION, ACCEPT_WITH_OVERRIDE
  and APPROVE_REVISION).
- A pause during a deck review, or during the application of a revision, whose
  failure turns out to be internal: the failure does not end a paused Run, but
  the step stays FAILED. After the resume every tick finds that step, replays it
  and changes nothing (`core/deck-review-runner.ts:350`,
  `core/revision-application-runner.ts:368`). The traces have 10 and 16 states.
- A person's plan for the round a worker is planning makes the worker throw, and
  the Run ends as WORKER_FATAL.
- `REQUEST_BLUEPRINT_REVISION` and `APPROVE_BLUEPRINT` leave RECOVERING, also when a
  terminal failure waits for its accounting (`SuspensionsHold` fails). After the
  first the plan is complete and nothing but a user moves the Run on.
- `docs/ppt-agent-v4-api.md:216` says that short outages enter RECOVERING and are
  repeated under their key. A deck review or a revision plan whose source could
  not be read keeps an input hash made of the error; when the source can be read
  again the hash differs, the preparation throws, and the outage ends in
  WORKER_FATAL. The application of a revision does not retry such an outage at
  all: `failBeforeApply` records `REVISION_APPLICATION_FAILED`, and the Run fails as
  exhausted (`core/revision-application-runner.ts:464`).
- A failed Run that is reopened keeps its acknowledged finalization, so images
  drawn afterwards are charged outside of it.
- `RunService.create` stores the Run and its first event in two transactions
  (`core/run-service.ts:124`): a crash between them leaves a Run without it.

In quick decks and streams:

- The comment in `expire` (`core/quick-deck-evaluation-service.ts:1505`) says known
  artifacts must become durably reclaimable before they are deleted. When the
  cleanup window has passed, the save before the deletion clears
  `cleanupPending`, and a crash between the two leaves recorded artifacts that
  no tick claims again and no audit mark names. `docs/quick-deck-evaluation.md:10`
  puts the deletion before EXPIRED is published; the code saves EXPIRED first.
- With two workers a stale one may store a preview after the expiry has looked.
- A poll stores the image of a page before the record names it. If that save is
  lost and the gateway's result then expires, or the draining times out, the
  image is never removed.
- A claim lost between the two saves that follow planning (lines 709 and 720)
  leaves the job without a next attempt until a restart or its expiry.
- A finished image that cannot be read back makes the whole job fail while other
  pages are unresolved.
- The first subscriber's cursor becomes the channel's, and `http/handler.ts:882`
  takes any cursor: one ahead of the log moves the channel past events the other
  subscribers of the Run wait for (`Starts = {0, 2}`).

## 6. Not modelled

The accounting of revision batches, the per-page reservation of the older
presentation modes and their lifecycle, several slides in the lifecycle, the
limits at the creation of quick decks, usage of text models, the fallback model,
and the readiness and availability of models. The courses of the legacy chain
and of chain 2 are written down in `PlanningStages` and proved about but not run: new
Runs get chain 4, and Runs of chain 3 are the ones still open.
Document compilers, schemas, rendering and PPTX validation hold no state; that
they may refuse is a choice of the modules that call them.
Network adapters other than the model's are the environment: the modules state
what they assume of them. The listing is modelled for one Run, so its LIMIT over
many Runs is not. The scripts of `scripts/` run against a stopped service.

## 7. What is left

Of use next: liveness of `RunLifecycle` once the pause of section 5 is settled,
and a composition of `GenerationBatch` with `UsageV2` for the authorization of the
batch by the host.
