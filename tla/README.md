# TLA+ specifications of the LLM cost optimizer

This directory holds formal models of the program in `src/`, the TLC runs that check
them on small instances, and proofs of their main properties for every value of the
constants. Paths such as `store.py:125` are short for the file under `src/app/` (or
`src/scripts/` for the scripts); `PROJECT.json` names, for every definition, the lines
it models.

The program answers `POST /v1/generate`: it routes a request to the cheapest model that
is qualified for its contract, verifies the candidate with structural checks and
decision calls, falls back once, keeps a ledger of what was spent, and samples accepted
answers into a queue that audit workers (other processes, same SQLite file) review
later. Measurement scripts produce the profiles and reports the router depends on.

## 1. Inventory

| Component | State | Operations | What is hard | What makes it correct |
|---|---|---|---|---|
| Audit queue: `audit_jobs` in `persistence/store.py`, `migrations/` | one row per job: status, owner, lease, attempts, payload and its expiry, result, human verdict | enqueue (in `finish`), claim, heartbeat, complete, fail, expire, record human review | leases that run out under a working process; a clock read before the lock is held; sweeps between any two steps | a job has one owner; who lost it cannot touch it; attempts are bounded; every job settles; payloads are erased |
| Audit worker: `worker.py` | the claimed row, in memory | `run_once`, the loop of `main` | death between two transactions; judges slower than the lease; the heartbeat's answer is ignored | the above, from the worker's side |
| Generation service: `service.py` | a coroutine per request: attempt, total cost, remaining time | `execute`, `_TrackedDecisionBackend.decide`, `_rejected` | retries with the same key; costs of failed calls and time-outs; calls dearer than estimated; a crash with a call in flight | cost, answer and ledger agree; the budget holds; a key is paid for once; every request ends |
| Spend ledger: `requests`, `reservations`, `calls` | rows per request | `create_request`, `reserve`, `record_call`, `finish` | unknown costs; reservations nobody closes | as above |
| Contract verifier: `verification/verifier.py` | none | `verify`, `aggregate` | NaN and malformed answers, checks left out, abstention | accepted exactly when acceptable |
| Routing policy: `routing/policy.py` | none | `select` | ties, fallback, duplicates | cheapest eligible route; its reservation fits, given the files that the scripts write |
| Final experiment: `final_experiment.py` | rows of a JSONL file, a manifest, `actual_spend`, tasks | `run_experiment`, `run_case` | stop and resume, one failing task cancels the others, escalation, semaphore | nothing measured twice, manifests stay true, budget |
| Pilot benchmark: `benchmark.py`; shadow run: `shadow_jev.py` | the same files | `run_benchmark`, `run_shadow`, each with its own idea of when a cost is unknown | the same; cancelled calls; a configuration that is edited between two starts | honest manifests; what is lost without a row is bounded |
| Profiles: `benchmark.py`, `merge_profiles.py` | profile files | `evaluate`, `summarize`, `build_profiles`, `merge_profiles`; promotion by hand | unknown costs, small samples, settings read again when the file is built, duplicates | prices cover what was measured; a file tells its settings; one profile per contract and alias |
| Jev gate, judge router: `routing/jev_gate.py`, `jev_signals.py`, `llm_judge.py` | none | ask, parse, decide | malformed answers and numbers out of range | a broken call never escalates |
| Providers: `providers/`, `costs.py` | none (HTTP) | `generate`, `decide` | time-outs, missing costs, exceptions | a cost that is known is told |
| Migrations: `Store.migrate` | `schema_migrations` | check, apply, record | processes that start at once, a death between two statements | who serves has the whole schema; a refused start may retry |
| Configuration: `config.py`, `get_service`, `build_judge_backend` | none that changes | load, validate, build the decision backends of API and worker | API and worker derive their backends by different code | who audits has what verified |
| HTTP interface, dashboard, generators, smoke test, reports | none that changes | show, write once | - | - |

How they interact. The HTTP interface starts `execute`, which calls router, provider,
verifier and store; the decision backend it hands to the verifier reserves and records
each call. `finish` inserts the audit job in the transaction that accepts the request.
Workers share nothing with the API but the database; SQLite's `BEGIN IMMEDIATE`
serialises transactions, and everything interleaves between them. Scripts use verifier
and providers in-process and communicate with later processes through their files.

`PROJECT.json` lists every component, also those left out, and the hazards of the code,
each with the properties that would catch it going wrong or why none does yet.

## 2. Modules

| Module | Models | Uses |
|---|---|---|
| `WorkItems` | what a job queue promises: settled at most once, by the one that took it last | |
| `AuditQueue` | `audit_jobs`, its transactions, the workers, the clock | implements `WorkItems` |
| `AuditQueueProofs` | theorems about `AuditQueue`: ownership, retries, refinement; and leases against time | |
| `KeyedRequests` | what an idempotency key promises: one payer, one outcome, nobody told anything else | |
| `RequestFlow` | `execute`, its decision calls, the ledger, time | implements `KeyedRequests` |
| `RequestFlowProofs` | theorems about `RequestFlow`: ledger and budget; and time, keys, refinement | |
| `Verifier` | the checks of the three contract families, `aggregate` | |
| `RoutingPolicy` | `select` and the cost lookup of `execute` | |
| `JevGate` | what a Jev call comes to: `parse_signals`, `evaluate_shadow`, the gate | |
| `Providers` | what a caller gets of a provider's reply: status, cost, or an exception | |
| `Statistics` | `evaluate`, and the figures of a profile: Wilson bound, percentile, mean cost | |
| `Configuration` | what `load_config` and `get_service` accept, and the backends of API and worker | |
| `StatisticsProofs` | lemmas: induction, sums over sets, minima, the Wilson bound, the percentile | extends `Statistics` |
| `DecisionsProofs` | theorems about `MCDecisions` | extends it and `StatisticsProofs` |
| `ResumableRun` | what the paid measurement scripts share: rows, preflight, manifest, stop and resume | |
| `ResumableRunProofs` | lemmas: the invariant of an output file, and the few kinds of steps that keep it | extends `ResumableRun`, `StatisticsProofs` |
| `Experiment` | `run_experiment` and `run_case` | extends `ResumableRun` |
| `ExperimentProofs` | theorems about `Experiment` | extends it and `ResumableRunProofs` |
| `PilotRun` | `run_benchmark` and `run_shadow`, one call for each item, under an edited configuration | extends `ResumableRun` |
| `Profiles` | the path from rows to profile files: `build_profiles`, `merge_profiles`, promotion | extends `PilotRun`, `Statistics` |
| `ProfilesProofs` | theorems about `MCProfiles` | extends it and `ResumableRunProofs` |
| `Migrations` | `Store.migrate`, run by processes that start at once | |
| `MigrationsProofs` | theorems about `Migrations` | |
| `MCAuditQueue`, `MCRequestFlow`, `MCExperiment`, `MCMigrations` | values for the constants | |
| `MCProfiles` | values for the constants, and the composition of `Profiles` with the router | extends `Profiles`, `RoutingPolicy` |
| `MCDecisions` | inputs and reference definitions for the pure operators | `Verifier`, `RoutingPolicy`, `JevGate`, `Statistics`, `Configuration`, `Providers` |

### AuditQueue

Each transaction is one step, since writers are serialised; between two of them anything
may happen. A worker's `pc` is the transaction or call it is about to make: *claiming*
(after `expire_payloads`; `claim_job` has read the clock but may wait for the lock),
*skipping*, *parking*, *extending*, *judging*, *failing*. `held` is the row that
`claim_job` returned, which the worker goes on using without reading it again.
`CompleteJob` and `ExtendLease` have the WHERE clauses of the code (owner and live
lease), `FailJob` has the weaker one of `fail_job` (owner only); a completion or failure
that changes no row raises, which ends the process. `owner` is fresh for each process,
so a restarted worker is another element of `Workers`.

Times are relative to now (`lease[j]` is `lease_until - now`) and count down, so that
unbounded time has finitely many states. The floors of the countdowns lose nothing: a
payload is looked at only for being expired, and a lease only for being older than the
oldest clock reading in use, at most `LockWait` old.

### RequestFlow

An execution is one HTTP request; a client's retry is another execution. The steps are
the transactions (`create_request`, `reserve`, `record_call`, `finish`) and the replies
of providers. A reply and the transaction that records it are one step, as is a
rejection before anything is stored; the code has no suspension point between them.
Time passes in provider calls (`Elapse`, up to the timeout of the call) and in waits for
SQLite's write lock, which the API shares with the workers: every transaction begins with `BEGIN IMMEDIATE` and may wait for `busy_timeout`
(`WaitForLock`), `reserve` after `remaining_s` was read. A wait in vain raises
`OperationalError`, which nobody catches: HTTP 500 (`LockTimesOut`, and `NotOpened` for
`create_request`, whose wait precedes `started` and is not counted). The store is called
synchronously, so a coroutine that waits for the lock holds up the event loop: another one
that awaits a call gets its reply, and its timeout, that much later (`Stalled`).

`used` is the sum that `reserve` computes over a request's reservations, `spent` and
`nullCost` sum up its rows in `calls`. `Reserve` refuses what does not fit, which ends
the attempts or gives a check the result *error*. `joined` is the case in which
`create_request` returned no id and no result.

`KeyedRequests` is what a client of keys can rely on, without bodies, attempts or time: the
first execution pays, its bill moves until it settles the outcome, later ones recall that
outcome, and all others are turned away. The refinement mapping reads the payer of a key off
the rows, the outcome off a finished row, and the bill off the ledger. It leaves out requests
that are hopeless whoever sends them (refused early, or without a route): they are rejected
at no cost, even to an execution that joined a running one. That a joined execution of any
other body never answers is how the code differs from what `PLAN-Final.md:232` wants, and
`RequestFlow_retry` shows it.

### Experiment

`StartRun` is the reading of the output file, the preflight and its exit; `WriteRow` the
locked append with its bookkeeping; `FinishRun` the manifest; `StopRun` a kill, or the end
of `asyncio.gather` after a task that raised, with the cancellation of the rest. That a
raising task frees its slot a moment earlier is told apart in `PilotRun` only, which counts
the calls that are lost. `Experiment` adds
`run_case`, step by step, under the semaphore. `hidden[i]` remembers which kinds of calls
of item *i* came back without a cost; the code keeps the flags of one kind each.

### PilotRun and Profiles

`PilotRun` is `ResumableRun` with one call for each item. The two scripts differ in
`Flagged`: a benchmark takes note of every call without a cost, a shadow run only of
evaluated ones, so its manifest may be called complete although a failed call's cost is
unknown (the next start, which looks at the rows, corrects that). `loaded` are the settings
that the running process read, `config` those in the file now; `EditConfig` and `NewOutput`
are what a person does between commands. A call that raises and the cancellation of the
others are two steps (`Raise`, `Cancel`): the task leaves `async with semaphore` at once,
which wakes a queued task, and only then does the callback of `asyncio.gather` wake the main
task, whose exception ends `asyncio.run`. In between a queued call begins, and others may
end and be written, or raise as well. `lost` counts the calls that were begun and have no
row, `raised` those among them that raised, `cut` the stops. They are variables of the model
only; no file of the program has them.

`Profiles` adds what is made of the rows. A file claims the settings that the configuration
has when `build_profiles` runs, not those of the rows: `rows` and `mixed` in a file are
again the model's memory of where it came from, and no guard reads them.
`merge_profiles` refuses validated inputs, merged inputs (they lack `dataset_sha256`),
different experiments and duplicate keys; `Promote` is the hand that sets
`validated_for_active`. `MCProfiles` gives every file to the router.

### Migrations

An element of `Processes` is one start: the API's first request (several threads may be
first, for `lru_cache` does not lock) or a worker. The check whether a script is recorded,
each statement of it, and the record are transactions of their own, as in the code, so
starts overlap and die between any two. A statement is its number in the script; `Alters`
are those that fail when repeated.

### Verifier, RoutingPolicy, JevGate, Statistics, Configuration, Providers

Operators, not state machines: they translate `verify`, `aggregate`, `select`,
`qa_gate_should_escalate`, `evaluate`, `summarize`, `validate_credentials`, the two places
that build a decision backend, and `generate` and `decide` of the providers, as functions of
their inputs. The Wilson bound is the
lower root of a quadratic equation; `WilsonLower` is the largest per cent on its side of it,
in exact integers where the code has floats. Nothing is sorted: the value at a place of the
sorted list (`Ranked`) is the least one that so many values do not exceed, and the head of
the sorted profiles (`Best`) is the place that no other one precedes, the earlier of two
equal ones. Scores and probabilities are percentages; a candidate is what
the structural checks find out about it (fits the schema, label in the taxonomy, values
in the source, citations valid, abstained).

## 3. Runs

| Run | Shows |
|---|---|
| `AuditQueue_safety` | rows and workers agree on owners (`OwnerHolds`); a worker that lost a job changes nothing (`FencedRow`); the queue implements `WorkItems` (`KeepsPromise`) |
| `AuditQueue_leases` | attempts beyond the limit are paid for by lost leases (`AttemptsPaidFor`); with one judge call the lease holds while the call is in flight (`HeldInFlight`); jobs settle and expired payloads are erased while one process survives (`AuditsSettle`, `PayloadsErased`) |
| `RequestFlow_ledger` | row, answer and ledger agree, and no reservation stays open (`CostMatchesLedger`); the budget is exceeded by at most one call's excess (`BudgetHeld`); time is bounded by deadlines, waits for the write lock and stalls of the event loop (`AnswersInTime`); every execution ends (`EveryExecutionEnds`) |
| `RequestFlow_keys` | a key is paid for once (`SpendOncePerKey`), everybody with that key and body gets one answer (`SameKeySameAnswer`); the service implements `KeyedRequests` (`KeepsPromise`) |
| `Decisions` | routes (`RouteIsCheapest`), verdicts (`AcceptedWhenAcceptable`), escalations (`GateNeedsAFlag`), quality bounds and percentiles (`SampleJudgedFairly`), backends (`AuditedByVerifier`) and the costs of replies (`BillsKept`) agree with reference definitions on all bounded inputs; what the benchmark counts as a success is refused, whether by a failed, an uncertain or an erroneous verdict, only on account of a decision call that denied it, was undecided, or gave no usable answer (`OnlyDecisionsRefuse`) |
| `Experiment` | one row per item (`RowsUnique`); manifests stay true (`ManifestHolds`); spending within the preflight (`WithinPreflight`); rows admit unknown costs (`RowsAdmitUnknown`); runs end (`RunsEnd`) |
| `Profiles` | manifests of both scripts stay true and honest (`PilotManifestHolds`); what is paid without a row is at most the calls that raised and one call per slot and stop (`OverspendBounded`); files tell the settings of their rows unless the configuration was edited meanwhile (`SettingsTold`); prices cover the measured mean, or are a zero for an unknown one (`PricesMeasured`); on every file the scripts write, what `execute` reserves fits the budget its route was selected for (`ReservationFromFile`) |
| `Migrations` | who comes up has the whole schema (`UpMeansMigrated`); the ALTERs keep racing starts apart (`AltersExclude`); who is refused may retry (`RefusedMayRetry`); a script that was cut off between an ALTER and its record is never mended (`CutOffForEver`) |

Each property has a mutant in `PROJECT.json`, a plausible slip in the code that breaks
it. The mutated operators stand next to the originals.

### Bounds, and why they are enough

- **AuditQueue.** Two jobs and two workers let the order of `created_at` matter (an old
  job that cannot be claimed, a newer one that can), and let one worker take over from
  another; one job is context QA with two judge calls, one has a contract the workers do
  not know. `AuditQueue_leases` has three workers, so that a job can be lost twice and
  exceed `MaxAttempts = 2`, with times in the proportion of the real ones (`ClaimLease` 2,
  `CallTimeout` 3, `LeaseMargin` 1, `LockWait` 1; really 30, 30, 5 and 10 s). Unit times
  elsewhere make every time-out race every other. Workers that died stay dead, so the
  number of workers bounds the number of restarts. Workers are interchangeable, so
  symmetry is used where no liveness is checked; jobs are not, for they have an order.
- **RequestFlow.** A request's ledger concerns only itself, so one execution with two
  attempts and two decision calls shows what can happen to it: costs 0, 1 and 3 are below,
  at and above the estimates 1 and 2, and a budget of 4 stops some attempts and not
  others. A transaction waits up to `LockWait = 1` for the lock, half the `Deadline = 2`
  (really 10 s, and a deadline of the request's choice), so that a wait can use up the time
  of the next attempt; `MaxStalls = 1` stall by other coroutines while it awaits its calls.
  Keys relate executions, so `RequestFlow_keys` has three of them with one call
  each: one that pays, one that joins it and one that comes after its end. There the
  executions are interchangeable, and waits take no time (`LockWait = 0`), though they may
  be in vain.
- **Experiment.** One gated question that can escalate, and one case with a router, two
  slots (never short for two items; they are in `Profiles`, and `RunsEnd` does not see a task
  wait for one), two starts of the script with a shorter and a longer selection: every pair of a
  stop and a resume, and a manifest followed by a run that extends it. Each tier costs 1
  and a decision call 3 of an estimated 4. `preflight_case_cost` counts two decision calls
  of a case (three in arm `jev_gated`) where escalation doubles them; its estimate, 150, is
  called generous padding over a measured 22 to 24, and `WithinPreflight` holds only thanks
  to that padding: a gated case with one verification call makes four decision calls for
  three estimates, a real context QA one up to six.
- **Decisions.** All lists of up to three profiles from a set with one profile for each
  way to be discarded, and every combination of verdicts of the structural checks with
  answers on both sides of both thresholds, malformed and NaN ones. Samples go up to
  `MaxSample = 40`, which has the first rank of the percentile that is not the last (20) and
  the next one (40). All 576 configurations, and every kind of
  reply with costs on both sides of a half microusd.
- **Profiles.** Three items of one contract: two of the first model, so that a sample can be
  cut short, mixed or half known, and one of the strong model, so that two files can be
  merged. `Concurrency = 1`, `MaxStarts = 2` (a stop and a resume, or a pilot after a pilot),
  one edit of the configuration, three files (two inputs and their merge, or a promoted
  copy that a merge refuses). The budget
  is never short here: what the preflight is for is checked in `Experiment`.
- **Migrations.** Three starts, so that two race and a third comes after them; 001 with two
  statements that may be repeated, in place of its nine, and 002 with its two that may not.

Deadlock is checked for AuditQueue, where a clock that ticks keeps the system going, and
off elsewhere: executions, decisions, starts and bounded numbers of runs come to an end.

### Fairness

- `AuditQueue`: time passes (weak fairness of `Tick`, which no worker can stop for longer
  than its step lasts) and each worker that is alive goes on (weak fairness of
  `WorkerStep(w)`): `main` loops for ever, calls have time-outs, SQLite's wait is bounded.
  Enqueueing, human review and death are not fair. The two liveness properties suppose
  that *some* process never dies (`SomeWorkerSurvives`); a worker whose lease was lost does
  die, and nothing in the code restarts it but the container's policy.
- `RequestFlow`: weak fairness of `Advance(e)`, for the event loop runs ready coroutines
  and every call ends by its timeout. Being cut off is never fair.
- `Experiment`: weak fairness of `Finish` and of each `CaseStep(i)`, for the same reason;
  a slot of the semaphore that becomes free stays free until a task takes it, and tasks in
  a slot always leave it.
- `Migrations`: weak fairness of `Migrate(p)`, for a start that has begun runs on. Nothing
  makes anybody start, and compose.yaml restarts nobody.

### Where documents and code disagree

Four runs expect a violation. Each checks one sentence of a document or comment, and TLC
shows a behaviour of the code that contradicts it (`findings` in `PROJECT.json`):

| Run | Says | Code |
|---|---|---|
| `AuditQueue_attempts` | retries are bounded by `audit_max_attempts` (`docs/decisions.md:19`) | the limit is looked at when a failure is reported, not when an expired lease is taken over |
| `AuditQueue_qa_reclaim` | the lease is extended "so a slow judge is not reclaimed by another worker mid-flight" (`worker.py:42`) | context QA makes two calls on one extension for one |
| `RequestFlow_retry` | the same key recovers the state or the result (`PLAN-Final.md:232`) | a key whose request has no result yet ends in an error |
| `Experiment_gate` | unknown external spend is NULL, never zero (`docs/decisions.md:8`) | the gate's unknown cost is added as 0 |

The properties next to them say what does hold: `AttemptsPaidFor`, `HeldInFlight` for one
call, `SameKeySameAnswer`, `RowsAdmitUnknown`.

More that the models show, and that no run of its own is spent on:

- `STEPS.md:138` wants the global deadline respected, verifications and fallback included.
  The remaining time is computed once per attempt, before the wait for the reservation, and
  given to each of its calls, so an execution can take `1 + VerifyCalls` deadlines. On top of
  them come one wait of up to 10 s for the write lock for each of the attempt's transactions
  (two for each call, and `finish`), and whatever other requests wait while they hold up the
  event loop (`AnswersInTime`).
- A profile file tells its settings only while nobody edits the configuration between the
  first call and `build_profiles` (`SettingsTold` without `~f.mixed` fails): the rows record
  their settings (`benchmark.py:147`), and nobody compares them.
- A mean cost that is unknown becomes a price of 0, which the router likes best
  (`PricesMeasured` admits it). `PLAN-Final.md:217` says that no unknown price becomes zero.
- `openrouter.py:31` wants a known cost never reported as unknown. A reply with an empty list
  of choices raises an `IndexError` that is not among the exceptions caught there, so its cost
  is lost, and the caller's request or script with it (`BillsKept` names the case).
- With `decision_transport: local` the API verifies through TypeSafe, with an empty key if
  none is set, while the worker has no judge and every check that needs one is an error
  (`AuditedByVerifier` names the case).

## 4. Proofs

All theorems are checked by TLAPS for arbitrary constants under the named assumptions of
the modules: numbers are natural numbers, `Workers` and `Items` are finite, `None` and the
special keys are not ordinary values, the models are numbers in alphabetical order, a
route's expected costs fit the budget (which `ReservationsFit` shows of the files that the
scripts write), and in `Experiment` a generation costs at most its estimate.

**StatisticsProofs.** Lemmas on data of any size. Induction rules that take an operator
cannot be used with the installed provers; induction is by the least counterexample
instead, among the naturals (`LeastNumber`) or the subsets of a finite set (`SmallestSet`).
On it rest: the community modules' sum over a set is a function that takes out one element
after the other, whichever (`SumTakeOut`, `SumPutIn`), is a natural number, and does not
care for names (`SumRenamed`); maxima, minima and the first of a finite set by three keys
exist (`MaxIsGreatest`, `MinIsLeast`, `Foremost`). `WilsonIsGreatest` and `WilsonMoves` say
where the bound lies and how it moves with successes, failures and a sample twice the size:
`Slack` and `Spread` are the two sides of the quadratic inequality, and `BelowMoves`
compares them by their products, which the solver cannot do by itself. `PercentileRank`
and `PercentileCovers` count the values under a percentile.

**AuditQueueProofs.** The inductive invariant is

    IInv == TypeOK /\ HoldersKnown /\ OwnerHolds /\ AttemptsToSpare /\ AttemptsPaidFor

`OwnerHolds` is not inductive alone: that `complete_job` and `fail_job` free the right
worker needs `HoldersKnown` (a worker between claim and last transaction has a job, an idle
one has none). `AttemptsPaidFor` needs `AttemptsToSpare`: a pending job can be claimed
without any worker losing it, so it must have an attempt left, while a claim of a leased
job makes its old owner one more that lost it. `StepKinds` sums up each action as one of a
few kinds of change of ownership, so that the invariants are proved for kinds, not
actions. From the invariant follow `TypeCorrect`, `OwnershipAgrees`, `RetryLimit`,
`Fencing` (`FencedRow`) and `Refinement`: every step maps to a step of `WorkItems` or
to a stutter.

**AuditQueueProofs, leases.** `HeldDuringOneCall` proves `HeldInFlight` under two assumptions of
its own, `OneJudgeCall` (no job needs a second call, which context QA does) and
`LocksAreShort` (`2 * LockWait <= ClaimLease`; really 20 s and 30 s). The invariant is
`TimersBounded` and `LeasesKept`: whoever owns the job, on each step from the claim to the
call, has a lease that outlasts the rest of that step. The second assumption is what the
step from claim to heartbeat needs: the clock is read before one wait for the lock, the
heartbeat may wait a second time.

**RequestFlowProofs.** The inductive invariant is

    IInv == TypeOK /\ LedgerInStep /\ RowsInStep /\ BudgetHeld /\ SpendOncePerKey

`LedgerInStep` relates the coroutine to the ledger: at most one reservation is open, it was
within the budget when it was made, and the total is what the ledger will say when the
call is recorded; so when the call costs more, only its own excess is beyond the budget.
`RowsInStep` says which steps have a row and which answer it had. Theorems: `TypeCorrect`,
`BudgetRespected`, `CostsAgree`, `OneSpenderPerKey`.

**RequestFlowProofs, answers.** `TimeBounded` proves `AnswersInTime` from `InTime`: an attempt
begins only while time is left, so whatever earlier ones took is within the deadline; after
`c` calls and `n` transactions of the attempt at most `Limit(e, c, n)` has gone by, a deadline
for each call and a wait for each transaction and each stall, and a call in flight keeps
within it together with what is left of its timeout. A stall moves the limit by the one wait
that it takes (`StalledLimit`). `SameAnswers` proves
`SameKeySameAnswer` from `OneRow` (a key has one row) and `Agreeing`: whoever joined a row
without a result either fails at its first reservation or, when its body has no route at
all, answers as the row's owner must. `KeyedRefinement` proves `KeepsPromise` from the same
invariant: a step changes what `KeyedRequests` sees of its own execution only, and it is one
of `Open`, `Recall`, `TurnAway`, `Spend` and `Settle`, or a stutter; `OneRow` makes the payer
unique, and `Agreeing` keeps joined executions from answering.

**ResumableRunProofs.** What the three scripts do to an output file is one of a few kinds
of step (`RunStep`), and `RunInv` holds through all of them (`RunKept`):

    RunInv == RunTypeOK /\ PendingUnmeasured /\ RowsUnique /\ InStep /\ ManifestAddsUp

What is still to be measured has no row; what is pending and what was spent so far is what
the rows of the selection say (`InStep`), which is what makes a manifest add up, and later
rows are of items outside its selection, for each item has one row.

**ExperimentProofs.** `IInv == RunInv /\ CaseTyped`, from which `NothingMeasuredTwice`
proves `RowsUnique`; with the types of the locals of `run_case` follows `TypeCorrect`.
`MInv` adds that a process which has seen no unknown cost works on a file that has none;
`ManifestsTrue` proves `ManifestHolds`. `AInv` adds that only pending items are at work, so
that what a row's case hides no longer changes; `UnknownAdmitted` proves `RowsAdmitUnknown`.

`PreflightCovers` proves `WithinPreflight` from `BInv`: what is spent plus the estimates of
what is pending fits the budget, and for each case what it paid plus what it may still owe
(`Owed`, stage by stage) fits its estimate. The estimate counts fewer decision calls than a
case can make, so this has hypotheses: each decision call costs at most a `c` with
`VerifyCalls * c <= E` and `2 * VerifyCalls * c + 2 * c <= 3 * E` for the estimate `E` of
one (`DecisionsWithin`; 22 to 24 of 150 were measured, and two calls for a context QA
candidate; 3 of 4 and one call in the run), a higher tier costs no less (`PricesOrdered`),
and a gated case goes from economy to balanced or is strong from the start (`RuledRoutes`,
what `CONTRACT_RULE_PRIMARY` gives all three contracts, and the lack of a route another
one). A contract outside of it that is routed to balanced and escalates to strong would not
be covered, for a gated case is estimated as economy and strong.

**ProfilesProofs.** `ManifestsHold` proves `PilotManifestHolds` from `RunInv` and
`ManifestInv`: the flag tells of every unknown cost that it should (`FlagTells`), and so
does the manifest (`ManifestHonest`). `FilesTellSettings` (`SettingsTold`) and
`OneProfilePerKey` (`ProfilesUnique`) need that the rows of an unmixed file were measured
with the current settings (`SettingsKnown`) and that a file is a record of its fields
(`Shaped`), so that a promoted copy keeps the others. `Overspend` (`OverspendBounded`)
needs that no more calls are in flight than there are slots, and that the calls which have
no row without a stop are those that raised (`SlotsHeld`).

`ProfilesInv` is about what the profiles say: those of a file have the keys of the rows that
it remembers (`FilesGood`), so no sample is empty, and a merge, whose inputs share no key,
leaves each sample what it was. Hence `ProfilesTypeCorrect` (`TypeOK`: every minimum, mean and percentile exists)
and `PricesCoverSamples` (`PricesMeasured`). `ReservationsFit` proves `ReservationFromFile`
from these and `ProfilesUnique`: in whatever order a file's profiles are read, the route is
made of eligible ones (`RouteIsEligible`), and the only profile that `execute` can find for
its contract and alias is that one (`ReservedIsOne`).

**MigrationsProofs.** `IInv == TypeOK /\ PassedIsDone /\ RecordedIsDone /\ BehindRecorded /\
AltersExclude`: what a process passed is in effect, what is recorded is in effect in full,
and everybody has left only recorded scripts behind. `SchemaComplete` proves
`UpMeansMigrated`, `AltersAreLocks` proves `AltersExclude`, `TypeCorrect` proves `TypeOK`.
`NeverMended` proves `CutOffForEver`: that a script is cut off stays so (`CutOffStays`),
since who would record it must first get past the statement that now fails, and who comes
up has left only recorded scripts behind.

**DecisionsProofs.** `MCDecisions` has no behaviour beyond one step, so its invariant only
says that an answer belongs to its input; what is proved is that the operators agree with
their reference definitions for all thresholds and all answers: `VerdictsRight`,
`SuccessesDelivered` (`OnlyDecisionsRefuse`), `GateOnFlagsOnly`, `BackendsAgree`, `CostsTold`. `RoutesCheapest`
proves `RouteIsCheapest`: the profile that `Best` names exists and precedes the others
(`BestPrecedes`, from `Foremost`), and rounding to the half-even keeps the expected cost of
the fallback between 0 and its cost (`RoundedShare`). `SamplesFair` proves
`SampleJudgedFairly` for samples of every size, from the lemmas on statistics. In both, as
in `ReservationsFit`, what stays fixed is what the property fixes: contract, budgets and
deadline.

Every safety property of the passing runs is stated by a theorem. Only model-checked are
the five liveness properties `AuditsSettle`, `PayloadsErased`, `EveryExecutionEnds`,
`RunsEnd` and `RefusedMayRetry`, which are out of the prover's reach (fairness, ENABLED).

## 5. What the models leave out

- A timeout is taken to bound a call. httpx bounds connecting, sending and each read by
  it, so a response that trickles in takes longer, and then no bound on time holds at all.
- `LockWait` is the longest wait of one transaction in all. A `COMMIT` that meets a reader
  (the dashboard) may wait for the lock a second time; count it in. What the statements
  themselves take, and the checks of a candidate, is no time.
- Stalls of the event loop are counted while a request awaits its calls; how many there are
  is a matter of load, so `AnswersInTime` names their number, and no bound on it exists.
- One process at a time works on an output file; nothing in the scripts enforces it.
- What a call cost that was cancelled, or whose row was never written, is nowhere recorded,
  so `WithinPreflight` speaks of recorded costs.
- Text: extracted values, citations and prompts are what the checks ask of them.
- Sampling of audits is a free choice, as are the answers of providers and, in
  `Experiment`, the outcome of the gate.
- What DecisionSignals makes of NaN, and httpx of a client that outlives its event loop, is
  not in the source.
- A quality bound is a whole per cent, rounded down; the code rounds to six places. The
  monotonicity that `SampleJudgedFairly` states is that of the rounded figure.
- Two profile files with the same content are one. Who passes the same file to
  `merge_profiles` twice is refused by its duplicate keys, as two files with a common key are.

Not modelled:

- *Reports* (`build_report` in three scripts) and the *dashboard*: they read rows and lay out
  text, and nothing reads what they write.
- *Data generators*: one pass over literal data to one file, without a branch that depends on
  anything but that data; a model would be a copy.
- *Smoke test, schema export*: one-shot tools without state.
- *Configuration files*: the parsing of YAML, the refusal of duplicate keys in it, and the
  bounds of single fields are the library's; what follows from the fields is in
  `Configuration`.
- *Authentication* of the HTTP interface: a comparison of a header, without state.
- *HTTP* and JSON in the providers: `Providers` starts from the kind of reply; elsewhere the
  outcomes are free choices. *Fixture providers* give canned answers, which these include.

## 6. Plan

Done, in the order of importance: the queue and its workers, the request and its ledger,
the decisions, the experiment, the migrations, the pilots and the profiles made from them,
and what a configuration lets come up. What could still be added:

- A composition of `RequestFlow` and `AuditQueue` through `finish`: exactly the accepted
  requests that were sampled have a job.
