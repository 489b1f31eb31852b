# SLOTune in TLA+

SLOTune (`src/`) tunes vLLM on one GPU. An *experiment* fixes a request trace, an
SLO and a search space, runs many *trials* one after another (launch a server,
warm it up, measure it under telemetry, stop it, record it), searches with three
methods of equal budget, repeats the best candidates on a held-out trace and
seals everything it wrote. Beside it stands a deterministic simulator in which
fixed and adaptive token-budget policies are compared.

What makes it hard is not the arithmetic. A trial is an asyncio coroutine that
can be cancelled at each of its awaits, that holds a GPU through a process group
it does not control, that writes its verdicts to a disk which may be full, and
whose cleanup decides whether the next trial may start. The specifications here
are about that, and about the feedback between the simulator's policy, its
admission control and its step loop.

- [Inventory](#inventory)
- [Modules](#modules), and how they correspond to the code
- [Runs](#runs), with bounds and fairness
- [Proofs](#proofs)
- [What the runs refute](#what-the-runs-refute)
- [Not modelled](#not-modelled), [Plan](#plan)

Paths below are relative to `src/src/vllm_tuner/`.

## Inventory

| Component | State it keeps | Operations | What is hard | What makes it correct |
|---|---|---|---|---|
| Trial controller (`runtime/controller.py`, `runtime/state_machine.py`) | status, status.json, cleanup.json, summary, seal, pending cancellation, cleanup verdict | `run_trial` | cancellation at any await, once or repeatedly; cleanups that raise inside a shield; writes that fail inside handlers; a server that dies on its own | no result while the GPU is held; nothing selectable that was not measured; an aborting trial leaves a sealed failed summary; every trial ends |
| Managed server (`runtime/server.py`) | process, baseline and tracked compute PIDs, verdict, lock | `start`, `wait_ready`, `stop` | processes fork and exit between two reads of `/proc`, NVML and the port; NVML fails; stops overlap and are cancelled | a clean verdict means nothing is left; it is final; each stop ends |
| Telemetry session (`profiling/session.py`, `profiling/timeseries.py`) | lifecycle state, sampling task, frames, open handles, JSONL file, result | `start`, sampling loop, `stop` | a shielded stop of a cancelled caller against the sampler; failing writes; rollback of start | one final sample, last; a complete, unchanging result; everything closed; the file holds what the result holds |
| Token budget (`scheduling/token_budget.py`) | budget, pending direction and its count, admitted limit | `decide` (fixed, adaptive) | hysteresis over changing signals; an overdue prefill under decode pressure; caps below the floors | decisions within bounds; both stages share a step; no oscillation |
| Admission (`scheduling/admission.py`) | none: a function of candidates and limit | `decide`, `rank_*` | aging, priorities, swaps, protected victims and a shrinking limit together | the limit holds; nobody starves |
| Simulator (`scheduling/simulator.py`) | clock, remaining work, admitted set, preemption window | `run` | budget decided on the backlogs *before* admission; tokens lent between the stages | every step pays and pays within budget; every run completes |
| Search (`tuning/optimizer.py`) | trials and attempts per method | `run_all`, `run_method`, `repeat_candidates` | failures and replay per method; attempts bounded at five times the budget | equal budgets; the best is proven; an unsafe cleanup ends everything |
| Runner (`experiment/runner.py`) | manifest, warnings, root on disk | `_initialize_artifacts`, evaluators, `_finalize_trial_artifacts`, `_validate_candidates`, `_run_capacity`, `run` | crash and resume between any two writes; the experiment timeout; a finalizer that raises | a resumed experiment reports what an uninterrupted one would; the gate admits only complete, feasible repeats and holdouts |
| Artifact store (`experiment/artifacts.py`, `experiment/manifest.py`) | files, seals, attestation | save, ensure, seal, validate, attest | order of writes and seals; writes after a seal | what validates was not changed after its seal, and tells what was told to the search |
| Streaming client (`benchmarks/sse_client.py`, `runtime/controller.py:108-206`) | decoder buffer, locals of one response, tasks, semaphore | `feed`, `close`, `send_request`, `_run_fixed_trace_sse` | chunks cut anywhere; error, timeout and end of body in any order; a slot lost on one path | records depend on the bytes only; a success is whole; the run ends |
| Objective (`tuning/objective.py`, `benchmarks/metrics.py`) | none | `evaluate_constraints`, `compute_slo_goodput`, `aggregate` | goodput computed twice; missing samples | both agree; missing evidence never makes a trial feasible |
| Engine counters (`profiling/prometheus.py`, `profiling/timeseries.py`) | frames | `canonicalize_vllm_metrics`, `histogram_quantile`, window deltas | two names for one metric, several engines, restarts, failed scrapes | a delta never exceeds what happened |
| NVML session (`profiling/nvml_session.py`) | handles, known devices | `open`, `sample_once`, `close`, `summarize` | a late driver; sensors that fail for a while | energy is not invented |
| Workloads, configuration, CLI, reporting, baseline, official benchmark wrapper, failure taxonomy, the upstream tuner and launcher, scripts | files | — | sequential, or formatting | — |

How they interact. `SLOTuneExperimentRunner._run` gives the search an *evaluator*;
for each attempt it calls `TrialController.run_trial` (or replays a sealed trial)
and then finalizes the artifacts. `run_trial` awaits `ManagedVLLMServer`, the
benchmark and `TelemetrySession`; the last two and the server share nothing but
the server's HTTP port. `UnsafeCleanupError` and `CancelledError` pass through the
search to the caller; any other exception is a failed attempt. The simulator calls
the policy's `decide`, then the admission controller's, once in every step, and
feeds preemptions back to the policy as a signal.

## Modules

| Module | Models | Relation to the others |
|---|---|---|
| `TrialLease` | what one trial promises the search | refined by `TrialController` |
| `TrialController` | `run_trial` | |
| `ManagedServer` | the server object against the operating system | |
| `TelemetryWindow` | what a session promises the readers of its result | refined by `TelemetrySession` |
| `TelemetrySession` | the session: locks, tasks, files | |
| `TimeSeries`, `EngineMetrics`, `GpuMetrics` | reductions of gauges, counters, histograms, power | operators |
| `CrossLayerWindow` | the data of a session, the engines and devices it reads included | extends the three above |
| `SSEDecoder` | the decoder, byte by byte of what matters | operators |
| `Objective` | SLOs, goodput, p99, constraints; the benchmark's aggregate | operators |
| `RequestStream` | the requests of a trace against the engine | extends `SSEDecoder`, `Objective` |
| `TrialStore` | a trial directory: writers, seals, validators | operators |
| `CandidateGate` | candidates, repeats, holdouts, the best | operators |
| `ExperimentRunner` | an experiment over several boots | extends `TrialStore`, `CandidateGate` |
| `TokenBudget` | the policies, one action per `decide` | |
| `TokenBudgetPolicy` | a policy under arbitrary signals | extends `TokenBudget` |
| `Admission` | the admission controller | operators |
| `SchedulerSimulator` | the simulator | extends `TokenBudget`, `Admission` |
| `…Proofs` | theorems about the module of that name | |
| `MC…` | small instances for TLC | |

### TrialController

A coroutine runs alone between two awaits, so `pc` names either an await or the
synchronous *segment* between two of them. Each action is one segment, or the
outcome of one await; the server process, which runs on its own, may exit between
any two. `config` holds the two settings `run_trial` branches on. Files are what
later readers tell apart: the status in `status.json`, the verdict in
`cleanup.json`, the summary and whether it is sealed. Every write may raise if
`DiskFaults`; `server.stop` and `telemetry.stop` may raise if `CleanupFaults`.

Cancellation is a set. `requested` is `task.cancel()` not yet thrown; `deferred` is
the local variable of a running `_shield_to_completion`; `carried` is
`pending_cancellation` of the `finally` block; `inner` says that the shielded task
itself was cancelled, as the teardown of an event loop does. The server is seen
through its promise (`clean` only when it is gone), the session through its
lifecycle; the two modules below are about how far those promises are kept.

### ManagedServer

The machine is modelled with the object: `group` and `stray` processes, GPU
contexts, the owner of the port, a zombie leader, another tenant (`Foreign`). They
move between any two synchronous parts of the object's methods, and also between
the two passes of `_process_group_pids` (list `/proc`, then read each entry), which
are two steps of the model. `Procfs = FALSE` is the branch that asks `killpg`
instead. A deadline is nondeterministic: each round of a waiting loop may be the
last. `user` is the caller of `start` and `wait_ready`, `call[c]` a call of `stop`,
`step` the place inside `_stop_impl`, which runs under a lock. PIDs are never reused.

### TelemetrySession

`start` with its rollback, the task `cross-layer-telemetry` and any number of
`stop` calls, each with the caller and its shielded `_stop_impl` task apart, so that
a second cancellation of the caller can reach the task as it does in the code. A
frame is its kind. `JSONLWriter` is one of four states, of which `torn` (a file
object left behind by a `close` that raised) is the one that truncates the file.

### ExperimentRunner, TrialStore, CandidateGate

One process after another works on one experiment directory. `pc` is the phase of
the process that runs (`off` when there is none), `job` the trial it evaluates with
the stage it has reached, `told` what this boot knows of each phase. `dirs` and
`root` are the disk and survive. A boot after the first has `study.resume`; without
it the second one raises before it changes anything.

The stages of a job are the points at which the disk changes or a check can fail:
`ask` (the sampler has spoken), `run` (nothing to replay), `open` (params and first
status written), `measured` (terminal status, cleanup and raw files), `unsafe` or
`cancelled` (what raises through the search), `returned` (summary), `sealed`
(`ensure_trial_artifacts`), `demoted` (the finalizer's FAILED result, not sealed
yet). A crash may come between any two. The inside of `run_trial` is
`TrialController`'s; the two meet in the statuses and in `clean`. `ToldStatus`,
`Replayable`, `StrictError` and `JudgeReason` are the checks in the order of the
code, each abstracted to what can differ between two directories.

A checksum is a copy of what it was computed from, so a seal fits exactly the files
it was taken of. A trial's raw files are one value that says which run measured
them and how much they hold. `slips` remembers which of three accidents happened
that leave no trace on the disk: a raise after the trial was opened, a crash between
the first seal and the judgement, a crash before the inputs were saved. Properties
name the slips they do not survive.

Suggestions are a function of the method, the number of asks and, for TPE, of what
it was told: this is what the seeded samplers are, and it is what makes replay a
property. Told values are what a resume can diverge on. The lists that the gate works on
are sets of rows, because a trial is told apart and ordered by its number; a round of
the search is the set of methods it still has to run, and which comes first, like the
order of the jobs of a later phase, is one fixed order (`CHOOSE`), as the study's seed
and the candidates fix it in the code.

### SSEDecoder, Objective, RequestStream

A response is a sequence of symbols: `data:`, a payload or a part of one, CR, LF,
anything else, a byte that does not decode. It arrives in chunks of any length, and
all events of one chunk are one step, because the code does not await between them.
A task waits for its arrival, then for the semaphore, then streams; `slots` and
`queue` are the semaphore, whose waiters are served first come, first served.
`heard` is the history the framing properties compare with: `InOneGo(heard)` is what
one chunk would have given. `Payloads` is all that the data of an event can say to
`_consume_event`. `Objective` has the two
computations of goodput side by side, each in the terms of its own file.

### TimeSeries, EngineMetrics, GpuMetrics, CrossLayerWindow

Two engines on two devices serve requests. The trial warms its server up before it
starts the session (`runtime/controller.py:443-460`), so the window opens on engines
that have counted before: `Init` takes them from `Warm`, any set of engines. A request
(`Prefill`) adds one to a bucket of the TTFT histogram and the tokens of its prompt, one
of `Prompts`, to the prompt counter; `Decode` adds a token. Nothing ties the two counters
to the histogram, as nothing does in the program: after a restart one of them may fall
below its last reading and the other not. Every frame is a page of samples under the
names the server exports, and a row per device. Engines restart, scrapes fail, devices
come and go and the driver comes up late; `made` and `drawn` are histories of what really
happened since the window opened, and each frame remembers what `made`, the driver and
the devices were when it was taken. Times are frame numbers, energy is counted in half joules so that the
trapezoids stay whole. Restarts are of the whole server: were one engine among
several to restart alone, the fall of the sum would be read as a reset and the
survivors' lifetime totals counted again.

### TokenBudget, Admission, SchedulerSimulator

Ratios are numbers of `ShareUnits`, KV occupancy a number of `KvCapacity`, and time
is counted in fractions of a step, so that requests arrive between two steps.
`decide` is one action; what it returns is kept in `decision` so that properties
can speak of it, and `TokenBudget` keeps the last wishes as history. In
`SchedulerSimulator` one iteration of the loop is `DecideBudget`, `Admit`, `Decode`,
`Chunk` (repeated, for round-robin prefill) and `Record`; the two internal errors
the code raises are the states `stalled` and `overspent`. p99 latencies are
nondeterministic as soon as there is a sample, which includes every value the
code's interpolation can give and more.

Two observations on the way, which no document contradicts: the field
`minimum_prefill_progress` of `AdmissionConfig` is read by nothing; and one
max-wait swap keeps the preemption signal positive for a whole signal window, so a
single swap lowers the admitted limit several times.

## Runs

`tlc -config X.cfg M`; the passing runs take seconds to three or four minutes each on two workers.

| Run | Question | Bounds | Distinct states |
|---|---|---|---|
| `trial_faults` | `run_trial` under every fault: `SelectableIsMeasured`, `AbortedIsSealed`, `FinalSampleFirst`, `EventuallySettles`, refinement of the lease | all four configurations; up to three cancellations | 31,124 |
| `server_stop` | is a clean verdict right, with NVML failing and workers living on | leader, one worker, a foreign process, one stop | 421,814 |
| `server_turns` | overlapping and cancelled stops | leader, two stops, one cancelled task | 290,458 |
| `session_faults` | closing, completeness, the end of every stop, refinement of the window | two stops, three cancellations, two periodic frames, failing writes | 7,079 |
| `budget_adaptive` | the adaptive policy under all sequences of signals | hysteresis of three, caps below and above the floors | 12,745 |
| `simulator_fixed` | starvation: how long a request waits, and with one place how long it goes without service | all traces of three requests, one admitted place, two values for each attribute | 245,504 |
| `simulator_adaptive` | the feedback of policy, admission and loop: limits, steps that pay for the tokens they report, completion | four requests, two arrival times, two prompt lengths | 120,958 |
| `experiment` | crash, timeout, raise and resume at every point | two methods, one attempt each of two allowed, one repeat, one holdout, one capacity point, three boots, two troubles | 472,144 |
| `stream` | framing, truncation, errors, both goodputs, the end of the run | two requests sharing one slot, nine answers, cut anywhere | 62,405 |
| `window` | counters, histograms, quantiles, energy and evidence through restarts and outages | two engines, each warmed up with one request of four prompt tokens, two devices, two requests of three, three frames, two faults, two kinds of server | 284,316 |
| `session_full_disk`, `resume_unjudged` | violations, [below](#what-the-runs-refute) | the smallest that show them | |

What the properties of the newer runs say:

- `experiment`. `ReplayIsFaithful`: wherever a boot was cut off, the next one tells
  the search the same, as far as both got. `AttestedTellsOneStory`: a sealed root,
  its tables, its summary and its trial directories say the same.
  `BestIsProven`: the reported best has on disk every repeat and holdout, selectable,
  with its parameters. `SelectableWasJudged`: a selectable trial has its telemetry.
  `EqualBudgets`: methods leave the search with equally many measured trials.
  `AttestationBlockers`: only a raise, or a crash before the inputs were saved, leaves a
  root that cannot be sealed. `EveryStepAdvances`: no loop of a boot goes round
  without telling a trial.
- `stream`. `FramingIndependent`: what is read depends on the bytes and not on the
  chunks. `SuccessIsWhole`, `ItlIsPerToken`: what a success and a valid series of token
  times stand for. `GoodputsAgree`: `metrics.py` and `objective.py` count alike.
  `GoodputIsText`, `OomIsInfeasible`: what a request without samples, or an
  out-of-memory message in one response, does to the verdict. `RunEnds`.
- `window`. `CountersAreHonest`: never more than was served in the window, so nothing of
  the warm-up, and exactly that without faults. `HistogramIsHonest`: the same of every
  bucket of the TTFT histogram, whose resets are told by its own count.
  `QuantilesOrdered`. `EnergyIsDrawn`: outages are not bridged. That a device without a
  power sensor is left out of the total is shown by a
  [configuration that fails](#what-the-runs-refute), and no property of this run covers it.
  `HealthyTrialHasEvidence`: a trial in which nothing failed is not turned away, however
  late the driver came up, as long as two frames found it. A late driver is not a fault; energy
  per token is only asked for when there are tokens.

Why the bounds are enough. A third cancellation of a trial can only hit a place a
second one could (the shield absorbs any number; the set `cancel` is idempotent).
One worker suffices for a group that outlives its leader, leaves it or forks late;
two stops for one that waits, is served from the first verdict or follows a
cancelled one. Two periodic frames put one in the file before and one after a
failed write. Hysteresis of three distinguishes "the last" from "each of the last".
With a limit of three and four requests there is always somebody waiting, to swap
and to evict; two priorities whose difference exceeds what aging makes up in one
wait are in `simulator_fixed`, and steps with decode and prefill work at once in
`simulator_adaptive`. `MaxSteps` is below the need of some traces in
`simulator_fixed`, so that giving up is reached, and above it in
`simulator_adaptive`, where completion is checked.

Three boots and two troubles let an experiment be cut off, cut off again while it
recovers, and finish; every pair of accidents is tried at every pair of places. Two
attempts for a budget of one reach a method that is short, one that catches up and
one that is exhausted. Two requests and one slot make one wait for the other, on
each of its ways out. Three frames have a reset, a gap and a reading after it; two
engines show whether a sum is taken over series or over names. With a warm-up of four prompt
tokens and requests of three, a restart after which the same number of requests has
started again drops the prompt counter and leaves the count of the histogram where it was:
the two reductions see different resets of one restart.

The assumption to mind is that of `RunnerAssumption` and `GateAssumption`: they are
the ranges the configuration's validators enforce.

Deadlock is checked, except where the system may really stop: the simulator ends in
`done`, `limit` or an error, an experiment ends with its last boot, a benchmark and
a telemetry window end with their result.

### Fairness

- `TrialController`: weak fairness of the coroutine's own steps. Its awaits end:
  readiness, the benchmark and both stops have timeouts. Nothing is assumed of
  cancellations, of failures, or of the server.
- `ManagedServer`: weak fairness of the steps of `_stop_impl`, and strong fairness
  of *leaving* each waiting loop, because its deadline comes however often it goes
  round. Nothing is assumed of processes: they need not exit, and may ignore
  SIGTERM.
- `TelemetrySession`: weak fairness of every await (HTTP timeouts, a cancelled
  sampling task that ends). Periodic samples are not fair.
- `SchedulerSimulator`: a sequential loop, so weak fairness of `Next`.
- `RequestStream`: weak fairness of the tasks' own steps, of the clock and of reading.
  A response has a timeout, so that reading it comes to an end; nothing is assumed of
  errors or of the experiment timeout.
- `ExperimentRunner`, `CrossLayerWindow`: none. That a boot does not run for ever is
  the action property `EveryStepAdvances`: a step tells one more trial or goes forward
  in a fixed order of phases and stages.

## Proofs

`tlapm M.tla`; 60 theorems and the type invariants, for every value of the constants that satisfies the
modules' assumptions: any number of cancellations, stops, workers and frames, any
budgets and thresholds, any trace and any engine, any number of boots and crashes.

- **`TrialControllerProofs`**. `IInv` is the conjunction of what each phase may rely
  on: what the verdict says of the engine (`VerdictInv`), what has been measured
  (`EvidenceInv`), what a result stands for (`ResultInv`), when the session samples,
  where a cancellation is between request and report (`CancelInv`), what an aborting
  trial has on disk (`SealInv`), how it ended (`EndInv`). The safety properties talk
  of the end only; they are not inductive because what is true at the end was decided
  at some await, and these conjuncts say at which. One lemma per conjunct, one step
  per action. From it: `ReturnedIsClean`, `SelectedIsMeasured`, `AbortedSealed`,
  `UnsafeEndsSearch` (without disk faults), `CancelledEndsSearch` (without disk and
  cleanup faults), `LifecycleIsMonotone`, `FinalSamplePrecedesStop`,
  `VerifiedCleanupIsFinal`, `TypeCorrect`, and `KeepsLease`: the safety part of the
  refinement. What is left of a promise the code does not keep (see
  [below](#what-the-runs-refute)): as long as no cleanup raises,
  `ShieldKeepsCancellations`, whatever else fails, and `CancelledReturnsNothing`, a
  cancelled trial hands no result back even if its directory cannot be written.
- **`ManagedServerProofs`**. The heart is `ReadInv`: what `_stop_impl` read of the group
  stays true until its verdict. That needs `ExactProbe`, no fork during the cleanup
  or a probe by `killpg`, which is an assumption of `CleanVerdictIsRight`; the run
  `server_late_fork` shows that it is needed. `CleanVerdictSawGpuFree` and
  `VerifiedCleanupIsFinal` need no such assumption.
- **`TelemetrySessionProofs`**. The lock has one holder, and the sampling task lives
  only before that holder is past its join; from there: `StoppedHoldsNothing`,
  `ResultHasEveryFrame`, `ReturnsWithFinal`, `FileHasEveryFrame`,
  `FirstCancellationCompletes` (only a caller that already waits can take its task with
  it), and `KeepsWindow`:
  the refinement of `TelemetryWindow` (which has no fairness), entirely proved.
  `OneCancellationEachCompletes` says how far the docstring's promise is kept: in every
  behaviour without the action `StopCancelled`, which is the second cancellation of one
  caller, however many callers are cancelled once.
- **`TokenBudgetProofs`**. `PolicyInv` ties the pending count to the history of wishes.
  From it, for both policies and any signals: `DecisionsAreValid`,
  `StagesAlwaysShare` (two tokens or more), `ReservationIsHonoured`,
  `BudgetAlwaysRests`, `BudgetAlwaysMovesDeliberately`.
- **`SchedulerSimulatorProofs`**. The controller ranks by keys, and the simulator relies
  on how many a ranking yields: a strict order of a finite set gives every place to
  exactly one element (`RankIsOnto`), the keys are such orders because the position in
  the trace decides the last tie, so the first *n* are *n* as long as there are so
  many. From this `DecisionKeepsLimit` for one decision of the controller, and an
  inductive invariant for the loop: a limit that was lowered exceeds the admitted set by
  at most one step until `Admit`; from `Admit` to `Decode` the admitted set is not
  empty; and once the decode stage has run, either something was spent or the prefill
  stage has tokens and somebody to spend them on. Hence `StepsAlwaysPay` and
  `PreemptionsAlwaysBounded`, for any trace, policy configuration and limit.

  What the stages report as spent is compared with what the requests got by counting
  the tokens processed as a set: a decode stage adds one for each request it reports, a
  chunk its size (`EachGetsToken`, `OneGetsTokens`). `SpendInv` keeps both counts in step,
  so that a recorded step stands for at least one token and for no more than the largest
  budget. `RunLengthAlwaysFits` follows, the safety half of `RunCompletes`: only a
  trace of more tokens than `max_steps` can exceed `max_steps`.

  `NobodyStarves` is about many steps. The key of a waiting request puts whoever is
  overdue before whoever is not, and among the overdue orders by priority plus waiting
  time in units of `max_wait`. So an overdue request is passed over only by those that
  began to wait before it or so shortly after it that the priorities of the trace make
  up for it (the head start, `HeadStartCovers`): the set `Ahead`. `TurnInv` bounds the wait
  so far by a *patience*, `max_wait` plus the head start, and one step for each request
  that is not ahead any more. Once the patience is used up, whoever begins to wait is behind.
  A step in which it still waits admitted somebody ahead of it, by a swap if there was no
  free place (`SomebodyWentFirst`, `OverduePassedOnlyByRank`), and whoever gives its place up
  for that begins to wait anew, behind it. This needs swaps: the theorem assumes `AllowPreemption`
  (the default), since without them a place is kept for as long as its request is long.
  Where there is one place its holder is served in each step, which turns the bound on
  waiting into one on the time without service.
- **`RequestStreamProofs`**. The inductive part is conservation: a task is in the queue
  exactly while it waits for a slot and at most once, and free slots plus streaming
  requests are the concurrency (`TypeCorrect`), on success, every error, a task that
  raises and cancellation alike; and the aggregate is that of the records, which no
  longer change once they are gathered. `GoodputsAlwaysAgree` then is a lemma about
  the two computations, for any records, SLO and time scale. The second half is about
  the responses. The decoder, the joining of data lines and `_consume_event` are folds;
  `SequenceInduction` (proved from the well-foundedness of `<`, with sets where the
  library has operators) gives what a fold does with one element more and with two
  sequences. From it `FeedTwice`: two chunks, cut anywhere, are one, because what is
  left in the buffer has no line end in it. The invariant `RInv` says that the decoder
  of a streaming request is that of its bytes in one chunk, that its locals are the
  *same* up to times (`SameAll`: the times never decide what is read), and that the
  record of an ended request stands for such a reading, or for one that a failure of
  the connection cut short. `ReadingTells` is what a reading tells of its events: which
  one ended it, whether text came, which usage was the last. From these
  `FramingNeverMatters`, `SuccessIsAlwaysWhole`, `ItlIsAlwaysPerToken`,
  `GoodputIsAlwaysText` and `OomIsAlwaysInfeasible`, for answers of any length in any
  chunks.
- **`ExperimentRunnerProofs`**. `SelectableWasJudged` is about rows, rows come from
  replayed directories, and a directory is replayed because its seal fits. `IInv`
  therefore follows the evidence back: a *doubtful* seal, one on a COMPLETE result
  without its telemetry, is either stale (its files have been rewritten since), or on the directory
  of the trial in hand, whose next step judges it (`SealsJudged`), unless the process died
  in between, which `slips` records. `JobOK` ties the trial in hand to the phase and its
  directory. From it `MeasuredWasJudged`, for any crashes, timeouts, raises and
  resumes, and `BootsGoForward`. `BudgetsAreEqual` follows from `BInv`: a method enters
  a round only while it is short of its budget, and only once. `BestHasItsEvidence`
  needs `LInv` and `RInv`: a log names no trial twice, a measured row is on the disk
  under a seal that fits, and a phase that is over has left its table. What a resume
  tells is one argument, `OneLog`: there is a single log *L*, a function of what is
  on the disk and of the seeds, of which every boot so far has told a first part; a
  directory holds the row of *L* at its place or belongs to the trial that comes next
  in it (`LogOK`). The log grows by one when a trial is told for the first time and
  stays put when it is replayed. Hence `ResumesAreFaithful` and `StoryIsAttested`; with
  `AInv`, which says which inputs and summaries a boot finds, `OnlySlipsBlock`. These
  three assume `CollectNvml`: without it no trial stays COMPLETE (see
  [below](#what-the-runs-refute)) and a measured trial is run again.

- **`CrossLayerWindowProofs`**. Everything the window reports is a sum, so the first
  half is about sums: `SumFunction` is a fold, and what it does with one element more is
  proved from the well-foundedness of the proper subset relation on finite sets, with
  sets where the library has operators. On it rest `DeltaGrows` (a delta with one
  reading more), `BucketsGrow`, `EnergyGrows` and `NowIs` (a page with any names adds
  up to what the engines count). `QuantilesAreOrdered` is about the interpolation
  alone: within one bucket by the monotonicity of the quotient, across buckets because
  each result lies in its own. None of the five properties is inductive, as they speak
  of the frames taken so far and not of what the next one will read. `IInv` ties the
  two. `CountInv`: the delta so far and the engines' present counters together do not
  exceed what was served by more than the last reading, or, after a restart nobody has
  scraped yet, not at all. That disjunction is what makes a restart between two scrapes
  safe, and what the warm-up left is in the present counters and in the last reading alike, so
  that it cancels. `BucketInv` says the same of each
  bucket and of the count. It takes the disjunction once for all buckets and not for each,
  since the count alone decides whether the histogram was reset: either every bucket
  continues from its last reading (`Continued`) or every one started again (`Restarted`).
  `DriverInv` says that the driver stays up once a frame has found it. `EnergyInv` bounds the energy of each device by what it drew;
  `SnapshotInv` says which readings a frame has;
  `RowInv`, that a device has one row in each frame; `FaultlessInv` and
  `HealthyInv`, that without a fault every scrape answered, nothing was lost and every
  sensor was read. From it `CountersAreAlwaysHonest`,
  `HistogramIsAlwaysHonest`, `QuantilesAreAlwaysOrdered`, `EnergyIsAlwaysDrawn`,
  `HealthyTrialsHaveEvidence` and `WindowTypeCorrect`, for any engines, buckets, setups,
  restarts and outages, and windows of any length.

The proofs about the window changed its model in three places. The reductions of
`TimeSeries` indexed the sequence of readings left after the gaps, which an invariant
about frames cannot follow; they index the frames themselves now. The rows of a window
are a set, told apart by device and time. And one definition was wrong: the last part
of `EvidenceErrors`, the energy, was read as belonging to the `ELSE` before it, so that
no run looked at it; the proof of `HealthyTrialsHaveEvidence` had nothing to show there.

The proofs about the simulator changed its properties in three places. `NoStarvation`
bounded the time without service for any limit, on the evidence of a run with one place;
its proof would not go through for two, and the simulator itself shows why (see the
[observations](#what-the-runs-refute)). It now bounds the wait for any limit and the
time without service for one place. Its head start is taken from the priorities of the
trace at hand and not from all that a trace may have. And `StepsPay`, which only looked
at the two internal errors, now also compares the steps with the tokens processed.

Only model-checked: liveness (`EventuallySettles`, both `StopsEnd`, `RunCompletes`,
`RunEnds`, and with it the fairness of `TrialLease`), which is out of the prover's
reach. Every invariant and every other action property of the passing runs is stated
by a theorem.

## What the runs refute

- `session_full_disk`: a flush that fails twice leaves a writer that reopens the file with
  mode `"w"`; the records the docstring wants kept are erased.
- `resume_unjudged`: the finalizer seals a COMPLETE result before it judges its
  telemetry. If the process dies in between, the next boot replays the sealed result
  through checks that ask whether files hold data and not whether they suffice, and a
  trial that would have been demoted is told to the optimizer as COMPLETE.

The following hold of the model as well; their configurations are kept, and
`tlc -config X.cfg M` shows each as a counterexample.

| Configuration (module) | Fails | What the code does |
|---|---|---|
| `TrialController_shield` (`TrialController`) | `ShieldReportsCancellation` | `_shield_to_completion` loses a cancellation when the awaited cleanup raises; `runtime/controller.py:267` promises to "report cancellation later" |
| `ManagedServer_latefork` (`ManagedServer`) | `CleanIsReleased` | `/proc` is listed before the groups are read; a member that forks after the listing and exits before it is read hides its child; `runtime/server.py:99` speaks of "Auditable evidence that a managed server no longer owns resources." |
| `TelemetrySession_twice` (`TelemetrySession`) | `CancelledStopCompletes` | a second cancellation of one caller reaches the cleanup it shields; `profiling/session.py:299-301`: "If the caller is cancelled, collection still takes the final sample" |
| `RequestStream_zero` (`MCStream`) | `SuccessHasTokens` | an answer of zero tokens is a success; `docs/METHODOLOGY.md:33-34`: "zero totals are not accepted as credible evidence" |
| `CrossLayerWindow_powerless` (`MCWindow`) | `EnergyCoversDevices` | a device without power readings is left out of the total energy; `docs/METHODOLOGY.md:103-104`: "A missing source is marked unavailable with an error; it is not zero-filled." |
| `ExperimentRunner_diverge` (`MCExperiment`) | `ValidTrialIsReplayed` | after a raise, the resumed sampler asks for other parameters, the evaluator raises on the sealed directory and a valid trial becomes a failed attempt; `config/README.md:17`: "Resume replays validated immutable trial artifacts" |

Observations made on the way:

- `wait_ready` may return `True` for a leader that exited between the poll and the
  answer of whatever else listens on the port (`runtime/server.py:297-309`); and a start
  that fails on a port conflict can never be verified clean (`runtime/server.py:228`).
- A cap of one token gives every step to the prefill stage, although the comment at
  `scheduling/token_budget.py:128-130` makes it depend on urgency.
- With several places and a budget that does not serve them all, the time a request
  goes without service has no bound of this kind: it can be admitted, lose its place in
  a swap before a step has served it, and wait again from then
  (`scheduling/simulator.py:397-423`). Seven requests on three places with a budget of
  two tokens and two swaps a step left one without service for 70 time units, where no
  wait exceeds 24.
- With `telemetry.collect_nvml` off the summary counts no GPU sample, and `nvml.jsonl`
  has the one row that says so: the strict validation finds the counts to disagree, so
  that no trial of such an experiment stays COMPLETE. All runs collect NVML; the
  theorems about resumes assume it.
- `clean` implies that the GPU is free (`runtime/server.py:533`), so the finalizer's
  branch for a COMPLETE trial with an unverified cleanup is dead.
- `experiment-failure.json` is written into a root that may already be sealed
  (`experiment/runner.py:1001-1011`); the seal no longer fits.
- `docs/architecture/tuning-engine.md` describes candidates as deduplicated by
  configuration; `_top_candidates` does so per method (`experiment/runner.py:843-853`).

## Not modelled

- In modelled parts: reused PIDs; `PermissionError` of `killpg`; exceptions outside
  `Exception` other than `CancelledError`; an event loop torn down under the tasks of a
  telemetry session; a second `start` of one server or session object (no caller does
  that); payloads (prompts, reasons, logs); rounding of floats; JSON that is not
  well-formed and schema versions; the metrics and the ablation report of a finished
  simulation; the arithmetic of capacity rates; text formats (exposition, UUIDs).
- `reporting`, plotting, `scripts`, the command line: formatting of finished records.
- Configuration and validation: what it enforces is assumed of the constants.
- Workload generation: seeded data written once.
- The official benchmark wrapper: a subprocess whose outcome `TrialController` sees.
- The failure taxonomy: a table from exceptions to categories.
- The baseline script: sequential, without state of its own.
- The upstream tuner and launcher: a compatibility layer; its launches go to
  `ManagedVLLMServer`, which is modelled.

## Plan

1. Workload generation and the official benchmark wrapper.
2. A bound on the time without service for several places, for budgets that serve every
   admitted request.
3. The capacity search and the metrics of a finished simulation.
