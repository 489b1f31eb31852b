-------------------------- MODULE CrossLayerWindow --------------------------
(* What a trial's telemetry window reports of the vLLM server and of the GPUs: *)
(* the data that src/vllm_tuner/profiling/session.py collects, one frame at a  *)
(* time, the summary it builds of the frames, and the verdict of the runner    *)
(* on that summary.  TelemetrySession has the control of the same session, its *)
(* locks, cancellation and files; here a frame is one step.                    *)
(*                                                                             *)
(* The server is one engine per rank, each on a device of its own.  The window *)
(* opens on counters that startup and warm-up have left anywhere; the server   *)
(* serves requests, may restart (all its counters start again from zero) and   *)
(* may not answer a scrape; a device may stop answering and the driver may not *)
(* be up yet.                                                                  *)
EXTENDS EngineMetrics, GpuMetrics

CONSTANTS Ranks,        \* engines, and the devices they run on
          Setups,       \* records [nvml, energy, explicit, names, omits, powerless]
          Warm,         \* what the warm-up may leave an engine with
          Prompts,      \* the prompt tokens of a request
          Watts,        \* the draw of a device
          MaxRequests,  \* bound: requests served in a behaviour
          MaxFrames,    \* bound: frames of the window, the final one included
          MaxFaults     \* bound: restarts, failed scrapes, drops of a device

(* An engine's histogram of the time to the first token (requests per bucket,  *)
(* not cumulated), its two token counters and its gauge.                       *)
Engines ==
  [first : [AllBounds -> Nat], prompt : Nat, generated : Nat, running : Nat]

ASSUME WindowAssumption ==
  /\ Ranks \subseteq Nat /\ Ranks # {} /\ IsFiniteSet(Ranks)
  /\ \A s \in Setups :
       /\ {s.nvml, s.energy, s.explicit} \subseteq BOOLEAN
       /\ s.names \subseteq {1, 2} /\ s.names # {}
       /\ s.omits \subseteq GaugeMetrics \cup CounterMetrics
       /\ s.powerless \subseteq Ranks
  /\ Warm \subseteq Engines /\ Prompts \subseteq Nat
  /\ {Watts, MaxRequests, MaxFrames, MaxFaults} \subseteq Nat

VARIABLES
  setup,     \* what the run collects (nvml, energy, explicit device ids), and
             \* what it finds: the positions in Aliases the server exports names
             \* under, the metrics it omits, the devices without a power sensor
  engine,    \* rank -> one of Engines
  driver,    \* whether nvmlInit would succeed
  answering, \* the devices whose sensors answer
  nvml,      \* NVMLSession: [initialized, handles, ids]
  frames,    \* TelemetrySession.frames, with the engine and GPU samples
  state,     \* TelemetrySession._state
  result,    \* TelemetrySession._result
  made,      \* history: what was served since the window opened
  drawn,     \* history: rank -> twice the joules its device drew while it was up
  faults     \* faults so far

vars == <<setup, engine, driver, answering, nvml, frames, state,
          result, made, drawn, faults>>

Zero ==
  [first |-> [b \in AllBounds |-> 0], prompt |-> 0, generated |-> 0, running |-> 0]
Nothing == [first |-> [b \in AllBounds |-> 0], prompt |-> 0, generated |-> 0]
NoResult == [built |-> FALSE]

(* --- the page of the server ------------------------------------------------ *)
Reading(r, metric) ==
  CASE metric = "num_requests_running" -> engine[r].running
    [] metric = "kv_cache_usage_perc" -> engine[r].running
    [] metric = "num_preemptions_total" -> 0
    [] metric = "prompt_tokens_total" -> engine[r].prompt
    [] metric = "generation_tokens_total" -> engine[r].generated

Sample(name, part, le, r, value) ==
  [name |-> name, part |-> part, le |-> le, engine |-> r, value |-> value]

(* Buckets are cumulative, as Prometheus exports them, and +Inf holds all. *)
Within(first, b) == SumFunctionOnSet(first, {a \in AllBounds : a <= b})
Bucket(r, b) == Within(engine[r].first, b)
Started(r) == Bucket(r, Inf)

Page ==
  UNION {{Sample(Aliases[m][i], "value", 0, r, Reading(r, m)) :
            m \in (GaugeMetrics \cup CounterMetrics) \ setup.omits, r \in Ranks}
         \cup {Sample(Aliases[Ttft][i], "bucket", b, r, Bucket(r, b)) :
                 b \in AllBounds, r \in Ranks}
         \cup {Sample(Aliases[Ttft][i], "count", 0, r, Started(r)) : r \in Ranks} :
         i \in setup.names}

(* --- frames ---------------------------------------------------------------- *)
Metrics(page) ==
  [m \in GaugeMetrics \cup CounterMetrics |-> Canonical(page, m)]

(* PrometheusCollector.collect: a scrape that fails is a snapshot that says so. *)
Snapshot(answers) ==
  IF answers THEN [ok |-> TRUE, metrics |-> Metrics(Page), ttft |-> HistogramValue(Page)]
  ELSE [ok |-> FALSE, metrics |-> Metrics({}), ttft |-> HistogramValue({})]

Memory(r) == 1 + engine[r].running

Opened_OnlyAtStart ==
  IF nvml.initialized \/ frames # <<>> THEN nvml
  ELSE IF driver THEN [initialized |-> TRUE, handles |-> Ranks, ids |-> Ranks]
  ELSE [nvml EXCEPT !.initialized = FALSE, !.handles = {}]

(* NVMLSession.open: it leaves nothing behind when it fails but the device ids. *)
Opened ==
  IF nvml.initialized THEN nvml
  ELSE IF driver THEN [initialized |-> TRUE, handles |-> Ranks, ids |-> Ranks]
  ELSE [nvml EXCEPT !.initialized = FALSE, !.handles = {}]

SampleDevice(session, r, at) ==
  IF r \notin session.handles \/ r \notin answering THEN UnavailableRow(r, at)
  ELSE [device |-> r, at |-> at, memory |-> Memory(r), busy |-> engine[r].running,
        watts |-> IF r \in setup.powerless THEN Missing ELSE Watts]

(* sample_once reads every known device; without a driver it still leaves a    *)
(* row per device that was asked for or once found.                            *)
SampleOnce(session, at) == {SampleDevice(session, r, at) : r \in session.ids}

Frame(answers, session, final) ==
  LET at == Len(frames) + 1
  IN  [at |-> at, engine |-> Snapshot(answers), final |-> final,
       gpu |-> IF setup.nvml THEN SampleOnce(session, at) ELSE {},
       \* history: what had been served, whether the driver and which devices
       \* answered
       made |-> made, driver |-> driver, up |-> answering]

GpuRows(all) == UNION {all[i].gpu : i \in DOMAIN all}

(* --- the summary ----------------------------------------------------------- *)
Gauge(snapshots, m) == Summary([i \in DOMAIN snapshots |-> snapshots[i].metrics[m]])
Counter(snapshots, m) == CounterDelta([i \in DOMAIN snapshots |-> snapshots[i].metrics[m]])

SummarizeEngine(snapshots) ==
  [samples |-> Len(snapshots),
   successful |-> Cardinality({i \in DOMAIN snapshots : snapshots[i].ok}),
   gauges |-> [m \in GaugeMetrics |-> Gauge(snapshots, m)],
   counters |-> [m \in CounterMetrics |-> Counter(snapshots, m)],
   ttft |-> HistogramDelta([i \in DOMAIN snapshots |-> snapshots[i].ttft])]

BuildResult(all, outputTokens) ==
  [built |-> TRUE, tokens |-> outputTokens,
   engine |-> SummarizeEngine([i \in DOMAIN all |-> all[i].engine]),
   gpu |-> SummarizeGpu(GpuRows(all), outputTokens)]

(* SLOTuneExperimentRunner._telemetry_evidence_errors, by the part it misses. *)
EngineErrors(e) ==
  {c \in {"samples", "successful", "coverage"} :
     \/ c = "samples" /\ e.samples < 2
     \/ c = "successful" /\ e.successful < 2
     \/ c = "coverage" /\ e.samples > 0 /\ e.successful * 10 < e.samples * 8}
  \cup {m \in GaugeMetrics : ~e.gauges[m].available}
  \cup {m \in CounterMetrics : ~e.counters[m].available}

GpuErrors(g) ==
  {c \in {"gpu_samples", "memory", "busy", "peak"} :
     \/ c = "gpu_samples" /\ g.samples < 2
     \/ c = "memory" /\ ~g.memory
     \/ c = "busy" /\ ~g.busy
     \/ c = "peak" /\ g.peakMemory = Missing}

EnergyErrors(g) ==
  {c \in {"power", "energy", "energy_per_token"} :
     \/ c = "power" /\ ~g.watts
     \/ c = "energy" /\ g.energy = Missing
     \/ c = "energy_per_token" /\ g.energyPerToken = Missing}

EvidenceErrors(r) ==
  EngineErrors(r.engine)
  \cup (IF setup.nvml THEN GpuErrors(r.gpu) ELSE {})
  \cup (IF setup.nvml /\ setup.energy THEN EnergyErrors(r.gpu) ELSE {})

(* --- steps ----------------------------------------------------------------- *)
(* The server is ready and warmed up (controller.py:443-450): its counters are *)
(* those of the warm-up, and of whatever it did before.                        *)
Init ==
  /\ setup \in Setups
  /\ engine \in [Ranks -> Warm]
  /\ driver \in BOOLEAN
  /\ answering = Ranks
  /\ nvml = [initialized |-> FALSE, handles |-> {},
             ids |-> IF setup.explicit THEN Ranks ELSE {}]
  /\ frames = <<>>
  /\ state = "created"
  /\ result = NoResult
  /\ made = Nothing
  /\ drawn = [r \in Ranks |-> 0]
  /\ faults = 0

(* The devices that answered at the last frame. *)
WereUp == IF frames = <<>> THEN {} ELSE frames[Len(frames)].up

Collect(answers, session, final) ==
  /\ Len(frames) < MaxFrames
  /\ final \/ Len(frames) < MaxFrames - 1
  /\ answers \/ faults < MaxFaults
  /\ faults' = IF answers THEN faults ELSE faults + 1
  /\ frames' = Append(frames, Frame(answers, session, final))
  /\ drawn' = [r \in Ranks |-> IF r \in WereUp \cap answering THEN drawn[r] + 2 * Watts
                               ELSE drawn[r]]

Start ==
  /\ state = "created"
  /\ \E answers \in BOOLEAN : Collect(answers, Opened, FALSE)
  /\ nvml' = IF setup.nvml THEN Opened ELSE nvml
  /\ state' = "running"
  /\ UNCHANGED <<setup, engine, driver, answering, result, made>>

Poll ==
  /\ state = "running"
  /\ \E answers \in BOOLEAN : Collect(answers, Opened, FALSE)
  /\ nvml' = IF setup.nvml THEN Opened ELSE nvml
  /\ UNCHANGED <<setup, engine, driver, answering, state, result, made>>

(* The last frame, then close, then the summary.  The client's output tokens   *)
(* are those of its valid requests, none when all of them failed.              *)
Stop ==
  /\ state = "running"
  /\ \E answers \in BOOLEAN : Collect(answers, Opened, TRUE)
  /\ \E outputTokens \in {0, made.generated} : result' = BuildResult(frames', outputTokens)
  /\ nvml' = IF setup.nvml THEN [Opened EXCEPT !.initialized = FALSE, !.handles = {}]
             ELSE nvml
  /\ state' = "stopped"
  /\ UNCHANGED <<setup, engine, driver, answering, made>>

(* --- the server and the hardware, outside the repository ------------------- *)
Prefill ==
  /\ state = "running"
  /\ Within(made.first, Inf) < MaxRequests
  /\ \E r \in Ranks, b \in AllBounds, tokens \in Prompts :
       /\ engine[r].running = 0
       /\ engine' = [engine EXCEPT ![r].first[b] = @ + 1, ![r].prompt = @ + tokens,
                                   ![r].running = 1]
       /\ made' = [made EXCEPT !.first[b] = @ + 1, !.prompt = @ + tokens]
  /\ UNCHANGED <<setup, driver, answering, nvml, frames, state, result,
                 drawn, faults>>

Decode ==
  /\ state = "running"
  /\ \E r \in Ranks :
       /\ engine[r].running = 1
       /\ engine' = [engine EXCEPT ![r].generated = @ + 1, ![r].running = 0]
  /\ made' = [made EXCEPT !.generated = @ + 1]
  /\ UNCHANGED <<setup, driver, answering, nvml, frames, state, result,
                 drawn, faults>>

Restart ==
  /\ state = "running"
  /\ faults < MaxFaults
  /\ engine # [r \in Ranks |-> Zero]
  /\ engine' = [r \in Ranks |-> Zero]
  /\ faults' = faults + 1
  /\ UNCHANGED <<setup, driver, answering, nvml, frames, state, result,
                 made, drawn>>

DropDevice ==
  /\ state = "running"
  /\ faults < MaxFaults
  /\ \E r \in answering : answering' = answering \ {r}
  /\ faults' = faults + 1
  /\ UNCHANGED <<setup, engine, driver, nvml, frames, state, result,
                 made, drawn>>

(* An outage shorter than the sampling interval is not one the samples show. *)
RecoverDevice ==
  /\ state = "running"
  /\ \E r \in Ranks \ (answering \cup WereUp) : answering' = answering \cup {r}
  /\ UNCHANGED <<setup, engine, driver, nvml, frames, state, result,
                 made, drawn, faults>>

DriverComesUp ==
  /\ state = "running"
  /\ ~driver
  /\ driver' = TRUE
  /\ UNCHANGED <<setup, engine, answering, nvml, frames, state, result,
                 made, drawn, faults>>

Next ==
  \/ Start \/ Poll \/ Stop
  \/ Prefill \/ Decode \/ Restart
  \/ DropDevice \/ RecoverDevice \/ DriverComesUp

Spec == Init /\ [][Next]_vars

TypeOK ==
  /\ state \in {"created", "running", "stopped"}
  /\ DOMAIN engine = Ranks /\ answering \subseteq Ranks
  /\ nvml.handles \subseteq nvml.ids /\ nvml.ids \subseteq Ranks
  /\ (state # "running" \/ ~nvml.initialized) => nvml.handles = {}
  /\ result.built <=> state = "stopped"
  /\ \A i \in DOMAIN frames : frames[i].final <=> (state = "stopped" /\ i = Len(frames))

(* A counter's delta never exceeds what the server served in the window: not   *)
(* what the warm-up had counted before it, whatever restarts and failed scrapes *)
(* lie in it; and without any it is exactly that, up to the last frame         *)
(* (counter_window_delta over canonicalize_vllm_metrics, with current and      *)
(* legacy names on one page).                                                  *)
CountersAreHonest ==
  \A m \in {"prompt_tokens_total", "generation_tokens_total"} :
    LET counter == Counter([i \in DOMAIN frames |-> frames[i].engine], m)
        served(of) == IF m = "prompt_tokens_total" THEN of.prompt ELSE of.generated
    IN  counter.available =>
          /\ counter.delta \in 0..served(made)
          /\ faults = 0 => counter.delta = served(frames[Len(frames)].made)

(* Nor does the TTFT histogram of a window hold a request that did not start   *)
(* in it, in any bucket: the count alone tells a restart from which every      *)
(* bucket starts again.  Without a fault it holds each of them where it belongs *)
(* (_histogram_window_delta).                                                  *)
HistogramIsHonest ==
  LET ttft == HistogramDelta([i \in DOMAIN frames |-> frames[i].engine.ttft])
      last == frames[Len(frames)].made
  IN  ttft.available =>
        /\ ttft.count \in 0..Within(made.first, Inf)
        /\ \A b \in DOMAIN ttft.buckets : ttft.buckets[b] \in 0..Within(made.first, b)
        /\ faults = 0 =>
             /\ ttft.count = Within(last.first, Inf)
             /\ ttft.buckets = [b \in AllBounds |-> Within(last.first, b)]

(* The reported percentiles of the window are in order and within the finite   *)
(* buckets, and a lower one is never known where a higher one is not, unless a  *)
(* restart went unseen (histogram_quantile over the buckets of the window).    *)
QuantilesOrdered ==
  LET ttft == HistogramDelta([i \in DOMAIN frames |-> frames[i].engine.ttft])
      p50 == Quantile(50, 100, ttft.buckets)
      p99 == Quantile(99, 100, ttft.buckets)
  IN  /\ p50 # Missing /\ p99 # Missing => p50 <= p99
      /\ {p50, p99} \ {Missing} \subseteq 0..(Max(Bounds) * Scale)
      /\ faults = 0 /\ p50 # Missing => p99 # Missing

(* The energy of a device never exceeds what it drew while it was up at both   *)
(* ends of an interval: an outage is not bridged (integrate_power_samples).    *)
EnergyIsDrawn ==
  \A r \in Ranks :
    LET energy == SummarizeDevice(GpuRows(frames), r).energy
    IN  energy # Missing => energy <= drawn[r]

(* A trial whose server and devices exposed everything and never failed is not *)
(* turned away for its telemetry, although the driver may come up as late as   *)
(* the last frame but one: every frame tries to open it again, and the rows of *)
(* the frames without it do no harm (_telemetry_evidence_errors over the       *)
(* result of the session, sample_once).  Energy per token needs tokens.        *)
HealthyTrialHasEvidence ==
  state = "stopped" /\ faults = 0 /\ setup.omits = {} /\ setup.powerless = {}
  /\ (setup.nvml => frames[Len(frames) - 1].driver)
  /\ (setup.nvml /\ setup.energy => result.tokens > 0)
    => EvidenceErrors(result) = {}

(* "A missing source is marked unavailable with an error; it is not            *)
(* zero-filled" (docs/METHODOLOGY.md:103-104): a total energy covers every     *)
(* device of the trial.                                                        *)
EnergyCoversDevices ==
  LET rows == GpuRows(frames)
  IN  TotalEnergy(rows) # Missing =>
        \A r \in Devices(rows) : SummarizeDevice(rows, r).energy # Missing
=============================================================================
