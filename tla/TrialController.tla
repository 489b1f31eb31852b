--------------------------- MODULE TrialController ---------------------------
(***************************************************************************)
(* One call of TrialController.run_trial: the coroutine that launches a    *)
(* vLLM server, measures it, stops it and records the trial, together with *)
(* what can hit it from outside: cancellation of its task (the experiment  *)
(* timeout, Ctrl-C), the teardown of the event loop, the death of the      *)
(* server, and artifact writes that fail.                                  *)
(*                                                                         *)
(* The coroutine is single-threaded: only at an await can another task or  *)
(* a cancellation be seen.  pc therefore names either an await (Awaits) or *)
(* a synchronous segment between two awaits, during which only the server  *)
(* process, which runs on its own, can change.                             *)
(*                                                                         *)
(* server.start/wait_ready/stop and the telemetry session are seen through *)
(* what they promise; modules ManagedServer and TelemetrySession model     *)
(* how they keep (or break) those promises.                                *)
(***************************************************************************)
EXTENDS Naturals, FiniteSets

CONSTANTS
  DiskFaults,     \* whether a write into the trial directory may raise OSError
  CleanupFaults,  \* whether server.stop and telemetry.stop may raise
  MaxCancels      \* bound: how often the trial's task is cancelled

ASSUME ConstantsAssumption ==
  /\ DiskFaults \in BOOLEAN
  /\ CleanupFaults \in BOOLEAN
  /\ MaxCancels \in Nat

VARIABLES
  config,       \* the settings run_trial branches on
  pc, outcome,  \* the await or segment run_trial is in, and how it ended
  status,       \* TrialStateMachine.status
  \* the trial directory: the status in status.json, the verdict in cleanup.json,
  \* summary.json, and whether artifact-integrity.json seals them
  statusFile, cleanupFile, summary, seal,
  engine,       \* the server's processes, port and GPU memory
  telemetry,    \* the state of the TelemetrySession
  \* what is known of the measurement: the benchmark ended, its telemetry was
  \* kept, the objective found it feasible; "died" is history: the server exited
  \* before that
  evidence,
  \* the local cleanup_status and result, and how often server.stop was called
  cleanup, result, stops,
  \* cancellation of the task: requested, not yet thrown; deferred, noted by the
  \* running _shield_to_completion; carried, in pending_cancellation; inner, the
  \* shielded task itself was cancelled.  made: how many there were
  cancel, made

fileVars == <<statusFile, cleanupFile, summary, seal>>
vars == <<config, pc, outcome, status, fileVars, engine, telemetry, evidence,
          cleanup, result, stops, cancel, made>>

-----------------------------------------------------------------------------
(* Types.                                                                  *)

None == "none"

FAILURE_STATES == {"FAILED", "INFEASIBLE", "PRUNED"}
Terminal == FAILURE_STATES \cup {"COMPLETE"}
TrialStatus == {"CREATED", "STARTING", "READY", "WARMING_UP", "MEASURING",
                "COLLECTING", "STOPPING"} \cup Terminal

NORMAL_TRANSITIONS ==
  { <<"CREATED", "STARTING">>, <<"STARTING", "READY">>,
    <<"READY", "WARMING_UP">>, <<"WARMING_UP", "MEASURING">>,
    <<"MEASURING", "COLLECTING">>, <<"COLLECTING", "STOPPING">>,
    <<"STOPPING", "COMPLETE">> }

\* TrialStateMachine.transition raises InvalidTransitionError unless this holds.
\* As a guard it would block run_trial, which the deadlock check would report.
MayMove(from, to) ==
  /\ from \notin Terminal
  /\ <<from, to>> \in NORMAL_TRANSITIONS \/ to \in FAILURE_STATES

Verdicts == {None, "clean", "unclean"}
TrialResult == [status : {"COMPLETE", "INFEASIBLE", "FAILED"},
                constraints : {"satisfied", "violated"}, cleanup : Verdicts]
Result(s, c, v) == [status |-> s, constraints |-> c, cleanup |-> v]
NoResult == Result(None, "violated", None)

\* Awaits into which a cancellation is thrown, and those that
\* _shield_to_completion keeps going.
OpenAwaits == {"awaitReady", "warmup", "telemetryStart", "benchmark",
               "telemetryStop", "telemetryDrain"}
ShieldedAwaits == {"serverStop", "telemetryCleanup", "serverCleanup"}
Awaits == OpenAwaits \cup ShieldedAwaits

Segments == {"prepare", "launch", "enterWarmup", "enterMeasure", "collect",
             "score", "enterStop", "conclude", "onCancel", "onError",
             "finally", "record", "save", "seal", "done"}

FlagsOK ==
  /\ config \subseteq {"telemetry", "server_alive"}
  /\ evidence \subseteq {"benchmark", "window", "feasible", "died"}
  /\ cancel \subseteq {"requested", "deferred", "carried", "inner"}

PhasesOK ==
  /\ pc \in Awaits \cup Segments
  /\ outcome \in {"running", "returned", "cancelled", "unsafe", "error"}
  /\ status \in TrialStatus
  /\ statusFile \in TrialStatus \cup {None}
  /\ cleanupFile \in Verdicts
  \* exited: the leader is gone, its descendants, port or GPU memory may not be
  /\ engine \in {None, "live", "exited", "released"}
  /\ telemetry \in {None, "created", "running", "stopping", "stopped"}
  /\ cleanup \in Verdicts
  /\ seal \in {None, "sealed"}

ResultsOK == {result, summary} \subseteq TrialResult \cup {NoResult}

CountersOK == stops \in Nat /\ made \in 0..MaxCancels

TypeOK == FlagsOK /\ PhasesOK /\ ResultsOK /\ CountersOK

-----------------------------------------------------------------------------
Init ==
  /\ config \in SUBSET {"telemetry", "server_alive"}
  /\ pc = "prepare" /\ outcome = "running"
  /\ status = "CREATED"
  /\ statusFile = None /\ cleanupFile = None /\ summary = NoResult
  /\ seal = None
  /\ engine = None
  /\ telemetry = None
  /\ evidence = {}
  /\ cleanup = None /\ result = NoResult /\ stops = 0
  /\ cancel = {}
  /\ made = 0

-----------------------------------------------------------------------------
(* Helpers.                                                                *)

\* machine.transition(target): the status advances before save_transition
\* rewrites status.json, so a write that fails leaves the file behind.
TransitionOr(target, next, failed) ==
  /\ MayMove(status, target)
  /\ status' = target
  /\ \/ /\ statusFile' = target /\ UNCHANGED <<cleanupFile, summary, seal>>
        /\ pc' = next
     \/ /\ DiskFaults
        /\ UNCHANGED fileVars
        /\ pc' = failed

\* A transition in the try body, where an exception reaches `except Exception'.
Transition(target, next) == TransitionOr(target, next, "onError")

\* An exception is raised in the try body.
Raise ==
  /\ pc' = "onError"
  /\ UNCHANGED <<status, fileVars>>

\* The coroutine resumes normally from an open await.
Resumes(await) == pc = await /\ "requested" \notin cancel

\* The coroutine resumes from it with CancelledError.
Interrupted(await, next) ==
  /\ pc = await
  /\ "requested" \in cancel
  /\ cancel' = cancel \ {"requested"} /\ UNCHANGED made
  /\ pc' = next

\* _shield_to_completion returns or raises, and its local state is gone.
LeaveShield == cancel' = cancel \ {"deferred", "inner"} /\ UNCHANGED made
LeaveShieldCarrying ==
  /\ cancel' = (cancel \ {"deferred", "inner"})
                 \cup (IF "deferred" \in cancel THEN {"carried"} ELSE {})
  /\ UNCHANGED made

Settle(how) == outcome' = how /\ pc' = "done"

\* What server.stop can leave of the server when it does not report clean.
Leftovers == IF engine \in {None, "released"} THEN {engine}
                                              ELSE {engine, "exited", "released"}

\* server_status.running.
ServerAlive_Launched == engine # None
ServerAlive == engine = "live"

-----------------------------------------------------------------------------
(* The try body.                                                           *)

\* Artifact directory, params.json and the server object come before the try:
\* an exception there leaves run_trial at once.
Prepare ==
  /\ pc = "prepare"
  /\ \/ /\ Transition("STARTING", "launch")
        /\ UNCHANGED outcome
     \/ /\ DiskFaults
        /\ Settle("error")
        /\ UNCHANGED <<status, fileVars>>
  /\ UNCHANGED <<config, engine, telemetry, evidence, cleanup, stops, result, cancel, made>>

\* server.start never suspends.  It raises when the port is taken, the command
\* cannot be built or the process cannot be spawned.
Launch ==
  /\ pc = "launch"
  /\ \/ engine' = "live" /\ pc' = "awaitReady" /\ UNCHANGED <<status, fileVars>>
     \/ Raise /\ UNCHANGED engine
  /\ UNCHANGED <<config, telemetry, evidence, cleanup, stops, result, cancel, made, outcome>>

\* wait_ready answers; it may say ready although the process has just exited.
BecomeReady ==
  /\ Resumes("awaitReady")
  /\ Transition("READY", "enterWarmup") \/ Raise
  /\ UNCHANGED <<config, engine, telemetry, evidence, cleanup, stops, result, cancel, made, outcome>>

\* Loading the tokenizer or building the requests may raise.
EnterWarmup ==
  /\ pc = "enterWarmup"
  /\ Transition("WARMING_UP", "warmup") \/ Raise
  /\ UNCHANGED <<config, engine, telemetry, evidence, cleanup, stops, result, cancel, made, outcome>>

\* All warmup requests succeed, or the trial fails.
FinishWarmup ==
  /\ Resumes("warmup")
  /\ Transition("MEASURING", "enterMeasure") \/ Raise
  /\ UNCHANGED <<config, engine, telemetry, evidence, cleanup, stops, result, cancel, made, outcome>>

EnterMeasure ==
  /\ pc = "enterMeasure"
  /\ telemetry' = "created"
  /\ pc' = IF "telemetry" \in config THEN "telemetryStart" ELSE "benchmark"
  /\ UNCHANGED <<config, status, fileVars, engine, evidence, cleanup, stops, result, cancel, made, outcome>>

\* A failed start leaves the session created (the file cannot be opened),
\* running (NVML cannot be opened) or stopped (the first sample raised).
StartTelemetry ==
  /\ Resumes("telemetryStart")
  /\ \/ telemetry' = "running" /\ pc' = "benchmark" /\ UNCHANGED <<status, fileVars>>
     \/ telemetry' \in {"created", "running", "stopped"} /\ Raise
  /\ UNCHANGED <<config, engine, evidence, cleanup, stops, result, cancel, made, outcome>>

FinishBenchmark ==
  /\ Resumes("benchmark")
  /\ \/ /\ evidence' = evidence \cup {"benchmark"}
        /\ Transition("COLLECTING", "collect")
     \/ /\ UNCHANGED evidence
        /\ Raise
  /\ UNCHANGED <<config, engine, telemetry, cleanup, stops, result, cancel, made, outcome>>

Collect ==
  /\ pc = "collect"
  /\ pc' = IF "telemetry" \in config THEN "telemetryStop" ELSE "score"
  /\ UNCHANGED <<config, status, fileVars, engine, telemetry, evidence, cleanup,
                 stops, result, cancel, made, outcome>>

\* telemetry.stop: an exception while closing or summarising leaves "stopping".
StopTelemetry ==
  /\ Resumes("telemetryStop")
  /\ \/ /\ telemetry' = "stopped"
        /\ evidence' = evidence \cup {"window"}
        /\ pc' = "score"
        /\ UNCHANGED <<status, fileVars>>
     \/ /\ CleanupFaults
        /\ telemetry' = "stopping"
        /\ UNCHANGED evidence
        /\ Raise
  /\ UNCHANGED <<config, engine, cleanup, stops, result, cancel, made, outcome>>

\* Measurement window, constraints and objective: feasible only with a live
\* server when the configuration requires one.
Score ==
  /\ pc = "score"
  /\ \/ /\ evidence' \in {evidence, evidence \cup {"feasible"}}
        /\ "feasible" \in evidence' /\ "server_alive" \in config => ServerAlive
        /\ pc' = "enterStop"
        /\ UNCHANGED <<status, fileVars>>
     \/ Raise /\ UNCHANGED evidence
  /\ UNCHANGED <<config, engine, telemetry, cleanup, stops, result, cancel, made, outcome>>

EnterStop ==
  /\ pc = "enterStop"
  /\ Transition("STOPPING", "serverStop")
  /\ stops' = IF pc' = "serverStop" THEN stops + 1 ELSE stops
  /\ UNCHANGED <<config, engine, telemetry, evidence, cleanup, result, cancel, made, outcome>>

\* The shielded server.stop of the try body returns structured   A
\* cancellation noted meanwhile is raised now, before the verdict is looked at.
ServerStopped ==
  /\ pc = "serverStop"
  /\ "inner" \notin cancel
  /\ \/ cleanup' = "clean" /\ engine' = "released"
     \/ cleanup' = "unclean" /\ engine' \in Leftovers
  /\ pc' = IF "deferred" \in cancel
             THEN "onCancel"
             ELSE IF cleanup' = "clean" THEN "conclude" ELSE "onError"
  /\ LeaveShield
  /\ UNCHANGED <<config, status, fileVars, telemetry, evidence, stops, result, outcome>>

\* ... or raises: the exception passes through _shield_to_completion, which
\* forgets the cancellation it had noted.
ServerStopRaises ==
  /\ CleanupFaults
  /\ pc = "serverStop"
  /\ "inner" \notin cancel
  /\ engine' \in Leftovers
  /\ Raise
  /\ LeaveShield
  /\ UNCHANGED <<config, telemetry, evidence, cleanup, stops, result, outcome>>

\* ... or was cancelled itself by the teardown of the loop.
ServerStopAbandoned ==
  /\ pc = "serverStop"
  /\ "inner" \in cancel
  /\ engine' \in Leftovers
  /\ pc' = "onCancel"
  /\ LeaveShield
  /\ UNCHANGED <<config, status, fileVars, telemetry, evidence, cleanup, stops, result, outcome>>

Constraints == IF "feasible" \in evidence THEN "satisfied" ELSE "violated"

\* The terminal transition and the result of a trial that ran to its end.
Conclude ==
  /\ pc = "conclude"
  /\ LET terminal == IF "feasible" \in evidence THEN "COMPLETE" ELSE "INFEASIBLE"
     IN  /\ Transition(terminal, "finally")
         /\ result' = IF pc' = "finally"
                      THEN Result(terminal, Constraints, cleanup)
                      ELSE result
  /\ UNCHANGED <<config, engine, telemetry, evidence, cleanup, stops, cancel, made, outcome>>

-----------------------------------------------------------------------------
(* The except handlers.                                                    *)

FailedResult_KeepsFeasible == Result("FAILED", Constraints, cleanup)
FailedResult == Result("FAILED", "violated", cleanup)

\* Move the machine to FAILED unless it is terminal already and build the
\* result.  If status.json cannot be written the handler itself raises and
\* there is no result.
FailTrial ==
  IF status \in Terminal
    THEN /\ UNCHANGED <<status, fileVars>>
         /\ pc' = "finally"
         /\ result' = FailedResult
    ELSE /\ TransitionOr("FAILED", "finally", "finally")
         /\ result' = IF statusFile' = "FAILED" THEN FailedResult ELSE NoResult

HandleCancelled ==
  /\ pc = "onCancel"
  /\ FailTrial
  /\ cancel' = cancel \cup {"carried"} /\ UNCHANGED made
  /\ UNCHANGED <<config, engine, telemetry, evidence, cleanup, stops, outcome>>

\* Classifying the failure reads the server log first, which may raise too.
HandleException ==
  /\ pc = "onError"
  /\ \/ FailTrial
     \/ /\ DiskFaults
        /\ pc' = "finally"
        /\ UNCHANGED <<status, fileVars, result>>
  /\ UNCHANGED <<config, engine, telemetry, evidence, cleanup, stops, cancel, made, outcome>>

-----------------------------------------------------------------------------
(* The finally block.                                                      *)

\* The server is stopped unless an earlier stop was verified clean.
CleanUpServer ==
  IF cleanup = "clean"
    THEN pc' = "record" /\ UNCHANGED stops
    ELSE pc' = "serverCleanup" /\ stops' = stops + 1

EnterFinally_ServerFirst ==
  /\ pc = "finally"
  /\ CleanUpServer
  /\ UNCHANGED <<config, status, fileVars, engine, telemetry, evidence, cleanup,
                 result, cancel, made, outcome>>

EnterFinally ==
  /\ pc = "finally"
  /\ IF telemetry = "running"
       THEN pc' = "telemetryCleanup" /\ UNCHANGED stops
       ELSE CleanUpServer
  /\ UNCHANGED <<config, status, fileVars, engine, telemetry, evidence, cleanup,
                 result, cancel, made, outcome>>

\* The shielded telemetry.stop of the finally block.
TelemetryCleaned ==
  /\ pc = "telemetryCleanup"
  /\ "inner" \notin cancel
  /\ \/ /\ telemetry' = "stopped"
        /\ evidence' = evidence \cup {"window"}
        /\ LeaveShieldCarrying
     \/ /\ CleanupFaults
        /\ telemetry' = "stopping"
        /\ UNCHANGED evidence
        /\ LeaveShield
  /\ CleanUpServer
  /\ UNCHANGED <<config, status, fileVars, engine, cleanup, result, outcome>>

TelemetryCleanupAbandoned ==
  /\ pc = "telemetryCleanup"
  /\ "inner" \in cancel
  /\ telemetry' \in {"running", "stopping", "stopped"}
  /\ LeaveShieldCarrying
  /\ CleanUpServer
  /\ UNCHANGED <<config, status, fileVars, engine, evidence, cleanup, result, outcome>>

ServerCleaned_Retries ==
  /\ pc = "serverCleanup"
  /\ cleanup' = "unclean" /\ engine' \in {"exited", "live"}
  /\ LeaveShieldCarrying
  /\ UNCHANGED <<config, pc, status, fileVars, telemetry, evidence, stops, result, outcome>>

\* The shielded server.stop of the finally block.
ServerCleaned ==
  /\ pc = "serverCleanup"
  /\ "inner" \notin cancel
  /\ \/ cleanup' = "clean" /\ engine' = IF engine = None THEN None ELSE "released"
     \/ cleanup' = "unclean" /\ engine' \in Leftovers
  /\ LeaveShieldCarrying
  /\ pc' = "record"
  /\ UNCHANGED <<config, status, fileVars, telemetry, evidence, stops, result, outcome>>

\* An exception or the teardown of the loop: the evidence is a failed payload.
ServerCleanupFails ==
  /\ pc = "serverCleanup"
  /\ \/ "inner" \in cancel /\ LeaveShieldCarrying
     \/ "inner" \notin cancel /\ CleanupFaults /\ LeaveShield
  /\ cleanup' = "unclean"
  /\ engine' \in Leftovers
  /\ pc' = "record"
  /\ UNCHANGED <<config, status, fileVars, telemetry, evidence, stops, result, outcome>>

\* `assert result is not None' (NoResult fails it), the cleanup verdict goes into the result,
\* cleanup.json and the raw artifacts are written.
Record ==
  /\ pc = "record"
  /\ \/ /\ result = NoResult
        /\ Settle("error")
        /\ UNCHANGED <<result, fileVars>>
     \/ /\ result # NoResult
        /\ result' = Result(IF cleanup = "clean" THEN result.status ELSE "FAILED",
                            IF cleanup = "clean" THEN result.constraints ELSE "violated",
                            cleanup)
        /\ UNCHANGED <<statusFile, summary, seal>>
        /\ \/ /\ cleanupFile' = cleanup
              /\ pc' = "save"
              /\ UNCHANGED outcome
           \/ /\ DiskFaults
              /\ cleanupFile' \in {cleanupFile, cleanup}
              /\ Settle("error")
  /\ UNCHANGED <<config, status, engine, telemetry, evidence, cleanup, stops, cancel, made>>

-----------------------------------------------------------------------------
(* After the try statement.                                                *)

Unsafe_UnlessFailed == result.cleanup # "clean" /\ result.status # "FAILED"
Unsafe == result.cleanup # "clean"

Save ==
  /\ pc = "save"
  /\ \/ /\ summary' = result /\ UNCHANGED <<statusFile, cleanupFile, seal>>
        /\ IF "carried" \in cancel \/ Unsafe
             THEN pc' = "seal" /\ UNCHANGED outcome
             ELSE Settle("returned")
     \/ DiskFaults /\ Settle("error") /\ UNCHANGED fileVars
  /\ UNCHANGED <<config, status, engine, telemetry, evidence, cleanup, stops, result, cancel, made>>

\* ensure_trial_artifacts, then the pending cancellation wins over
\* UnsafeCleanupError.
Seal ==
  /\ pc = "seal"
  /\ \/ /\ seal' = "sealed" /\ UNCHANGED <<statusFile, cleanupFile, summary>>
        /\ Settle(IF "carried" \in cancel THEN "cancelled" ELSE "unsafe")
     \/ DiskFaults /\ Settle("error") /\ UNCHANGED fileVars
  /\ UNCHANGED <<config, status, engine, telemetry, evidence, cleanup, stops, result, cancel, made>>

-----------------------------------------------------------------------------
(* What happens to the coroutine from outside.                             *)

\* task.cancel().  At an open await the exception is thrown when the coroutine
\* next resumes; _shield_to_completion only takes note of it.
Cancel ==
  /\ made < MaxCancels
  /\ \/ /\ pc \in OpenAwaits
        /\ "requested" \notin cancel
        /\ cancel' = cancel \cup {"requested"}
     \/ /\ pc \in ShieldedAwaits
        /\ cancel' = cancel \cup {"deferred"}
  /\ made' = made + 1
  /\ UNCHANGED <<config, pc, status, fileVars, engine, telemetry, evidence, cleanup,
                 stops, result, outcome>>

\* asyncio.run tears the loop down and cancels every task, the shielded one too.
TearDown ==
  /\ made < MaxCancels
  /\ pc \in ShieldedAwaits
  /\ cancel' = cancel \cup {"deferred", "inner"}
  /\ made' = made + 1
  /\ UNCHANGED <<config, pc, status, fileVars, engine, telemetry, evidence, cleanup,
                 stops, result, outcome>>

\* CancelledError at wait_ready, the warmup or the benchmark.
InterruptWork ==
  /\ \E await \in {"awaitReady", "warmup", "benchmark"} : Interrupted(await, "onCancel")
  /\ UNCHANGED <<config, status, fileVars, engine, telemetry, evidence, cleanup,
                 stops, result, outcome>>

\* TelemetrySession.start closes what it opened; a second cancellation while
\* it closes leaves the session running.
InterruptTelemetryStart ==
  /\ Interrupted("telemetryStart", "onCancel")
  /\ telemetry' \in IF made > 1 THEN {"running", "stopped"} ELSE {"stopped"}
  /\ UNCHANGED <<config, status, fileVars, engine, evidence, cleanup, stops, result, outcome>>

\* TelemetrySession.stop keeps waiting for its own shielded task ...
InterruptTelemetryStop ==
  /\ Interrupted("telemetryStop", "telemetryDrain")
  /\ UNCHANGED <<config, status, fileVars, engine, telemetry, evidence, cleanup,
                 stops, result, outcome>>

\* ... and re-raises when that ends; its result is lost, and an exception of
\* the task replaces the cancellation.
DrainTelemetry ==
  /\ Resumes("telemetryDrain")
  /\ \/ telemetry' = "stopped" /\ pc' = "onCancel"
     \/ CleanupFaults /\ telemetry' = "stopping" /\ pc' = "onError"
  /\ UNCHANGED <<config, status, fileVars, engine, evidence, cleanup, stops, result,
                 cancel, made, outcome>>

\* A second cancellation cancels the task itself, wherever it is.
InterruptDrain ==
  /\ Interrupted("telemetryDrain", "onCancel")
  /\ telemetry' \in {"running", "stopping", "stopped"}
  /\ UNCHANGED <<config, status, fileVars, engine, evidence, cleanup, stops, result, outcome>>

BeforeScore == {"awaitReady", "enterWarmup", "warmup", "enterMeasure",
                "telemetryStart", "benchmark", "collect", "telemetryStop", "score"}

\* The vLLM leader crashes or is killed, at any moment.
EngineExits ==
  /\ engine = "live"
  /\ pc # "done"
  /\ engine' = "exited"
  /\ evidence' = IF pc \in BeforeScore THEN evidence \cup {"died"} ELSE evidence
  /\ UNCHANGED <<config, pc, status, fileVars, telemetry, cleanup, stops, result,
                 cancel, made, outcome>>

\* run_trial has ended; nothing else happens in this module.
Done == pc = "done" /\ UNCHANGED vars

-----------------------------------------------------------------------------
RunTrial ==
  \/ Prepare \/ Launch \/ BecomeReady \/ EnterWarmup \/ FinishWarmup
  \/ EnterMeasure \/ StartTelemetry \/ FinishBenchmark \/ Collect
  \/ StopTelemetry \/ Score \/ EnterStop
  \/ ServerStopped \/ ServerStopRaises \/ ServerStopAbandoned \/ Conclude
  \/ HandleCancelled \/ HandleException
  \/ EnterFinally \/ TelemetryCleaned \/ TelemetryCleanupAbandoned
  \/ ServerCleaned \/ ServerCleanupFails \/ Record \/ Save \/ Seal
  \/ InterruptWork \/ InterruptTelemetryStart \/ InterruptTelemetryStop
  \/ DrainTelemetry \/ InterruptDrain

Environment == Cancel \/ TearDown \/ EngineExits

Next == RunTrial \/ Environment \/ Done

\* Every await of run_trial ends: wait_ready, the requests, server.stop and the
\* scrapes have timeouts.  Cancellations and crashes need not happen.
Fairness == WF_vars(RunTrial)

Spec == Init /\ [][Next]_vars /\ Fairness
-----------------------------------------------------------------------------
(* The inductive invariant behind the theorems of TrialControllerProofs: what  *)
(* each part of run_trial may rely on because of the path that led there.      *)

ServerGone == engine \in {None, "released"}
Settled == pc = "done"

\* A clean verdict is only held from the stop that gave it on, and is true.
VerdictInv ==
  /\ cleanup = "clean" =>
       /\ ServerGone
       /\ pc \in {"conclude", "onCancel", "onError", "finally",
                  "telemetryCleanup", "record", "save", "seal", "done"}
  /\ pc = "conclude" => cleanup = "clean" /\ engine = "released"

\* What has been measured by the time the trial gets that far.
Measured ==
  /\ "benchmark" \in evidence
  /\ "telemetry" \in config => "window" \in evidence
  /\ "feasible" \in evidence /\ "server_alive" \in config => "died" \notin evidence
EvidenceInv ==
  /\ pc \in {"prepare", "launch"} => engine = None /\ "died" \notin evidence
  /\ pc \in BeforeScore \cup {"enterStop", "serverStop"} => engine # None
  /\ pc \in {"collect", "telemetryStop", "score"} => "benchmark" \in evidence
  /\ pc = "score" /\ "telemetry" \in config => "window" \in evidence
  /\ pc \in BeforeScore /\ engine = "live" => "died" \notin evidence
  /\ pc \in {"enterStop", "serverStop", "conclude"} => Measured

\* A result that is not FAILED was concluded after a clean stop, and only the
\* last result is ever saved.
ResultInv ==
  /\ result.status \in {"COMPLETE", "INFEASIBLE"} =>
       /\ cleanup = "clean" /\ engine = "released" /\ Measured
       /\ result.constraints = Constraints
       /\ pc \in {"finally", "telemetryCleanup", "record", "save", "seal", "done"}
  /\ pc \in {"save", "seal"} => result # NoResult /\ result.cleanup = cleanup
  /\ pc = "seal" => summary = result
  /\ summary # NoResult => summary = result /\ pc \in {"seal", "done"}

\* The telemetry session samples only between its start and its stop.
TelemetryInv ==
  /\ telemetry = "running" =>
       /\ pc \in {"benchmark", "collect", "telemetryStop", "telemetryDrain", "onCancel",
                  "onError", "finally", "telemetryCleanup", "serverCleanup",
                  "record", "save", "seal", "done"}
       /\ pc \in {"benchmark", "collect"} => "telemetry" \in config
       /\ result.status \notin {"COMPLETE", "INFEASIBLE"}
  /\ pc \in {"telemetryStart", "telemetryStop"} => "telemetry" \in config
  /\ pc = "telemetryCleanup" => telemetry = "running"

\* What a trial that is about to abort the search has on disk.
SealInv ==
  /\ pc \in {"save", "seal"} => cleanupFile = cleanup
  /\ "carried" \in cancel =>
       /\ result.status \notin {"COMPLETE", "INFEASIBLE"}
       /\ pc \in {"finally", "telemetryCleanup", "serverCleanup", "record", "save", "seal", "done"}
  /\ pc \in {"save", "seal"} /\ cleanup # "clean" => result.status = "FAILED"
  /\ result.status = "FAILED" => result.constraints = "violated"
  /\ pc = "seal" => "carried" \in cancel \/ cleanup # "clean"
  /\ outcome \in {"cancelled", "unsafe"} =>
       /\ seal = "sealed" /\ summary = result
       /\ result.status = "FAILED" /\ result.cleanup = cleanupFile

\* How the trial ended, and that nothing but a fault ends it with an exception
\* of its own.
EndInv ==
  /\ outcome = "running" <=> ~Settled
  /\ outcome = "returned" => cleanup = "clean"
  /\ ~DiskFaults =>
       /\ outcome # "error"
       /\ pc \in {"finally", "telemetryCleanup", "serverCleanup", "record", "save", "seal"}
            => result # NoResult

\* Where a cancellation is, between the moment it is made and the end.
CancelInv ==
  /\ "requested" \in cancel => pc \in OpenAwaits
  /\ "deferred" \in cancel => pc \in ShieldedAwaits
  /\ ~CleanupFaults /\ made # 0 =>
       \/ "requested" \in cancel \/ "deferred" \in cancel \/ "carried" \in cancel
       \/ pc \in {"telemetryDrain", "onCancel"}
       \/ outcome = "error"
  /\ "carried" \in cancel => outcome \notin {"returned", "unsafe"}

IInv ==
  /\ TypeOK /\ VerdictInv /\ EvidenceInv /\ ResultInv
  /\ TelemetryInv /\ EndInv /\ CancelInv /\ SealInv

-----------------------------------------------------------------------------
(* Safety.                                                                 *)

\* A trial that is handed back to the search as an ordinary result, whatever
\* failed on the way, has left no process, port or GPU memory behind: the next
\* trial may start (runtime/controller.py, finally block and lines 731-738).
ReturnLeavesNothing == outcome = "returned" => ServerGone

\* What the search may select was measured to the end on a server that was
\* alive until the objective was read and is gone now, with the telemetry of
\* its window (experiment/models.py TrialResult.selectable).
Selectable(r) == r.status = "COMPLETE" /\ r.constraints = "satisfied" /\ r.cleanup = "clean"
SelectableIsMeasured ==
  Selectable(summary) =>
    /\ "benchmark" \in evidence
    /\ "telemetry" \in config => "window" \in evidence
    /\ "server_alive" \in config => "died" \notin evidence
    /\ engine = "released"

\* The exceptions that bypass the runner's finalizer leave a sealed directory
\* whose summary is an infeasible FAILED trial and whose cleanup.json agrees
\* with it (runtime/controller.py:726-730).
AbortedIsSealed ==
  outcome \in {"cancelled", "unsafe"} =>
    /\ seal = "sealed"
    /\ summary.status = "FAILED" /\ summary.constraints = "violated"
    /\ summary.cleanup = cleanupFile

\* A cancelled trial ends by raising CancelledError, however often and wherever
\* it was cancelled: the experiment timeout really ends the experiment.
CancellationSurvives == Settled /\ made # 0 => outcome = "cancelled"

\* A server that could not be verified gone ends the search: no later trial
\* shares its GPU (UnsafeCleanupError, runtime/controller.py:733-737).
UnsafeIsFatal == Settled /\ ~ServerGone => outcome \in {"unsafe", "cancelled"}

-----------------------------------------------------------------------------
(* Action properties.                                                      *)

\* No server.stop begins while the telemetry session still samples: the final
\* sample precedes the stop (docs/METHODOLOGY.md:52), unless the event loop is
\* torn down under the telemetry cleanup itself.
FinalSampleFirst ==
  [][stops' > stops /\ "inner" \notin cancel => telemetry' # "running"]_vars

\* The lifecycle never skips or reverses a phase and is over once terminal;
\* status.json never runs ahead of it (runtime/state_machine.py:26-68).
LifecycleMonotone ==
  [][/\ status' # status => MayMove(status, status')
     /\ statusFile' # statusFile => statusFile' = status']_vars

\* A verified cleanup is final: it is not revised and no further server.stop is
\* called, so a recycled process group id is never signalled after it.
CleanIsFinal ==
  [][cleanup = "clean" => cleanup' = "clean" /\ stops' = stops /\ engine' = engine]_vars

\* A cancellation that reaches the coroutine while a cleanup runs shielded is
\* reported when the cleanup ends (runtime/controller.py:267, "Finish cleanup
\* despite caller cancellation and report cancellation later.").
ShieldReportsCancellation ==
  []["deferred" \in cancel /\ pc \in ShieldedAwaits /\ pc' # pc
       => pc' = "onCancel" \/ "carried" \in cancel']_vars

-----------------------------------------------------------------------------
(* Liveness.                                                               *)

\* Every run of a trial ends.
EventuallySettles == <>Settled

-----------------------------------------------------------------------------
(* What the trial promises the search: module TrialLease.  The GPU is held     *)
(* from the launch until a verified stop or until the last process has gone;   *)
(* cancellation and UnsafeCleanupError abort the search.                       *)

LeaseGpu == IF engine = None THEN "unused"
            ELSE IF engine = "released" THEN "free" ELSE "held"
LeaseVerdict == IF outcome = "running" THEN "open"
                ELSE IF outcome = "returned" THEN "returned"
                ELSE IF outcome = "error" THEN "failed" ELSE "aborted"

Lease == INSTANCE TrialLease WITH
           MayFail <- DiskFaults, gpu <- LeaseGpu, verdict <- LeaseVerdict

\* run_trial keeps the promise of TrialLease, its fairness included: a result
\* is handed back only when the GPU is free, and every trial ends
\* (runtime/controller.py:384-738).
ImplementsLease == Lease!Spec

=============================================================================
