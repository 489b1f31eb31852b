-------------------------- MODULE ExperimentRunner --------------------------
(***************************************************************************)
(* SLOTuneExperimentRunner of experiment/runner.py with the search loop of *)
(* tuning/optimizer.py and the artifact root of experiment/artifacts.py:   *)
(* one experiment over several boots of the process, each of which searches*)
(* repeats the candidates, runs the holdouts and the capacity sweep,       *)
(* reports, and attests the root.  A boot after the first has study.resume *)
(* (without it initialize raises before anything changes) and replays what *)
(* it can from the disk.                                                   *)
(*                                                                         *)
(* A step may be cut off by a crash, a trial by the experiment timeout, and*)
(* a write may raise; what has been written stays.  The inside of run_trial*)
(* is TrialController's; here it is the order in which its files appear.   *)
(***************************************************************************)
EXTENDS TrialStore, CandidateGate

CONSTANTS
  Methods,        \* study.methods, a sequence
  Budget,         \* study.trial_budget
  AttemptFactor,  \* max_failed_attempt_factor
  CapacityPoints, \* the capacity jobs: one per rate and repeat
  Outcomes,       \* [status, evidence, clean] that run_trial may measure
  Values,         \* goodputs a measured trial may have
  MaxBoots,       \* bound: boots of the process
  MaxTroubles     \* bound: crashes, timeouts, raises and outcomes not Good

Good == [status |-> "COMPLETE", evidence |-> "full", clean |-> "yes"]

MethodSet == {Methods[i] : i \in DOMAIN Methods}
Phases == {"search", "repeat", "holdout", "capacity"}
MaxAttempts == IF Budget > Budget * AttemptFactor THEN Budget
               ELSE Budget * AttemptFactor

ASSUME RunnerAssumption ==
  /\ MethodSet \subseteq {"default", "random", "tpe"}
  /\ Cardinality(MethodSet) = Len(Methods)
  /\ Budget \in Nat \ {0} /\ AttemptFactor \in Nat \ {0}
  /\ CapacityPoints \in Nat /\ Values \subseteq Nat
  /\ MaxBoots \in Nat /\ MaxTroubles \in Nat
  /\ Good \in Outcomes
  /\ Outcomes \subseteq [status : {"COMPLETE", "INFEASIBLE", "FAILED"},
                         evidence : {"marker", "dark", "gaps", "full"},
                         clean : {"yes", "no"}]

\* <<phase, method, number, repeat>>, as the trial ids are built.
TrialIds ==
  {<<"search", m, k, 0>> : m \in MethodSet, k \in 0..(MaxAttempts - 1)}
    \cup {<<p, m, k, r>> : p \in {"repeat", "holdout"}, m \in MethodSet,
                           k \in 0..(MaxAttempts - 1), r \in 1..RepeatCount}
    \cup {<<"capacity", "default", 0, r>> : r \in 1..CapacityPoints}

VARIABLES
  pc,       \* what the process does; "off" when there is none
  verdict,  \* how the last boot ended
  boots,    \* how many boots there were
  dirs,     \* dirs[id]: the trial directory
  root,     \* the other files of the experiment, and experiment-integrity.json
  told,     \* what this boot knows of each trial, by phase and method
  round,    \* the methods still to run in this round of the search
  notes,    \* _artifact_warnings: the trials they mention
  job,      \* the trial being evaluated
  runs,     \* how many times run_trial measured something
  troubles, \* how much went wrong
  past,     \* told, as the previous boot left it
  slips     \* what went wrong and is not on the disk

process == <<pc, told, round, notes, job>>
disk == <<dirs, root>>
history == <<verdict, boots, runs, troubles, past, slips>>
vars == <<process, disk, history>>

NoJob == [id |-> <<>>, params |-> NoParams, stage |-> "none", res |-> NoResult]

Nothing == [p \in Phases |-> <<>>]
NoManifest == [saved |-> FALSE, warnings |-> {}]
NoSummary == [told |-> Nothing, searchBest |-> {}, best |-> {},
              warnings |-> {}, saved |-> FALSE]
NoViews == [summary |-> NoSummary, anchors |-> <<>>]
EmptyRoot ==
  [made |-> FALSE, manifest |-> NoManifest, inputs |-> FALSE,
   tables |-> Nothing, report |-> {}, summary |-> NoSummary, views |-> NoViews,
   failure |-> FALSE]
NoImage == [files |-> EmptyRoot, anchors |-> <<>>]

-----------------------------------------------------------------------------
(* Derived from the state *)

Existing == {id \in TrialIds : dirs[id].files.made}

\* Trial directories count in the root's checksums by their anchor only.
Anchors == [id \in Existing |-> dirs[id].seal]

Image == [files |-> root.files, anchors |-> Anchors]

\* validate_experiment_integrity
RootIntact == root.seal = Image /\ \A id \in Existing : Intact(dirs[id])
Sealed == root.seal # NoImage

\* Of a search log s: the trials of a method, how many there were and how many
\* of them count for the budget.
RowsOf(s) == {s[i] : i \in DOMAIN s}
OfMethod(s, m) == {t \in RowsOf(s) : t.method = m}
Attempts(s, m) == Cardinality({i \in DOMAIN s : s[i].method = m})

Evaluated_Attempts(s, m) == Attempts(s, m)
Evaluated(s, m) ==
  Cardinality({i \in DOMAIN s :
    s[i].method = m /\ s[i].status \in {"COMPLETE", "INFEASIBLE"}})
Short(s, m) == Evaluated(s, m) < Budget

\* The methods still to run in this round, and the first of them in an order the
\* seed fixes.
Round(s, left) ==
  IF left # {} THEN left ELSE {m \in MethodSet : Short(s, m)}
NextMethod(left) == CHOOSE m \in left : TRUE

\* What the sampler suggests: a function of the seed, the number of asks and,
\* for TPE, of the values it was told (failed trials tell it nothing).
Suggest(s, m) ==
  LET known == {t \in OfMethod(s, m) : t.status \in {"COMPLETE", "INFEASIBLE"}}
  IN CASE m = "default" -> <<"defaults">>
       [] m = "random"  -> <<m, Attempts(s, m)>>
       [] m = "tpe"     -> <<m, Attempts(s, m),
                             {<<t.number, t.status, t.value>> : t \in known}>>

Candidates(s) == TopCandidates(RowsOf(s))

\* The jobs of repeat_candidates: every candidate, every repeat.
CandidateJobs(s, phase) ==
  {[id |-> <<phase, c.method, c.number, r>>, params |-> c.params] :
     c \in Candidates(s), r \in 1..RepeatCount}

Jobs(s, phase) ==
  CASE phase = "repeat"   -> CandidateJobs(s, phase)
    [] phase = "holdout"  -> IF HoldoutEnabled THEN CandidateJobs(s, phase) ELSE {}
    [] phase = "capacity" ->
         {[id |-> <<phase, "default", 0, k>>, params |-> <<"defaults">>] :
            k \in 1..CapacityPoints}

\* Those of them that are not in a log of the phase, and the first of them.
JobsLeft(s, phase, log) ==
  {j \in Jobs(s, phase) : \A t \in RowsOf(log) : t.id # j.id}
FirstJob(left) == CHOOSE j \in left : TRUE

\* The status a search or repeat trial gets from the result of its evaluation.
ToldStatus(r) ==
  IF Selectable(r) THEN "COMPLETE"
  ELSE IF r.status = "FAILED" THEN "FAILED" ELSE "INFEASIBLE"

Row(r, status) ==
  [id |-> job.id, method |-> job.id[2], number |-> job.id[3], of |-> job.id[3],
   params |-> job.params, status |-> status, result |-> r,
   value |-> IF status \in {"COMPLETE", "INFEASIBLE"} THEN r.value ELSE 0]

-----------------------------------------------------------------------------
Init ==
  /\ pc = "off" /\ verdict = "none" /\ boots = 0
  /\ dirs = [id \in TrialIds |-> EmptyDirectory]
  /\ root = [files |-> EmptyRoot, seal |-> NoImage]
  /\ told = Nothing /\ round = {} /\ notes = {} /\ job = NoJob
  /\ runs = 0 /\ troubles = 0 /\ past = Nothing /\ slips = {}

\* The process ends, by returning or by an exception.
Stop(how) ==
  /\ pc' = "off" /\ verdict' = how /\ job' = NoJob
  /\ UNCHANGED <<told, round, notes>>

Write(files) == root' = [root EXCEPT !.files = files]

Boot ==
  /\ pc = "off" /\ boots < MaxBoots
  /\ pc' = "init" /\ boots' = boots + 1
  /\ past' = told /\ told' = Nothing /\ round' = {} /\ notes' = {}
  /\ UNCHANGED <<job, disk, verdict, runs, troubles, slips>>

\* _initialize_artifacts on a directory that is not there.
CreateRoot ==
  /\ pc = "init" /\ ~root.files.made
  /\ Write([root.files EXCEPT !.made = TRUE])
  /\ pc' = "manifest"
  /\ UNCHANGED <<told, round, notes, job, dirs, history>>

SaveManifest ==
  /\ pc = "manifest"
  /\ Write([root.files EXCEPT !.manifest.saved = TRUE])
  /\ pc' = "inputs"
  /\ UNCHANGED <<told, round, notes, job, dirs, history>>

\* experiment.yaml, the two traces with their checksums, the environment.
SaveInputs ==
  /\ pc = "inputs"
  /\ Write([root.files EXCEPT !.inputs = TRUE])
  /\ pc' = "search"
  /\ UNCHANGED <<told, round, notes, job, dirs, history>>

\* _initialize_artifacts on a directory with a manifest.
Reopen ==
  /\ pc = "init" /\ root.files.manifest.saved
  /\ Sealed => RootIntact
  /\ pc' = "search"
  /\ UNCHANGED <<told, round, notes, job, disk, history>>

\* It has no manifest, or its seal no longer fits.
RefuseRoot ==
  /\ pc = "init" /\ root.files.made
  /\ \/ ~root.files.manifest.saved /\ Stop("no_manifest")
     \/ root.files.manifest.saved /\ Sealed /\ ~RootIntact /\ Stop("root_changed")
  /\ UNCHANGED <<disk, boots, runs, troubles, past, slips>>

\* validate_resume_manifest: the configuration, the model, the source or the
\* environment is not what the manifest says.
RefuseIdentity ==
  /\ pc = "init" /\ root.files.manifest.saved
  /\ Stop("incompatible")
  /\ UNCHANGED <<disk, boots, runs, troubles, past, slips>>

-----------------------------------------------------------------------------
(* Which trial is next *)

Ask(id, params) == job' = [NoJob EXCEPT !.id = id, !.params = params, !.stage = "ask"]

AskSearch ==
  /\ pc = "search" /\ job = NoJob
  /\ LET s == told["search"]
         left == Round(s, round)
         m == NextMethod(left) IN
     /\ left # {} /\ Attempts(s, m) < MaxAttempts
     /\ Ask(<<"search", m, Attempts(s, m), 0>>, Suggest(s, m))
     /\ round' = left
  /\ UNCHANGED <<pc, told, notes, disk, history>>

\* The method has used up its attempts: RuntimeError.
Exhausted ==
  /\ pc = "search" /\ job = NoJob
  /\ LET s == told["search"]
         left == Round(s, round) IN
     left # {} /\ Attempts(s, NextMethod(left)) >= MaxAttempts
  /\ Stop("exhausted")
  /\ UNCHANGED <<disk, boots, runs, troubles, past, slips>>

Left(phase) == JobsLeft(told["search"], phase, told[phase])

NextJob(phase) ==
  /\ pc = phase /\ job = NoJob /\ Left(phase) # {}
  /\ Ask(FirstJob(Left(phase)).id, FirstJob(Left(phase)).params)
  /\ UNCHANGED <<pc, told, round, notes>>

AskRepeat ==
  /\ NextJob("repeat") \/ NextJob("holdout")
  /\ UNCHANGED <<disk, history>>

\* The sweep writes the trace of the point into its directory first.
AskCapacity ==
  /\ NextJob("capacity")
  /\ dirs' = [dirs EXCEPT ![job'.id].files.made = TRUE]
  /\ UNCHANGED <<root, history>>

NextPhase ==
  [search |-> "repeat", repeat |-> "holdout", holdout |-> "capacity",
   capacity |-> "report"]

\* The phase is over and its table is saved.
EndPhase ==
  /\ pc \in Phases /\ job = NoJob
  /\ IF pc = "search" THEN Round(told["search"], round) = {} ELSE Left(pc) = {}
  /\ Write([root.files EXCEPT !.tables[pc] = told[pc]])
  /\ pc' = NextPhase[pc]
  /\ UNCHANGED <<told, round, notes, job, dirs, history>>

-----------------------------------------------------------------------------
(* One evaluation *)

Deliver(r, status) ==
  /\ told' = [told EXCEPT ![pc] = Append(@, Row(r, status))]
  /\ round' = IF pc = "search" THEN round \ {job.id[2]} ELSE round
  /\ job' = NoJob
  /\ UNCHANGED <<pc, verdict>>

DeliverException_Retries ==
  job' = [job EXCEPT !.stage = "ask"] /\ UNCHANGED <<pc, told, round, verdict>>

\* An exception the search records as a failed attempt without a result.
DeliverException == Deliver(NoResult, "FAILED")

\* An exception outside run_trial: the capacity sweep does not catch it.
Uncaught ==
  IF pc = "capacity" THEN Stop("uncaught")
  ELSE DeliverException /\ UNCHANGED notes

\* What the capacity sweep makes of an exception of run_trial.
Synthetic(p) == [NoResult EXCEPT !.status = "FAILED", !.params = p,
                                 !.reason = "synthetic"]

Stage(s) == job' = [job EXCEPT !.stage = s] /\ UNCHANGED <<pc, told, round, verdict>>

Files == dirs[job.id].files
WriteTrial(f) == dirs' = [dirs EXCEPT ![job.id].files = f]

\* _load_cached_trial
LoadCached ==
  /\ job.stage = "ask"
  /\ LET d == dirs[job.id]
         cached == d.files.summary IN
     \/ /\ cached = NoResult /\ Stage("run") /\ UNCHANGED notes
     \/ /\ cached # NoResult /\ cached.params # job.params   \* ValueError
        /\ Uncaught
     \/ /\ cached # NoResult /\ cached.params = job.params /\ ~Replayable(d)
        /\ Stage("run") /\ notes' = notes \cup {job.id}
     \/ /\ cached.params = job.params /\ Replayable(d) /\ UNCHANGED notes
        /\ IF pc = "capacity"
             THEN /\ job' = [job EXCEPT !.stage = "returned", !.res = cached]
                  /\ UNCHANGED <<pc, told, round, verdict>>
             ELSE Deliver(cached, ToldStatus(cached))
  /\ UNCHANGED <<disk, boots, runs, troubles, past, slips>>

\* run_trial makes the directory, params.json and the first status.json.
OpenTrial ==
  /\ job.stage = "run" /\ Stage("open")
  /\ WriteTrial(Opened(Files, job.params))
  /\ UNCHANGED <<notes, root, boots, runs, troubles, past, slips>>

Trouble == troubles < MaxTroubles /\ troubles' = troubles + 1

ResultOf(o, v, n) ==
  [NoResult EXCEPT !.status = o.status, !.params = job.params, !.run = n,
                   !.value = IF o.status = "FAILED" THEN 0 ELSE v,
                   !.evidence = o.evidence, !.clean = o.clean,
                   !.reason = IF o.status = "FAILED" THEN "run" ELSE "none"]

\* The trial ends: terminal status, cleanup.json and the raw files.  A cleanup
\* that could not be verified, like a cancellation, will not return to the
\* finalizer.
MeasureTrial(o, v) ==
  /\ job.stage = "open"
  /\ IF o = Good THEN UNCHANGED troubles ELSE Trouble
  /\ runs' = runs + 1
  /\ LET r == ResultOf(o, v, runs + 1) IN
     /\ WriteTrial(Recorded(Files, r))
     /\ job' = [job EXCEPT !.res = r,
                           !.stage = IF o.clean = "yes" THEN "measured" ELSE "unsafe"]
  /\ UNCHANGED <<pc, told, round, notes, root, verdict, boots, past, slips>>

\* wait_for cancels run_trial: a FAILED result.
Timeout ==
  /\ job.stage = "open" /\ Trouble /\ runs' = runs + 1
  /\ LET r == ResultOf([status |-> "FAILED", evidence |-> "marker", clean |-> "yes"],
                       0, runs + 1) IN
     /\ WriteTrial(Recorded(Files, r))
     /\ job' = [job EXCEPT !.res = r, !.stage = "cancelled"]
  /\ UNCHANGED <<pc, told, round, notes, root, verdict, boots, past, slips>>

\* save_trial_result, after which run_trial returns without sealing.
SaveSummary ==
  /\ job.stage = "measured" /\ Stage("returned")
  /\ WriteTrial(Saved(Files, job.res))
  /\ UNCHANGED <<notes, root, boots, runs, troubles, past, slips>>

\* run_trial seals what it wrote and raises; the experiment ends.
AbortTrial ==
  /\ job.stage \in {"unsafe", "cancelled"}
  /\ dirs' = [dirs EXCEPT ![job.id] = SealedAs(Ensured(Saved(Files, job.res), job.res))]
  /\ IF job.stage = "cancelled"
       THEN Stop("timeout") /\ Write([root.files EXCEPT !.failure = TRUE])
       ELSE Stop("unsafe") /\ UNCHANGED root
  /\ UNCHANGED <<boots, runs, troubles, past, slips>>

\* A write inside run_trial raises, before its summary or, when run_trial seals
\* the trial itself, after it.  The search takes it for a failed attempt, the
\* capacity sweep writes a FAILED result of its own; neither then sees the cleanup
\* that could not be verified, nor the cancellation, that run_trial was about to
\* raise.
RunRaises ==
  /\ job.stage \in {"run", "open", "measured", "unsafe", "cancelled"} /\ Trouble
  /\ \/ WriteTrial([Files EXCEPT !.made = TRUE])
     \/ job.stage \in {"unsafe", "cancelled"} /\ WriteTrial(Saved(Files, job.res))
  /\ slips' = slips \cup {"raised"}
  /\ IF pc = "capacity"
       THEN /\ job' = [job EXCEPT !.stage = "returned", !.res = Synthetic(job.params)]
            /\ UNCHANGED <<pc, told, round, verdict>>
       ELSE DeliverException
  /\ UNCHANGED <<notes, root, boots, runs, past>>

\* ensure_trial_artifacts of _finalize_trial_artifacts: the first seal.
FinalizeSeal ==
  /\ job.stage = "returned" /\ Stage("sealed")
  /\ LET f == Ensured(Files, job.res) IN
     /\ dirs' = [dirs EXCEPT ![job.id] = SealedAs(f)]
     /\ notes' = IF f.raw.evidence \in {"marker", "dark"} \/ f.cleanup # "yes"
                 THEN notes \cup {job.id} ELSE notes
  /\ UNCHANGED <<root, boots, runs, troubles, past, slips>>

FinalizeJudge_LeavesStatus ==
  /\ job.stage = "sealed"
  /\ IF JudgeReason(job.res, Files) = "none"
       THEN Deliver(job.res, ToldStatus(job.res))
       ELSE /\ job' = [job EXCEPT !.res = DemotedResult(@, Files), !.stage = "demoted"]
            /\ UNCHANGED <<pc, told, round, verdict>>
  /\ UNCHANGED <<notes, disk, boots, runs, troubles, past, slips>>

\* The rest of it: a result that stands is handed to the caller, one that does
\* not is FAILED from now on, first of all in status.json.
FinalizeJudge ==
  /\ job.stage = "sealed"
  /\ IF JudgeReason(job.res, Files) = "none"
       THEN Deliver(job.res, ToldStatus(job.res)) /\ UNCHANGED dirs
       ELSE /\ WriteTrial([Files EXCEPT !.status = "FAILED"])
            /\ job' = [job EXCEPT !.res = DemotedResult(@, Files), !.stage = "demoted"]
            /\ UNCHANGED <<pc, told, round, verdict>>
  /\ UNCHANGED <<notes, root, boots, runs, troubles, past, slips>>

\* reseal_failed_result: summary, seal, and the two validators once more.
FinalizeReseal ==
  /\ job.stage = "demoted"
  /\ LET d == SealedAs(Saved(Files, job.res)) IN
     /\ dirs' = [dirs EXCEPT ![job.id] = d]
     /\ IF ValidCached(d) THEN Deliver(job.res, "FAILED") /\ UNCHANGED notes
        ELSE Uncaught
  /\ UNCHANGED <<root, boots, runs, troubles, past, slips>>

\* The seal is on a result the finalizer is about to reject.
Unjudged == job.stage = "sealed" /\ JudgeReason(job.res, Files) # "none"

FinalizerRaises ==
  /\ job.stage \in {"returned", "sealed", "demoted"} /\ Trouble
  /\ Uncaught
  /\ slips' = slips \cup {"raised"} \cup (IF Unjudged THEN {"unjudged"} ELSE {})
  /\ UNCHANGED <<disk, boots, runs, past>>

-----------------------------------------------------------------------------
(* The end of the experiment *)

Best == BestCandidate(Candidates(told["search"]), RowsOf(told["repeat"]),
                      RowsOf(told["holdout"]))

\* Scheduler ablation, validation table, report, and the manifest again.
Report ==
  /\ pc = "report"
  /\ Write([root.files EXCEPT !.report = Best, !.manifest.warnings = notes])
  /\ pc' = "summary"
  /\ UNCHANGED <<told, round, notes, job, dirs, history>>

WriteSummary ==
  /\ pc = "summary"
  /\ Write([root.files EXCEPT !.summary =
               [told |-> told, searchBest |-> BestAcross(RowsOf(told["search"]), Methods),
                best |-> Best, warnings |-> notes, saved |-> TRUE]])
  /\ pc' = "attest"
  /\ UNCHANGED <<told, round, notes, job, dirs, history>>

\* _preflight_experiment_inputs
Preflight == root.files.inputs /\ root.files.summary.saved

\* The summary repeats the manifest exactly.
RootAgrees == root.files.summary.warnings = root.files.manifest.warnings

TrialsValidate_ToldOnly ==
  \A p \in Phases : \A i \in DOMAIN told[p] :
    LET row == told[p][i] IN
    row.result # NoResult => ValidCached(dirs[row.id])

\* Every directory under trials/, whichever boot made it.
TrialsValidate ==
  \A id \in Existing : dirs[id].files.summary # NoResult /\ ValidCached(dirs[id])

\* _capacity_rate_semantics: the points of the summary are the capacity trials.
CapacityAgrees ==
  {id \in Existing : id[1] = "capacity"}
    = {told["capacity"][i].id : i \in DOMAIN told["capacity"]}

Attestable == Preflight /\ RootAgrees /\ TrialsValidate /\ CapacityAgrees

WriteViews ==
  /\ pc = "attest" /\ Attestable
  /\ Write([root.files EXCEPT !.views = [summary |-> root.files.summary,
                                         anchors |-> Anchors]])
  /\ pc' = "seal"
  /\ UNCHANGED <<told, round, notes, job, dirs, history>>

RefuseAttestation ==
  /\ pc = "attest" /\ ~Attestable
  /\ Stop("unattested")
  /\ UNCHANGED <<disk, boots, runs, troubles, past, slips>>

SealExperiment ==
  /\ pc = "seal"
  /\ root' = [root EXCEPT !.seal = Image]
  /\ Stop("done")
  /\ UNCHANGED <<dirs, boots, runs, troubles, past, slips>>

Crash ==
  /\ pc # "off" /\ Trouble
  /\ Stop("crashed")
  /\ slips' = slips \cup (IF pc = "manifest" \/ pc = "inputs" THEN {"uninitialised"} ELSE {})
                    \cup (IF Unjudged THEN {"unjudged"} ELSE {})
  /\ UNCHANGED <<disk, boots, runs, past>>

Measure == \E o \in Outcomes, v \in Values : MeasureTrial(o, v)

Step ==
  \/ CreateRoot \/ SaveManifest \/ SaveInputs
  \/ Reopen \/ RefuseRoot \/ RefuseIdentity
  \/ AskSearch \/ Exhausted \/ AskRepeat \/ AskCapacity \/ EndPhase
  \/ LoadCached \/ OpenTrial \/ Measure \/ Timeout
  \/ SaveSummary \/ AbortTrial \/ RunRaises
  \/ FinalizeSeal \/ FinalizeJudge \/ FinalizeReseal \/ FinalizerRaises
  \/ Report \/ WriteSummary \/ WriteViews
  \/ RefuseAttestation \/ SealExperiment

Next == Boot \/ Step \/ Crash

Spec == Init /\ [][Next]_vars

-----------------------------------------------------------------------------
(* Properties *)

Rows == UNION {RowsOf(told[p]) : p \in Phases}

TypeOK ==
  /\ pc \in {"off", "init", "manifest", "inputs", "report", "summary",
             "attest", "seal"} \cup Phases
  /\ verdict \in {"none", "done", "no_manifest", "root_changed", "incompatible",
                  "exhausted", "uncaught", "unsafe", "timeout", "unattested",
                  "crashed"}
  /\ boots \in 0..MaxBoots /\ troubles \in 0..MaxTroubles /\ runs \in Nat
  /\ notes \subseteq TrialIds /\ job.id \in TrialIds \cup {<<>>}
  /\ job.stage \in {"none", "ask", "run", "open", "measured", "returned",
                    "sealed", "demoted", "unsafe", "cancelled"}
  /\ job = NoJob <=> job.stage = "none"
  /\ pc = "off" => job = NoJob
  /\ slips \subseteq {"raised", "unjudged", "uninitialised"}
  /\ \A row \in Rows : row.id \in TrialIds

\* Resume is deterministic: as long as no write raised, a later boot tells the
\* search, the repeats, the holdouts and the sweep the same results in the same
\* order, as far as both boots got, wherever the earlier boot was cut off
\* (run_trial's files, the seal and _load_cached_trial).
SamePrefix(s, t) == \A i \in DOMAIN s \cap DOMAIN t : s[i] = t[i]
ReplayIsFaithful ==
  "raised" \notin slips => \A p \in Phases : SamePrefix(told[p], past[p])

\* An attested root tells one story: a trial counts as measured in its tables
\* and its summary exactly when its sealed directory says so, with the same
\* result (unless a raise turned a measured trial into a failed attempt).
TellsOneStory(rows) ==
  /\ \A row \in rows : row.status = "COMPLETE" =>
       /\ dirs[row.id].files.summary = row.result /\ ValidCached(dirs[row.id])
  /\ "raised" \notin slips => \A id \in Existing :
       Selectable(dirs[id].files.summary) =>
         \E row \in rows : row.id = id /\ row.status = "COMPLETE"
AttestedTellsOneStory ==
  (pc = "off" /\ verdict = "done") =>
    /\ RootIntact
    /\ root.files.summary.told = told /\ root.files.manifest.warnings = notes
    /\ \A p \in Phases : root.files.tables[p] = told[p]
    /\ TellsOneStory(Rows)

\* What an attested experiment reports as best has, on the disk, all its
\* repeats and holdouts, measured with its parameters and selectable.
BestIsProven ==
  (pc = "off" /\ verdict = "done") =>
    \A best \in root.files.summary.best :
      \A p \in (IF HoldoutEnabled THEN {"repeat", "holdout"} ELSE {"repeat"}),
         r \in 1..RepeatCount :
        LET result == dirs[<<p, best.method, best.number, r>>].files.summary IN
        Selectable(result) /\ result.params = best.params

\* A trial that counts as COMPLETE has the telemetry _telemetry_evidence_errors
\* asks for, unless a crash or a raise came between the finalizer's first seal
\* and its judgement.
SelectableWasJudged ==
  "unjudged" \notin slips =>
    \A row \in Rows : row.status = "COMPLETE" => row.result.evidence = "full"

\* The same without the exception.
SelectableHasTelemetry ==
  \A row \in Rows : row.status = "COMPLETE" => row.result.evidence = "full"

\* No method has more measured trials than another when the candidates are
\* chosen, whatever failed, was replayed or was repeated on the way.
EqualBudgets ==
  pc \in {"repeat", "holdout", "capacity", "report"} =>
    \A m \in MethodSet :
      Cardinality({i \in DOMAIN told["search"] :
        told["search"][i].method = m /\ told["search"][i].status # "FAILED"}) = Budget

\* A crash, a timeout, an unsafe cleanup or a failed trial never makes an
\* experiment unattestable: only a raise, which leaves a directory no boot
\* comes back to, or a crash before the inputs were saved.
AttestationBlockers ==
  verdict = "unattested" => slips \cap {"raised", "uninitialised"} # {}

\* A search attempt whose directory holds a valid measured trial is replayed.
ValidTrialIsReplayed ==
  \A i \in DOMAIN told["search"] :
    LET row == told["search"][i] IN
    Replayable(dirs[row.id]) /\ Selectable(dirs[row.id].files.summary)
      => row.status = "COMPLETE"

\* No boot runs for ever: each of its steps tells one more trial, or goes on to
\* the next phase, or to the next step of the trial, and never back, whatever is
\* replayed, rejected or raised (the loops of run_all and repeat_candidates).
PhaseOrder == <<"init", "manifest", "inputs", "search", "repeat", "holdout",
                "capacity", "report", "summary", "attest", "seal">>
StageOrder == <<"none", "ask", "run", "open", "measured", "unsafe", "cancelled",
                "returned", "sealed", "demoted">>
Told == Len(told["search"]) + Len(told["repeat"]) + Len(told["holdout"])
          + Len(told["capacity"])
Advances ==
  \/ pc' = "off"
  \/ Told' > Told
  \/ Told' = Told /\ Place(PhaseOrder, pc') > Place(PhaseOrder, pc)
  \/ /\ Told' = Told /\ pc' = pc
     /\ Place(StageOrder, job'.stage) > Place(StageOrder, job.stage)
EveryStepAdvances == [][pc = "off" \/ Advances]_vars

=============================================================================
