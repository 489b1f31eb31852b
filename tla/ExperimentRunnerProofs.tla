------------------------ MODULE ExperimentRunnerProofs ------------------------
(***************************************************************************)
(* What holds of ExperimentRunner for any methods, budgets, candidates,    *)
(* boots and troubles, in four arguments.                                  *)
(*                                                                         *)
(* IInv: a trial only counts as measured when its telemetry was judged,    *)
(* through crashes and resumes.  The difficulty is the directory that      *)
(* holds a seal on a result that has not been judged, or was judged and    *)
(* rejected: the proof follows each such seal until a new one replaces it, *)
(* and shows that the files under it have changed so that no later boot    *)
(* finds it intact.  From the same invariant a boot always goes forward.   *)
(*                                                                         *)
(* BInv: in a round only methods short of their budget are run, so the     *)
(* budgets are equal when the candidates are chosen.                       *)
(*                                                                         *)
(* LInv and RInv: no trial is in the logs of a boot twice, a row that      *)
(* counts as measured is on the disk under a seal that fits, and each      *)
(* phase leaves its table behind: the best candidate has its evidence.     *)
(*                                                                         *)
(* OneLog: however many boots there were, there is one log of which every  *)
(* boot has told a first part; what is on the disk is that log and, at     *)
(* most, one trial that comes next in it.  So resumes are faithful, an     *)
(* attested root tells one story, and only a slip keeps a root from its    *)
(* attestation.                                                            *)
(***************************************************************************)
EXTENDS ExperimentRunner, FiniteSetTheorems, TLAPS

ResultFields ==
  {"status", "params", "run", "value", "evidence", "clean", "reason", "error"}

\* Only the finalizer records an inconsistency, and it makes the result FAILED.
ResultOK(r) ==
  DOMAIN r = ResultFields /\ (r.status = "COMPLETE" => r.error = "none")

FileNames == {"made", "params", "status", "cleanup", "raw", "summary", "missing"}
FilesOK(f, n) ==
  DOMAIN f = FileNames /\ ResultOK(f.summary) /\ f.raw.run \in 0..n

DirectoryOK(d, n) ==
  d = [files |-> d.files, seal |-> d.seal] /\ FilesOK(d.files, n) /\ FilesOK(d.seal, n)

DirsOK ==
  /\ runs \in Nat
  /\ dirs = [id \in TrialIds |-> dirs[id]]
  /\ \A id \in TrialIds : DirectoryOK(dirs[id], runs)

JobOK ==
  /\ DOMAIN job = {"id", "params", "stage", "res"}
  /\ job.stage # "none" =>
       pc \in Phases /\ job.id \in TrialIds /\ job.id[1] = pc
  /\ ResultOK(job.res)
  /\ job.stage = "unsafe" => job.res.clean # "yes"
  /\ job.stage \in {"cancelled", "demoted"} => job.res.status = "FAILED"

IsSeq(s) == \E S : s \in Seq(S)
ToldOK == told = [p \in Phases |-> told[p]] /\ \A p \in Phases : IsSeq(told[p])

\* Between its two halves the finalizer holds the result it has sealed.
SealedOK ==
  job.stage = "sealed" =>
    /\ dirs[job.id].files = dirs[job.id].seal
    /\ dirs[job.id].seal.summary = job.res

\* A seal on a result that would count, without the telemetry for it.
Doubtful(f) ==
  f.status = "COMPLETE" /\ Selectable(f.summary) /\ f.summary.evidence # "full"

\* The files under the seal have changed, and no step changes them back.
Stale(d) == d.files.status # d.seal.status \/ d.files.raw.run # d.seal.raw.run

SealsJudged ==
  "unjudged" \notin slips =>
    \A id \in TrialIds :
      Doubtful(dirs[id].seal) =>
        Stale(dirs[id]) \/ (job.id = id /\ job.stage = "sealed")

RowsJudged ==
  "unjudged" \notin slips =>
    \A p \in Phases : \A i \in 1..Len(told[p]) :
      told[p][i].status = "COMPLETE" => told[p][i].result.evidence = "full"

\* A row is named after its trial, and a trial after its phase.
RowOK(p, row) ==
  /\ row.id \in TrialIds /\ row.id[1] = p
  /\ row.method = row.id[2] /\ row.number = row.id[3] /\ row.of = row.id[3]
RowsOK == \A p \in Phases : \A i \in 1..Len(told[p]) : RowOK(p, told[p][i])

RoundOK == round \subseteq MethodSet

IInv ==
  /\ DirsOK /\ JobOK /\ ToldOK /\ RowsOK /\ RoundOK
  /\ SealedOK /\ SealsJudged /\ RowsJudged

-----------------------------------------------------------------------------
(* The files of a trial directory *)

LEMMA NoResultOK == ResultOK(NoResult)
BY DEF ResultOK, ResultFields, NoResult

LEMMA EmptyFilesOK == FilesOK(EmptyFiles, 0)
BY NoResultOK DEF FilesOK, FileNames, EmptyFiles, NoRaw

LEMMA OpenedOK ==
  ASSUME NEW f, NEW n \in Nat, FilesOK(f, n), NEW p
  PROVE  /\ FilesOK(Opened(f, p), n)
         /\ Opened(f, p).status = "open" /\ Opened(f, p).raw = f.raw
BY DEF FilesOK, FileNames, Opened

LEMMA RecordedOK ==
  ASSUME NEW f, NEW n \in Nat, FilesOK(f, n), NEW r, r.run = n + 1
  PROVE  FilesOK(Recorded(f, r), n + 1) /\ Recorded(f, r).raw.run = n + 1
BY DEF FilesOK, FileNames, Recorded

LEMMA SavedOK ==
  ASSUME NEW f, NEW n \in Nat, FilesOK(f, n), NEW r, ResultOK(r)
  PROVE  /\ FilesOK(Saved(f, r), n) /\ Saved(f, r).summary = r
         /\ Saved(f, r).status = f.status /\ Saved(f, r).raw = f.raw
BY DEF FilesOK, FileNames, Saved

LEMMA EnsuredOK ==
  ASSUME NEW f, NEW n \in Nat, FilesOK(f, n), NEW r, ResultOK(r)
  PROVE  FilesOK(Ensured(f, r), n) /\ Ensured(f, r).summary = r
<1>1. Ensured(f, r).raw.run \in 0..n
  BY DEF Ensured, FilesOK
<1>2. Ensured(f, r).summary = r
  BY DEF Ensured
<1>3. DOMAIN Ensured(f, r) = FileNames
  BY DEF Ensured, FileNames
<1> QED
  BY <1>1, <1>2, <1>3 DEF FilesOK

\* A check of the strict validator that passes.
LEMMA StrictMeansStatus ==
  ASSUME NEW f, StrictError(f) = "none"
  PROVE  f.status = f.summary.status
BY DEF StrictError

\* What a later boot replays is not doubtful, unless its seal is.
LEMMA ReplayableIsSealed ==
  ASSUME NEW d, NEW n, DirectoryOK(d, n), Replayable(d), Selectable(d.files.summary)
  PROVE  d.files = d.seal /\ d.files.status = "COMPLETE"
<1>1. d.files = d.seal /\ StrictError(d.files) = d.files.summary.error
  BY DEF Replayable, ValidCached, Intact
<1>2. d.files.summary.error = "none"
  BY DEF DirectoryOK, FilesOK, ResultOK, Selectable
<1>3. d.files.status = d.files.summary.status
  BY <1>1, <1>2, StrictMeansStatus
<1> QED
  BY <1>1, <1>3 DEF Selectable

-----------------------------------------------------------------------------
(* The trial that is next *)

JobNames == {"id", "params", "stage", "res"}

LEMMA AskedIs ==
  ASSUME NEW id, NEW params, Ask(id, params)
  PROVE  /\ DOMAIN job' = JobNames /\ job'.id = id /\ job'.params = params
         /\ job'.stage = "ask" /\ job'.res = NoResult
BY DEF Ask, NoJob, JobNames

LEMMA LogIsSeq ==
  ASSUME ToldOK, NEW p \in Phases
  PROVE  /\ Len(told[p]) \in Nat /\ DOMAIN told[p] = 1..Len(told[p])
         /\ RowsOf(told[p]) = {told[p][i] : i \in 1..Len(told[p])}
BY DEF ToldOK, IsSeq, RowsOf

\* How often something happened in a log is a natural number.
LEMMA CountType ==
  ASSUME NEW n \in Nat, NEW S, S \subseteq 1..n
  PROVE  IsFiniteSet(S) /\ Cardinality(S) \in 0..n
<1>1. IsFiniteSet(1..n) /\ Cardinality(1..n) = n
  BY FS_Interval
<1>2. IsFiniteSet(S) /\ Cardinality(S) <= n
  BY <1>1, FS_Subset
<1> QED
  BY <1>2, FS_CardinalityType

LEMMA AttemptsType ==
  ASSUME NEW s, IsSeq(s), NEW m
  PROVE  Attempts(s, m) \in Nat
<1> DEFINE S == {i \in DOMAIN s : s[i].method = m}
<1>1. Len(s) \in Nat /\ S \subseteq 1..Len(s)
  BY DEF IsSeq
<1>2. Cardinality(S) \in 0..Len(s)
  <2> HIDE DEF S
  <2> QED BY <1>1, CountType
<1> QED
  BY <1>1, <1>2 DEF Attempts

LEMMA AttemptLimit == MaxAttempts \in Nat \ {0}
<1>1. \A a, b \in Nat : a * b \in Nat
  OBVIOUS
<1>2. Budget \in Nat \ {0} /\ AttemptFactor \in Nat
  BY RunnerAssumption
<1> QED
  BY <1>1, <1>2 DEF MaxAttempts

LEMMA RoundIsMethods ==
  ASSUME RoundOK
  PROVE  Round(told["search"], round) \subseteq MethodSet
BY DEF RoundOK, Round

LEMMA NextOfMethods ==
  ASSUME NEW left, left # {}
  PROVE  NextMethod(left) \in left
BY DEF NextMethod

LEMMA SearchIds ==
  ASSUME NEW m \in MethodSet, NEW k \in 0..(MaxAttempts - 1)
  PROVE  <<"search", m, k, 0>> \in TrialIds
BY DEF TrialIds

\* The search asks for the attempts of a method one after the other.
LEMMA AskSearchIs ==
  ASSUME IInv, AskSearch
  PROVE  /\ job'.id \in TrialIds /\ job'.id[1] = pc /\ job'.stage = "ask"
         /\ \E q : Ask(job'.id, q)
         /\ round' = Round(told["search"], round) /\ round' \subseteq MethodSet
<1> DEFINE left == Round(told["search"], round)
           m == NextMethod(left)
           k == Attempts(told["search"], m)
<1>1. /\ left # {} /\ k < MaxAttempts /\ round' = left /\ pc = "search"
      /\ Ask(<<"search", m, k, 0>>, Suggest(told["search"], m))
  BY DEF AskSearch
<1>2. left \subseteq MethodSet /\ m \in MethodSet
  BY <1>1, RoundIsMethods, NextOfMethods DEF IInv
<1>3. k \in Nat
  BY AttemptsType DEF IInv, ToldOK, Phases
<1> HIDE DEF k, m
<1>4. <<"search", m, k, 0>> \in TrialIds
  BY <1>1, <1>2, <1>3, AttemptLimit, SearchIds
<1> QED
  BY <1>1, <1>2, <1>4, AskedIs

\* A trial of the search log is named after its method and its attempt.
LEMMA SearchTrial ==
  ASSUME ToldOK, RowsOK, NEW t \in RowsOf(told["search"])
  PROVE  /\ t.method \in MethodSet /\ t.number \in 0..(MaxAttempts - 1)
         /\ t.id = <<"search", t.method, t.number, 0>>
<1>1. PICK i \in 1..Len(told["search"]) : t = told["search"][i]
  BY LogIsSeq DEF Phases
<1>2. RowOK("search", t)
  BY <1>1 DEF RowsOK, Phases
<1> QED
  BY <1>2 DEF RowOK, TrialIds

LEMMA CandidatesAreTrials ==
  ASSUME NEW s, NEW c \in Candidates(s)
  PROVE  c \in RowsOf(s)
BY DEF Candidates, TopCandidates, Unique, BestOf, Top, MeasuredOf, Of

LEMMA JobIds ==
  ASSUME ToldOK, RowsOK, NEW p \in {"repeat", "holdout", "capacity"},
         NEW j \in Jobs(told["search"], p)
  PROVE  j.id \in TrialIds /\ j.id[1] = p
<1>1. CASE j \in CandidateJobs(told["search"], p) /\ p # "capacity"
  <2>1. PICK c \in Candidates(told["search"]), r \in 1..RepeatCount :
          j.id = <<p, c.method, c.number, r>>
    BY <1>1 DEF CandidateJobs
  <2>2. c.method \in MethodSet /\ c.number \in 0..(MaxAttempts - 1)
    BY CandidatesAreTrials, SearchTrial
  <2> QED
    BY <1>1, <2>1, <2>2 DEF TrialIds
<1>2. CASE p = "capacity"
  BY <1>2 DEF Jobs, TrialIds
<1> QED
  BY <1>1, <1>2 DEF Jobs

LEMMA FirstIsLeft ==
  ASSUME NEW left, left # {}
  PROVE  FirstJob(left) \in left
BY DEF FirstJob

LEMMA NextJobIs ==
  ASSUME IInv, NEW p \in {"repeat", "holdout", "capacity"}, NextJob(p)
  PROVE  /\ FirstJob(Left(p)) \in Left(p) /\ pc = p /\ pc' = pc /\ job = NoJob
         /\ job'.id = FirstJob(Left(p)).id /\ job'.params = FirstJob(Left(p)).params
         /\ job'.id \in TrialIds /\ job'.id[1] = pc /\ job'.stage = "ask"
         /\ \E q : Ask(job'.id, q)
<1> DEFINE j == FirstJob(Left(p))
<1>1. /\ pc = p /\ pc' = pc /\ job = NoJob
      /\ Left(p) # {} /\ Ask(j.id, j.params)
  BY DEF NextJob
<1>2. j \in Left(p)
  BY <1>1, FirstIsLeft
<1>3. j.id \in TrialIds /\ j.id[1] = p
  BY <1>2, JobIds DEF Left, JobsLeft, IInv
<1> HIDE DEF j
<1>4. job'.id = j.id /\ job'.params = j.params /\ job'.stage = "ask"
  BY <1>1, AskedIs
<1> QED
  BY <1>1, <1>2, <1>3, <1>4 DEF j

-----------------------------------------------------------------------------
(* One directory changes *)

LEMMA WriteFiles ==
  ASSUME DirsOK, NEW id \in TrialIds, NEW f, NEW n \in Nat, n >= runs, runs' = n,
         FilesOK(f, n), dirs' = [dirs EXCEPT ![id].files = f]
  PROVE  /\ DirsOK'
         /\ dirs'[id].files = f /\ dirs'[id].seal = dirs[id].seal
         /\ \A other \in TrialIds : other # id => dirs'[other] = dirs[other]
<1>1. dirs' = [x \in TrialIds |-> IF x = id THEN [dirs[id] EXCEPT !.files = f] ELSE dirs[x]]
  BY DEF DirsOK
<1>2. dirs'[id] = [files |-> f, seal |-> dirs[id].seal]
  BY <1>1 DEF DirsOK, DirectoryOK
<1>3. \A other \in TrialIds : other # id => dirs'[other] = dirs[other]
  BY <1>1
<1>4. \A g : FilesOK(g, runs) => FilesOK(g, n)
  BY DEF FilesOK, DirsOK
<1>5. \A x \in TrialIds : DirectoryOK(dirs'[x], n)
  BY <1>2, <1>3, <1>4 DEF DirsOK, DirectoryOK
<1>6. dirs' = [x \in TrialIds |-> dirs'[x]]
  BY <1>1
<1> QED
  BY <1>2, <1>3, <1>5, <1>6 DEF DirsOK

LEMMA SealFiles ==
  ASSUME DirsOK, NEW id \in TrialIds, NEW f, FilesOK(f, runs), runs' = runs,
         dirs' = [dirs EXCEPT ![id] = SealedAs(f)]
  PROVE  /\ DirsOK'
         /\ dirs'[id].files = f /\ dirs'[id].seal = f
         /\ \A other \in TrialIds : other # id => dirs'[other] = dirs[other]
<1>1. dirs' = [x \in TrialIds |-> IF x = id THEN SealedAs(f) ELSE dirs[x]]
  BY DEF DirsOK
<1>2. dirs'[id] = [files |-> f, seal |-> f]
  BY <1>1 DEF SealedAs
<1>3. \A other \in TrialIds : other # id => dirs'[other] = dirs[other]
  BY <1>1
<1>4. \A x \in TrialIds : DirectoryOK(dirs'[x], runs)
  BY <1>2, <1>3 DEF DirsOK, DirectoryOK
<1>5. dirs' = [x \in TrialIds |-> dirs'[x]]
  BY <1>1
<1> QED
  BY <1>2, <1>3, <1>4, <1>5 DEF DirsOK

-----------------------------------------------------------------------------
(* What the actions do to the directories *)

\* The steps that touch no directory.
Quiet ==
  \/ Boot \/ CreateRoot \/ SaveManifest \/ SaveInputs \/ Reopen \/ RefuseRoot
  \/ RefuseIdentity \/ AskSearch \/ Exhausted \/ AskRepeat \/ EndPhase
  \/ LoadCached \/ Report \/ WriteSummary \/ WriteViews \/ RefuseAttestation
  \/ SealExperiment
Writing ==
  \/ AskCapacity \/ OpenTrial \/ Measure \/ Timeout \/ SaveSummary \/ AbortTrial
  \/ RunRaises \/ FinalizeSeal \/ FinalizeJudge \/ FinalizeReseal
Failing == FinalizerRaises \/ Crash

LEMMA NextSplit == Next <=> Quiet \/ Writing \/ Failing
BY Zenon DEF Next, Step, Quiet, Writing, Failing

LEMMA QuietKeeps ==
  ASSUME Quiet
  PROVE  UNCHANGED <<dirs, runs, slips>>
<1>1. CASE Boot
  BY <1>1 DEF Boot, disk
<1>2. CASE CreateRoot \/ SaveManifest \/ SaveInputs
  BY <1>2 DEF CreateRoot, SaveManifest, SaveInputs, history
<1>3. CASE Reopen \/ RefuseRoot \/ RefuseIdentity
  BY <1>3 DEF Reopen, RefuseRoot, RefuseIdentity, disk, history
<1>4. CASE AskSearch \/ Exhausted \/ AskRepeat \/ EndPhase
  BY <1>4 DEF AskSearch, Exhausted, AskRepeat, EndPhase, disk, history
<1>5. CASE LoadCached
  BY <1>5 DEF LoadCached, disk
<1>6. CASE Report \/ WriteSummary \/ WriteViews
  BY <1>6 DEF Report, WriteSummary, WriteViews, history
<1>7. CASE RefuseAttestation \/ SealExperiment
  BY <1>7 DEF RefuseAttestation, SealExperiment, disk
<1> QED
  BY <1>1, <1>2, <1>3, <1>4, <1>5, <1>6, <1>7 DEF Quiet

\* None of them finds a result that is sealed and not judged.
LEMMA QuietUnsealed ==
  ASSUME JobOK, Quiet
  PROVE  job.stage # "sealed" /\ job'.stage # "sealed"
<1>0. NoJob.stage = "none" /\ DOMAIN NoJob = {"id", "params", "stage", "res"}
  BY DEF NoJob
<1>1. CASE Boot \/ CreateRoot \/ SaveManifest \/ SaveInputs
  BY <1>1 DEF Boot, CreateRoot, SaveManifest, SaveInputs, JobOK, Phases
<1>2. CASE Reopen \/ RefuseRoot \/ RefuseIdentity
  BY <1>2, <1>0 DEF Reopen, RefuseRoot, RefuseIdentity, Stop, JobOK, Phases
<1>3. CASE Exhausted \/ EndPhase
  BY <1>3, <1>0 DEF Exhausted, EndPhase, Stop, JobOK, Phases
<1>4. CASE AskSearch
  BY <1>4, <1>0, AskedIs DEF AskSearch
<1>5. CASE AskRepeat
  BY <1>5, <1>0, AskedIs DEF AskRepeat, NextJob
<1>6. CASE LoadCached
  BY <1>6, <1>0 DEF LoadCached, Stage, Deliver, Uncaught, DeliverException, Stop, JobOK
<1>7. CASE Report \/ WriteSummary \/ WriteViews
  BY <1>7 DEF Report, WriteSummary, WriteViews, JobOK, Phases
<1>8. CASE RefuseAttestation \/ SealExperiment
  BY <1>8, <1>0 DEF RefuseAttestation, SealExperiment, Stop, JobOK, Phases
<1> QED
  BY <1>1, <1>2, <1>3, <1>4, <1>5, <1>6, <1>7, <1>8 DEF Quiet

Elsewhere(id) == \A other \in TrialIds : other # id => dirs'[other] = dirs[other]

\* The steps of an evaluation that write into its directory.
LEMMA WriteEffect ==
  ASSUME DirsOK, NEW id \in TrialIds, NEW f, FilesOK(f, runs), runs' = runs,
         dirs' = [dirs EXCEPT ![id].files = f]
  PROVE  DirsOK' /\ Elsewhere(id) /\ dirs'[id].files = f
         /\ dirs'[id].seal = dirs[id].seal
<1>1. runs \in Nat /\ runs >= runs
  BY DEF DirsOK
<1>2. \A n \in Nat : n >= runs /\ runs' = n /\ FilesOK(f, n) =>
        DirsOK' /\ Elsewhere(id) /\ dirs'[id].files = f /\ dirs'[id].seal = dirs[id].seal
  BY WriteFiles DEF Elsewhere
<1> QED
  BY <1>1, <1>2

LEMMA AskCapacityEffect ==
  ASSUME IInv, AskCapacity
  PROVE  /\ DirsOK' /\ job'.id \in TrialIds /\ Elsewhere(job'.id)
         /\ job.stage = "none" /\ slips' = slips
         /\ dirs'[job'.id].seal = dirs[job'.id].seal
         /\ dirs'[job'.id].files.status = dirs[job'.id].files.status
         /\ dirs'[job'.id].files.raw = dirs[job'.id].files.raw
<1> DEFINE id == job'.id
           f == [dirs[id].files EXCEPT !.made = TRUE]
<1>1. job.stage = "none" /\ runs' = runs /\ slips' = slips
  BY DEF AskCapacity, NextJob, NoJob, history
<1>2. id \in TrialIds
  BY NextJobIs DEF AskCapacity
<1>3. dirs' = [dirs EXCEPT ![id].files = f]
  BY DEF AskCapacity
<1>4. FilesOK(dirs[id].files, runs)
  BY <1>2 DEF IInv, DirsOK, DirectoryOK
<1>5. FilesOK(f, runs) /\ f.status = dirs[id].files.status /\ f.raw = dirs[id].files.raw
  BY <1>4 DEF FilesOK, FileNames
<1>6. DirsOK' /\ Elsewhere(id) /\ dirs'[id].files = f /\ dirs'[id].seal = dirs[id].seal
  <2> HIDE DEF f, id
  <2> QED
    BY <1>1, <1>2, <1>3, <1>5, WriteEffect DEF IInv
<1> QED
  BY <1>1, <1>2, <1>5, <1>6

LEMMA InJob ==
  ASSUME IInv, job.stage # "none"
  PROVE  /\ job.id \in TrialIds /\ pc \in Phases /\ runs \in Nat
         /\ FilesOK(Files, runs) /\ FilesOK(dirs[job.id].seal, runs)
         /\ ResultOK(job.res)
BY DEF IInv, JobOK, DirsOK, DirectoryOK, Files

LEMMA OpenTrialEffect ==
  ASSUME IInv, OpenTrial
  PROVE  /\ DirsOK' /\ Elsewhere(job.id) /\ job.stage = "run"
         /\ dirs'[job.id].seal = dirs[job.id].seal
         /\ dirs'[job.id].files.status = "open"
<1> DEFINE f == Opened(Files, job.params)
<1>1. job.stage = "run" /\ runs' = runs /\ dirs' = [dirs EXCEPT ![job.id].files = f]
  BY DEF OpenTrial, WriteTrial
<1>2. FilesOK(f, runs) /\ f.status = "open"
  BY <1>1, InJob, OpenedOK
<1> HIDE DEF f
<1> QED
  BY <1>1, <1>2, InJob, WriteEffect DEF IInv

LEMMA MeasureEffect ==
  ASSUME IInv, Measure \/ Timeout
  PROVE  /\ DirsOK' /\ Elsewhere(job.id) /\ job.stage = "open"
         /\ dirs'[job.id].seal = dirs[job.id].seal
         /\ dirs'[job.id].files.raw.run = runs + 1
<1>1. PICK o, v : /\ job.stage = "open" /\ runs' = runs + 1
                  /\ dirs' = [dirs EXCEPT ![job.id].files
                                = Recorded(Files, ResultOf(o, v, runs + 1))]
  BY DEF Measure, MeasureTrial, Timeout, WriteTrial
<1> DEFINE f == Recorded(Files, ResultOf(o, v, runs + 1))
<1>2. ResultOf(o, v, runs + 1).run = runs + 1
  BY DEF ResultOf, NoResult
<1>3. FilesOK(f, runs + 1) /\ f.raw.run = runs + 1
  BY <1>1, <1>2, InJob, RecordedOK
<1>4. DirsOK /\ job.id \in TrialIds /\ runs + 1 \in Nat /\ runs + 1 >= runs
  BY <1>1, InJob DEF IInv
<1>5. dirs' = [dirs EXCEPT ![job.id].files = f] /\ runs' = runs + 1
  BY <1>1
<1> HIDE DEF f
<1> QED
  BY <1>1, <1>3, <1>4, <1>5, WriteFiles DEF Elsewhere

\* SaveSummary and RunRaises leave the files that tell whether a seal is stale.
LEMMA SaveEffect ==
  ASSUME IInv, SaveSummary \/ RunRaises
  PROVE  /\ DirsOK' /\ Elsewhere(job.id)
         /\ job.stage \in {"run", "open", "measured", "unsafe", "cancelled"}
         /\ dirs'[job.id].seal = dirs[job.id].seal
         /\ dirs'[job.id].files.status = Files.status
         /\ dirs'[job.id].files.raw = Files.raw
<1>1. PICK f : /\ f = Saved(Files, job.res) \/ f = [Files EXCEPT !.made = TRUE]
               /\ dirs' = [dirs EXCEPT ![job.id].files = f]
               /\ runs' = runs
               /\ job.stage \in {"run", "open", "measured", "unsafe", "cancelled"}
  BY DEF SaveSummary, RunRaises, WriteTrial
<1>2. FilesOK(Files, runs) /\ ResultOK(job.res) /\ runs \in Nat
  BY <1>1, InJob
<1>3. FilesOK(f, runs) /\ f.status = Files.status /\ f.raw = Files.raw
  <2>1. CASE f = Saved(Files, job.res)
    BY <1>2, <2>1, SavedOK
  <2>2. CASE f = [Files EXCEPT !.made = TRUE]
    BY <1>2, <2>2 DEF FilesOK, FileNames
  <2> QED
    BY <1>1, <2>1, <2>2
<1> QED
  BY <1>1, <1>3, InJob, WriteEffect DEF IInv

\* The three steps that write a seal.
LEMMA SealEffect ==
  ASSUME IInv, AbortTrial \/ FinalizeSeal \/ FinalizeReseal
  PROVE  /\ DirsOK' /\ Elsewhere(job.id)
         /\ job.stage \in {"unsafe", "cancelled", "returned", "demoted"}
         /\ dirs'[job.id].files = dirs'[job.id].seal
         /\ dirs'[job.id].seal.summary = job.res
<1>1. PICK f : /\ \/ f = Ensured(Saved(Files, job.res), job.res)
                  \/ f = Ensured(Files, job.res) \/ f = Saved(Files, job.res)
               /\ dirs' = [dirs EXCEPT ![job.id] = SealedAs(f)]
               /\ runs' = runs
               /\ job.stage \in {"unsafe", "cancelled", "returned", "demoted"}
  BY DEF AbortTrial, FinalizeSeal, FinalizeReseal
<1>2. FilesOK(Files, runs) /\ ResultOK(job.res) /\ runs \in Nat /\ job.id \in TrialIds
  BY <1>1, InJob
<1>3. FilesOK(Saved(Files, job.res), runs) /\ Saved(Files, job.res).summary = job.res
  BY <1>2, SavedOK
<1>4. FilesOK(f, runs) /\ f.summary = job.res
  BY <1>1, <1>2, <1>3, EnsuredOK
<1>5. /\ DirsOK' /\ dirs'[job.id].files = f /\ dirs'[job.id].seal = f
      /\ Elsewhere(job.id)
  BY <1>1, <1>2, <1>4, SealFiles DEF IInv, Elsewhere
<1> QED
  BY <1>1, <1>4, <1>5

LEMMA JudgeEffect ==
  ASSUME IInv, FinalizeJudge
  PROVE  /\ DirsOK' /\ Elsewhere(job.id) /\ job.stage = "sealed"
         /\ dirs'[job.id].seal = dirs[job.id].seal
         /\ JudgeReason(job.res, Files) # "none"
              => dirs'[job.id].files.status = "FAILED"
<1>1. job.stage = "sealed" /\ runs' = runs
  BY DEF FinalizeJudge
<1>2. CASE JudgeReason(job.res, Files) = "none"
  <2>1. UNCHANGED dirs
    BY <1>2 DEF FinalizeJudge
  <2> QED
    BY <1>1, <1>2, <2>1 DEF IInv, DirsOK, Elsewhere
<1>3. CASE JudgeReason(job.res, Files) # "none"
  <2> DEFINE f == [Files EXCEPT !.status = "FAILED"]
  <2>1. dirs' = [dirs EXCEPT ![job.id].files = f]
    BY <1>3 DEF FinalizeJudge, WriteTrial
  <2>2. FilesOK(Files, runs) /\ job.id \in TrialIds
    BY <1>1, InJob
  <2>3. FilesOK(f, runs) /\ f.status = "FAILED"
    BY <2>2 DEF FilesOK, FileNames
  <2> HIDE DEF f
  <2> QED
    BY <1>1, <2>1, <2>2, <2>3, WriteEffect DEF IInv
<1> QED
  BY <1>2, <1>3

LEMMA FailingKeeps ==
  ASSUME Failing
  PROVE  /\ UNCHANGED <<dirs, runs>>
         /\ slips \subseteq slips' /\ (Unjudged => "unjudged" \in slips')
BY DEF Failing, FinalizerRaises, Crash, disk

LEMMA SlipsGrow ==
  ASSUME Next
  PROVE  slips \subseteq slips'
<1>1. CASE Quiet
  BY <1>1, QuietKeeps
<1>2. CASE Failing
  BY <1>2, FailingKeeps
<1>3. CASE Writing
  <2>1. CASE AskCapacity
    BY <2>1 DEF AskCapacity, history
  <2>2. CASE OpenTrial \/ SaveSummary \/ AbortTrial \/ RunRaises
    BY <2>2 DEF OpenTrial, SaveSummary, AbortTrial, RunRaises
  <2>3. CASE Measure \/ Timeout
    BY <2>3 DEF Measure, MeasureTrial, Timeout
  <2>4. CASE FinalizeSeal \/ FinalizeJudge \/ FinalizeReseal
    BY <2>4 DEF FinalizeSeal, FinalizeJudge, FinalizeReseal
  <2> QED
    BY <1>3, <2>1, <2>2, <2>3, <2>4 DEF Writing
<1> QED
  BY <1>1, <1>2, <1>3, NextSplit

LEMMA DirsStep ==
  ASSUME IInv, Next
  PROVE  DirsOK'
<1>1. CASE Quiet
  BY <1>1, QuietKeeps DEF IInv, DirsOK
<1>2. CASE Failing
  BY <1>2, FailingKeeps DEF IInv, DirsOK
<1>3. CASE Writing
  BY <1>3, AskCapacityEffect, OpenTrialEffect, MeasureEffect, SaveEffect, SealEffect,
     JudgeEffect DEF Writing
<1> QED
  BY <1>1, <1>2, <1>3, NextSplit

-----------------------------------------------------------------------------
(* The trial being evaluated *)

LEMMA NoJobOK ==
  /\ NoJob.stage = "none" /\ NoJob.res = NoResult /\ DOMAIN NoJob = JobNames
  /\ job' = NoJob => JobOK'
BY NoResultOK DEF NoJob, JobOK, JobNames

\* Between two trials the job stays as it is.
LEMMA IdleKeepsJob ==
  ASSUME JobOK, job' = job, pc \notin Phases
  PROVE  JobOK'
BY DEF JobOK

LEMMA SetStage ==
  ASSUME JobOK, NEW s, job' = [job EXCEPT !.stage = s], pc' = pc,
         job.stage # "none", s \notin {"unsafe", "cancelled", "demoted"}
  PROVE  JobOK'
BY DEF JobOK

LEMMA AskedJob ==
  ASSUME pc \in Phases, pc' = pc, job'.id \in TrialIds, job'.id[1] = pc,
         \E q : Ask(job'.id, q)
  PROVE  JobOK'
<1>1. DOMAIN job' = JobNames /\ job'.stage = "ask" /\ job'.res = NoResult
  BY AskedIs
<1> QED
  BY <1>1, NoResultOK DEF JobOK, JobNames

LEMMA QuietJob ==
  ASSUME IInv, Quiet
  PROVE  JobOK'
<1>0. JobOK
  BY DEF IInv
<1>1. CASE Boot \/ CreateRoot \/ SaveManifest \/ SaveInputs
  BY <1>0, <1>1, IdleKeepsJob DEF Boot, CreateRoot, SaveManifest, SaveInputs, Phases
<1>2. CASE Reopen
  BY <1>0, <1>2, IdleKeepsJob DEF Reopen, Phases
<1>3. CASE RefuseRoot \/ RefuseIdentity \/ Exhausted \/ RefuseAttestation \/ SealExperiment
  BY <1>3, NoJobOK
     DEF RefuseRoot, RefuseIdentity, Exhausted, RefuseAttestation, SealExperiment, Stop
<1>4. CASE AskSearch
  <2>1. pc \in Phases /\ pc' = pc
    BY <1>4 DEF AskSearch, Phases
  <2> QED
    BY <1>4, <2>1, AskSearchIs, AskedJob
<1>5. CASE AskRepeat
  <2>1. PICK p \in {"repeat", "holdout"} : NextJob(p)
    BY <1>5 DEF AskRepeat
  <2> QED
    BY <2>1, NextJobIs, AskedJob DEF Phases
<1>6. CASE EndPhase
  BY <1>6, NoJobOK DEF EndPhase
<1>7. CASE LoadCached
  <2>1. job.stage = "ask"
    BY <1>7 DEF LoadCached
  <2>2. CASE job' = NoJob
    BY <2>2, NoJobOK
  <2>3. CASE job' = [job EXCEPT !.stage = "run"] /\ pc' = pc
    BY <1>0, <2>1, <2>3, SetStage
  <2>4. CASE job' = [job EXCEPT !.stage = "returned", !.res = Files.summary] /\ pc' = pc
    <3>1. ResultOK(Files.summary)
      BY <2>1, InJob DEF FilesOK
    <3>2. /\ DOMAIN job' = JobNames /\ job'.id = job.id
          /\ job'.stage = "returned" /\ job'.res = Files.summary
      BY <1>0, <2>4 DEF JobOK, JobNames
    <3> QED
      BY <1>0, <2>1, <2>4, <3>1, <3>2 DEF JobOK, JobNames
  <2> QED
    BY <1>7, <2>2, <2>3, <2>4
       DEF LoadCached, Stage, Deliver, Uncaught, DeliverException, Stop, Files
<1>8. CASE Report \/ WriteSummary \/ WriteViews
  BY <1>0, <1>8, IdleKeepsJob DEF Report, WriteSummary, WriteViews, Phases
<1> QED
  BY <1>1, <1>2, <1>3, <1>4, <1>5, <1>6, <1>7, <1>8 DEF Quiet

LEMMA UncaughtJob ==
  ASSUME Uncaught \/ DeliverException
  PROVE  job' = NoJob
BY DEF Uncaught, Stop, DeliverException, Deliver

LEMMA ResultOfOK ==
  ASSUME NEW o, NEW v, NEW n
  PROVE  /\ ResultOK(ResultOf(o, v, n))
         /\ ResultOf(o, v, n).clean = o.clean /\ ResultOf(o, v, n).status = o.status
BY NoResultOK DEF ResultOf, NoResult, ResultOK, ResultFields

LEMMA DemotedOK ==
  ASSUME NEW r, NEW f, ResultOK(r)
  PROVE  ResultOK(DemotedResult(r, f)) /\ DemotedResult(r, f).status = "FAILED"
BY DEF DemotedResult, ResultOK, ResultFields

\* Only the finalizer's first half leaves a sealed result to judge.
LEMMA WritingJob ==
  ASSUME IInv, Writing
  PROVE  JobOK' /\ (job'.stage = "sealed" => FinalizeSeal)
<1>0. JobOK /\ NoJob.stage = "none" /\ DOMAIN NoJob = JobNames
  BY NoJobOK DEF IInv
<1>1. CASE AskCapacity
  BY <1>1, NextJobIs, AskedJob DEF AskCapacity, Phases
<1>2. CASE OpenTrial
  <2>1. job.stage = "run" /\ job' = [job EXCEPT !.stage = "open"] /\ pc' = pc
    BY <1>2 DEF OpenTrial, Stage
  <2> QED
    BY <1>0, <2>1, SetStage DEF JobOK
<1>3. CASE Measure
  <2>1. PICK o \in Outcomes, v \in Values : MeasureTrial(o, v)
    BY <1>3 DEF Measure
  <2> DEFINE r == ResultOf(o, v, runs + 1)
             s == IF o.clean = "yes" THEN "measured" ELSE "unsafe"
  <2>2. /\ job' = [job EXCEPT !.res = r, !.stage = s]
        /\ job.stage = "open" /\ pc' = pc
    BY <2>1 DEF MeasureTrial
  <2>3. ResultOK(r) /\ (s = "unsafe" => r.clean # "yes")
        /\ s \notin {"cancelled", "demoted", "sealed"}
    BY ResultOfOK
  <2> HIDE DEF r, s
  <2>4. /\ DOMAIN job' = JobNames /\ job'.id = job.id
        /\ job'.stage = s /\ job'.res = r
    BY <1>0, <2>2 DEF JobOK, JobNames
  <2> QED
    BY <1>0, <2>2, <2>3, <2>4 DEF JobOK, JobNames
<1>4. CASE Timeout
  <2> DEFINE r == ResultOf([status |-> "FAILED", evidence |-> "marker", clean |-> "yes"],
                           0, runs + 1)
  <2>1. /\ job' = [job EXCEPT !.res = r, !.stage = "cancelled"]
        /\ job.stage = "open" /\ pc' = pc
    BY <1>4 DEF Timeout
  <2>2. ResultOK(r) /\ r.status = "FAILED"
    BY ResultOfOK
  <2> HIDE DEF r
  <2>3. /\ DOMAIN job' = JobNames /\ job'.id = job.id
        /\ job'.stage = "cancelled" /\ job'.res = r
    BY <1>0, <2>1 DEF JobOK, JobNames
  <2> QED
    BY <1>0, <2>1, <2>2, <2>3 DEF JobOK, JobNames
<1>5. CASE SaveSummary
  <2>1. job.stage = "measured" /\ job' = [job EXCEPT !.stage = "returned"] /\ pc' = pc
    BY <1>5 DEF SaveSummary, Stage
  <2> QED
    BY <1>0, <2>1, SetStage DEF JobOK
<1>6. CASE AbortTrial \/ FinalizeReseal
  <2>1. job' = NoJob
    BY <1>6, UncaughtJob DEF AbortTrial, FinalizeReseal, Stop, Deliver
  <2> QED
    BY <1>0, <2>1, NoJobOK
<1>7. CASE RunRaises
  <2>1. CASE job' = NoJob
    BY <1>0, <2>1, NoJobOK
  <2>2. CASE /\ job' = [job EXCEPT !.stage = "returned", !.res = Synthetic(job.params)]
             /\ pc' = pc /\ job.stage # "none"
    <3>1. ResultOK(Synthetic(job.params))
      BY NoResultOK DEF Synthetic, NoResult, ResultOK, ResultFields
    <3>2. /\ DOMAIN job' = JobNames /\ job'.id = job.id
          /\ job'.stage = "returned" /\ job'.res = Synthetic(job.params)
      BY <1>0, <2>2 DEF JobOK, JobNames
    <3> QED
      BY <1>0, <2>2, <3>1, <3>2 DEF JobOK, JobNames
  <2> QED
    BY <1>7, <2>1, <2>2, UncaughtJob DEF RunRaises
<1>8. CASE FinalizeSeal
  <2>1. job.stage = "returned" /\ job' = [job EXCEPT !.stage = "sealed"] /\ pc' = pc
    BY <1>8 DEF FinalizeSeal, Stage
  <2> QED
    BY <1>0, <1>8, <2>1, SetStage
<1>9. CASE FinalizeJudge
  <2>1. CASE job' = NoJob
    BY <1>0, <2>1, NoJobOK
  <2>2. CASE /\ job' = [job EXCEPT !.res = DemotedResult(job.res, Files),
                                   !.stage = "demoted"]
             /\ pc' = pc /\ job.stage # "none"
    <3>1. ResultOK(DemotedResult(job.res, Files))
          /\ DemotedResult(job.res, Files).status = "FAILED"
      BY <1>0, DemotedOK DEF JobOK
    <3>2. /\ DOMAIN job' = JobNames /\ job'.id = job.id
          /\ job'.stage = "demoted" /\ job'.res = DemotedResult(job.res, Files)
      BY <1>0, <2>2 DEF JobOK, JobNames
    <3> QED
      BY <1>0, <2>2, <3>1, <3>2 DEF JobOK, JobNames
  <2> QED
    BY <1>9, <2>1, <2>2 DEF FinalizeJudge, Deliver
<1> QED
  BY <1>1, <1>2, <1>3, <1>4, <1>5, <1>6, <1>7, <1>8, <1>9 DEF Writing

LEMMA FailingJob ==
  ASSUME Failing
  PROVE  job' = NoJob
BY UncaughtJob DEF Failing, FinalizerRaises, Crash, Stop

LEMMA JobStep ==
  ASSUME IInv, Next
  PROVE  JobOK'
BY QuietJob, WritingJob, FailingJob, NoJobOK, NextSplit

LEMMA SealedStep ==
  ASSUME IInv, Next
  PROVE  SealedOK'
<1>1. CASE Quiet
  BY <1>1, QuietUnsealed DEF IInv, SealedOK
<1>2. CASE Failing
  BY <1>2, FailingJob, NoJobOK DEF SealedOK
<1>3. CASE Writing
  <2>1. CASE job'.stage # "sealed"
    BY <2>1 DEF SealedOK
  <2>2. CASE FinalizeSeal
    <3>1. job'.id = job.id /\ job'.res = job.res
      BY <2>2 DEF FinalizeSeal, Stage, IInv, JobOK
    <3> QED
      BY <2>2, <3>1, SealEffect DEF SealedOK
  <2> QED
    BY <1>3, <2>1, <2>2, WritingJob
<1> QED
  BY <1>1, <1>2, <1>3, NextSplit

-----------------------------------------------------------------------------
(* Doubtful seals *)

LEMMA JudgeRejects ==
  ASSUME NEW r, NEW f, r.status = "COMPLETE", r.evidence # "full"
  PROVE  JudgeReason(r, f) # "none"
BY DEF JudgeReason, TelemetrySuffices

\* A step that keeps the seals keeps them judged if it makes no stale one fit.
LEMMA SealsKept ==
  ASSUME IInv, Next, NEW id \in TrialIds, Elsewhere(id),
         dirs'[id].seal = dirs[id].seal,
         job.stage = "sealed" => job.id = id,
         "unjudged" \notin slips' /\ Doubtful(dirs[id].seal) => Stale(dirs[id])'
  PROVE  SealsJudged'
<1> SUFFICES ASSUME "unjudged" \notin slips', NEW x \in TrialIds,
                    Doubtful(dirs'[x].seal)
             PROVE  Stale(dirs[x])'
  BY DEF SealsJudged, Doubtful, Stale, Selectable
<1>1. CASE x = id
  BY <1>1 DEF Doubtful, Stale
<1>2. CASE x # id
  <2>1. dirs'[x] = dirs[x]
    BY <1>2 DEF Elsewhere
  <2>2. Stale(dirs[x])
    BY <1>2, <2>1, SlipsGrow DEF IInv, SealsJudged
  <2> QED
    BY <2>1, <2>2 DEF Stale
<1> QED
  BY <1>1, <1>2

LEMMA StaleUnless ==
  ASSUME IInv, Next, "unjudged" \notin slips', job.stage # "sealed",
         NEW id \in TrialIds, Doubtful(dirs[id].seal)
  PROVE  Stale(dirs[id])
BY SlipsGrow DEF IInv, SealsJudged

LEMMA QuietSeals ==
  ASSUME IInv, Next, Quiet
  PROVE  SealsJudged'
<1>1. UNCHANGED <<dirs, runs, slips>> /\ job.stage # "sealed"
  BY QuietKeeps, QuietUnsealed DEF IInv
<1> SUFFICES ASSUME "unjudged" \notin slips', NEW x \in TrialIds,
                    Doubtful(dirs[x].seal)
             PROVE  Stale(dirs[x])
  BY <1>1 DEF SealsJudged, Doubtful, Stale, Selectable
<1> QED
  BY <1>1, StaleUnless

LEMMA FailingSeals ==
  ASSUME IInv, Next, Failing
  PROVE  SealsJudged'
<1>1. UNCHANGED dirs /\ (Unjudged => "unjudged" \in slips')
  BY FailingKeeps
<1> SUFFICES ASSUME "unjudged" \notin slips', NEW x \in TrialIds,
                    Doubtful(dirs[x].seal)
             PROVE  Stale(dirs[x])
  BY <1>1 DEF SealsJudged, Doubtful, Stale, Selectable
<1>2. CASE job.stage = "sealed" /\ job.id = x
  <2>1. job.res.status = "COMPLETE" /\ job.res.evidence # "full"
    BY <1>2 DEF IInv, SealedOK, Doubtful, Selectable
  <2> QED
    BY <1>1, <1>2, <2>1, JudgeRejects DEF Unjudged
<1>3. CASE ~(job.stage = "sealed" /\ job.id = x)
  BY <1>3, SlipsGrow DEF IInv, SealsJudged
<1> QED
  BY <1>2, <1>3

LEMMA NewSeals ==
  ASSUME IInv, Next, AbortTrial \/ FinalizeSeal \/ FinalizeReseal
  PROVE  SealsJudged'
<1>1. /\ Elsewhere(job.id) /\ dirs'[job.id].seal.summary = job.res
      /\ job.stage \in {"unsafe", "cancelled", "returned", "demoted"}
  BY SealEffect
<1> SUFFICES ASSUME "unjudged" \notin slips', NEW x \in TrialIds,
                    Doubtful(dirs'[x].seal), ~(job'.id = x /\ job'.stage = "sealed")
             PROVE  Stale(dirs[x])'
  BY DEF SealsJudged, Doubtful, Stale, Selectable
<1>2. CASE x # job.id
  <2>1. dirs'[x] = dirs[x]
    BY <1>1, <1>2 DEF Elsewhere
  <2>2. Stale(dirs[x])
    BY <1>1, <2>1, StaleUnless
  <2> QED
    BY <2>1, <2>2 DEF Stale
<1>3. CASE x = job.id
  <2>1. Selectable(job.res)
    BY <1>1, <1>3 DEF Doubtful
  <2>2. CASE AbortTrial
    BY <2>1, <2>2 DEF AbortTrial, Selectable, IInv, JobOK
  <2>3. CASE FinalizeReseal
    BY <2>1, <2>3 DEF FinalizeReseal, Selectable, IInv, JobOK
  <2>4. CASE FinalizeSeal
    <3>1. job'.stage = "sealed" /\ job'.id = job.id
      BY <2>4 DEF FinalizeSeal, Stage, IInv, JobOK
    <3> QED
      BY <1>3, <3>1
  <2> QED
    BY <2>2, <2>3, <2>4
<1> QED
  BY <1>2, <1>3

LEMMA WritingSeals ==
  ASSUME IInv, Next, Writing
  PROVE  SealsJudged'
<1>1. CASE AskCapacity
  <2>1. /\ job'.id \in TrialIds /\ Elsewhere(job'.id) /\ job.stage = "none"
        /\ dirs'[job'.id].seal = dirs[job'.id].seal
        /\ dirs'[job'.id].files.status = dirs[job'.id].files.status
        /\ dirs'[job'.id].files.raw = dirs[job'.id].files.raw
    BY <1>1, AskCapacityEffect
  <2>2. ASSUME "unjudged" \notin slips', Doubtful(dirs[job'.id].seal)
        PROVE  Stale(dirs'[job'.id])
    <3>1. Stale(dirs[job'.id])
      BY <2>1, <2>2, StaleUnless
    <3> QED
      BY <2>1, <3>1 DEF Stale
  <2>3. \A x \in TrialIds :
          /\ Elsewhere(x) /\ dirs'[x].seal = dirs[x].seal
          /\ "unjudged" \notin slips' /\ Doubtful(dirs[x].seal) => Stale(dirs'[x])
          => SealsJudged'
    BY <2>1, SealsKept DEF Stale
  <2> QED
    BY <2>1, <2>2, <2>3
<1>2. ASSUME job.stage # "none", Elsewhere(job.id),
             dirs'[job.id].seal = dirs[job.id].seal,
             "unjudged" \notin slips' /\ Doubtful(dirs[job.id].seal)
               => Stale(dirs'[job.id])
      PROVE  SealsJudged'
  <2>1. job.id \in TrialIds
    BY <1>2, InJob
  <2>2. \A x \in TrialIds :
          /\ x = job.id /\ Elsewhere(x) /\ dirs'[x].seal = dirs[x].seal
          /\ "unjudged" \notin slips' /\ Doubtful(dirs[x].seal) => Stale(dirs'[x])
          => SealsJudged'
    BY SealsKept DEF Stale
  <2> QED
    BY <1>2, <2>1, <2>2
<1>3. CASE OpenTrial
  <2>1. job.stage = "run" /\ Elsewhere(job.id)
        /\ dirs'[job.id].seal = dirs[job.id].seal
        /\ dirs'[job.id].files.status = "open"
    BY <1>3, OpenTrialEffect
  <2> QED
    BY <1>2, <2>1 DEF Doubtful, Stale
<1>4. CASE Measure \/ Timeout
  <2>1. job.stage = "open" /\ Elsewhere(job.id)
        /\ dirs'[job.id].seal = dirs[job.id].seal
        /\ dirs'[job.id].files.raw.run = runs + 1
    BY <1>4, MeasureEffect
  <2>2. runs \in Nat /\ dirs[job.id].seal.raw.run \in 0..runs
    BY <2>1, InJob DEF FilesOK
  <2> QED
    BY <1>2, <2>1, <2>2 DEF Stale
<1>5. CASE SaveSummary \/ RunRaises
  <2>1. /\ job.stage \in {"run", "open", "measured", "unsafe", "cancelled"}
        /\ Elsewhere(job.id)
        /\ dirs'[job.id].seal = dirs[job.id].seal
        /\ dirs'[job.id].files.status = Files.status
        /\ dirs'[job.id].files.raw = Files.raw
    BY <1>5, SaveEffect
  <2>2. ASSUME "unjudged" \notin slips', Doubtful(dirs[job.id].seal)
        PROVE  Stale(dirs'[job.id])
    <3>1. Stale(dirs[job.id])
      BY <2>1, <2>2, InJob, StaleUnless
    <3> QED
      BY <2>1, <3>1 DEF Stale, Files
  <2> QED
    BY <1>2, <2>1, <2>2
<1>6. CASE FinalizeJudge
  <2>1. /\ job.stage = "sealed" /\ Elsewhere(job.id)
        /\ dirs'[job.id].seal = dirs[job.id].seal
        /\ JudgeReason(job.res, Files) # "none"
             => dirs'[job.id].files.status = "FAILED"
    BY <1>6, JudgeEffect
  <2>2. ASSUME Doubtful(dirs[job.id].seal)
        PROVE  Stale(dirs'[job.id])
    <3>1. job.res.status = "COMPLETE" /\ job.res.evidence # "full"
      BY <2>1, <2>2 DEF IInv, SealedOK, Doubtful, Selectable
    <3> QED
      BY <2>1, <2>2, <3>1, JudgeRejects DEF Stale, Doubtful
  <2> QED
    BY <1>2, <2>1, <2>2
<1>7. CASE AbortTrial \/ FinalizeSeal \/ FinalizeReseal
  BY <1>7, NewSeals
<1> QED
  BY <1>1, <1>3, <1>4, <1>5, <1>6, <1>7 DEF Writing

LEMMA SealsStep ==
  ASSUME IInv, Next
  PROVE  SealsJudged'
BY QuietSeals, FailingSeals, WritingSeals, NextSplit

-----------------------------------------------------------------------------
(* What the boot was told *)

LEMMA AppendIsSeq ==
  ASSUME NEW s, IsSeq(s), NEW x
  PROVE  /\ IsSeq(Append(s, x)) /\ Len(s) \in Nat /\ Len(Append(s, x)) = Len(s) + 1
         /\ Append(s, x)[Len(s) + 1] = x
         /\ \A i \in 1..Len(s) : Append(s, x)[i] = s[i]
<1>1. PICK S : s \in Seq(S)
  BY DEF IsSeq
<1>2. s \in Seq(S \cup {x})
  BY <1>1
<1>3. Append(s, x) \in Seq(S \cup {x})
  BY <1>2
<1> QED
  BY <1>2, <1>3 DEF IsSeq

LEMMA Delivery ==
  ASSUME ToldOK, pc \in Phases, NEW r, NEW status, Deliver(r, status)
  PROVE  /\ ToldOK' /\ Len(told'[pc]) = Len(told[pc]) + 1
         /\ \A p \in Phases : p # pc => told'[p] = told[p]
         /\ told'[pc][Len(told[pc]) + 1].status = status
         /\ told'[pc][Len(told[pc]) + 1].result = r
         /\ \A i \in 1..Len(told[pc]) : told'[pc][i] = told[pc][i]
<1> DEFINE row == Row(r, status)
<1>1. told' = [p \in Phases |-> IF p = pc THEN Append(told[pc], row) ELSE told[p]]
  BY DEF Deliver, ToldOK
<1>2. row.status = status /\ row.result = r
  BY DEF Row
<1> HIDE DEF row
<1>3. told'[pc] = Append(told[pc], row) /\ \A p \in Phases : p # pc => told'[p] = told[p]
  BY <1>1
<1>4. IsSeq(told[pc])
  BY DEF ToldOK
<1>5. told' = [p \in Phases |-> told'[p]]
  BY <1>1
<1>6. \A p \in Phases : IsSeq(told'[p])
  <2>1. IsSeq(Append(told[pc], row))
    BY <1>4, AppendIsSeq
  <2> QED
    BY <1>3, <2>1 DEF ToldOK
<1> QED
  BY <1>2, <1>3, <1>4, <1>5, <1>6, AppendIsSeq DEF ToldOK

\* A row that counts as measured comes from a result with its telemetry.
Judged(r, status) ==
  "unjudged" \notin slips' /\ status = "COMPLETE" => r.evidence = "full"

LEMMA JudgedRow ==
  ASSUME IInv, Next, pc \in Phases, NEW r, NEW status, Deliver(r, status),
         Judged(r, status)
  PROVE  ToldOK' /\ RowsJudged'
<1>1. ToldOK
  BY DEF IInv
<1>2. /\ ToldOK' /\ Len(told'[pc]) = Len(told[pc]) + 1
      /\ \A p \in Phases : p # pc => told'[p] = told[p]
      /\ told'[pc][Len(told[pc]) + 1].status = status
      /\ told'[pc][Len(told[pc]) + 1].result = r
      /\ \A i \in 1..Len(told[pc]) : told'[pc][i] = told[pc][i]
  BY <1>1, Delivery
<1>3. Len(told[pc]) \in Nat
  BY <1>1, AppendIsSeq DEF ToldOK
<1> SUFFICES ASSUME "unjudged" \notin slips', NEW p \in Phases,
                    NEW i \in 1..Len(told'[p]), told'[p][i].status = "COMPLETE"
             PROVE  told'[p][i].result.evidence = "full"
  BY <1>2 DEF RowsJudged
<1>4. CASE p = pc /\ i = Len(told[pc]) + 1
  BY <1>2, <1>4 DEF Judged
<1>5. CASE ~(p = pc /\ i = Len(told[pc]) + 1)
  <2>1. i \in 1..Len(told[p]) /\ told'[p][i] = told[p][i]
    BY <1>2, <1>3, <1>5
  <2> QED
    BY <2>1, SlipsGrow DEF IInv, RowsJudged
<1> QED
  BY <1>4, <1>5

LEMMA ToldKept ==
  ASSUME IInv, Next, told' = told
  PROVE  ToldOK' /\ RowsJudged'
<1>1. ToldOK'
  BY DEF IInv, ToldOK
<1>2. RowsJudged'
  BY SlipsGrow DEF IInv, RowsJudged
<1> QED
  BY <1>1, <1>2

LEMMA NothingTold ==
  told' = Nothing => ToldOK' /\ RowsJudged'
<1> SUFFICES ASSUME told' = Nothing PROVE ToldOK' /\ RowsJudged'
  OBVIOUS
<1>1. \A p \in Phases : told'[p] = <<>>
  BY DEF Nothing
<1>2. IsSeq(<<>>) /\ Len(<<>>) = 0
  BY DEF IsSeq
<1> QED
  BY <1>1, <1>2 DEF ToldOK, RowsJudged, Nothing

LEMMA UncaughtTold ==
  ASSUME IInv, Next, job.stage # "none", Uncaught \/ DeliverException
  PROVE  ToldOK' /\ RowsJudged'
<1>1. pc \in Phases
  BY InJob
<1>2. Judged(NoResult, "FAILED")
  BY DEF Judged
<1> QED
  BY <1>1, <1>2, JudgedRow, ToldKept DEF Uncaught, DeliverException, Stop

LEMMA ToldStatusMeans ==
  ASSUME NEW r, ToldStatus(r) = "COMPLETE"
  PROVE  Selectable(r)
BY DEF ToldStatus

LEMMA CachedTold ==
  ASSUME IInv, Next, LoadCached
  PROVE  ToldOK' /\ RowsJudged'
<1> DEFINE cached == dirs[job.id].files.summary
<1>1. job.stage = "ask" /\ UNCHANGED slips
  BY DEF LoadCached
<1>2. CASE told' = told
  BY <1>2, ToldKept
<1>3. CASE Uncaught
  BY <1>1, <1>3, UncaughtTold
<1>4. CASE Replayable(dirs[job.id]) /\ Deliver(cached, ToldStatus(cached))
  <2>1. pc \in Phases /\ job.id \in TrialIds
    BY <1>1, InJob
  <2>2. ASSUME "unjudged" \notin slips', ToldStatus(cached) = "COMPLETE"
        PROVE  cached.evidence = "full"
    <3>1. Selectable(cached)
      BY <2>2, ToldStatusMeans
    <3>2. DirectoryOK(dirs[job.id], runs)
      BY <2>1 DEF IInv, DirsOK
    <3>3. /\ dirs[job.id].files = dirs[job.id].seal
          /\ dirs[job.id].files.status = "COMPLETE"
      BY <1>4, <3>1, <3>2, ReplayableIsSealed
    <3>4. Doubtful(dirs[job.id].seal) => Stale(dirs[job.id])
      BY <1>1, <2>1, <2>2, StaleUnless
    <3> QED
      BY <3>1, <3>3, <3>4 DEF Doubtful, Stale
  <2>3. Judged(cached, ToldStatus(cached))
    BY <2>2 DEF Judged
  <2> QED
    BY <1>4, <2>1, <2>3, JudgedRow
<1> QED
  BY <1>2, <1>3, <1>4 DEF LoadCached, Stage

LEMMA JudgeTold ==
  ASSUME IInv, Next, FinalizeJudge
  PROVE  ToldOK' /\ RowsJudged'
<1>1. job.stage = "sealed" /\ pc \in Phases
  BY InJob DEF FinalizeJudge
<1>2. CASE told' = told
  BY <1>2, ToldKept
<1>3. CASE JudgeReason(job.res, Files) = "none" /\ Deliver(job.res, ToldStatus(job.res))
  <2>1. ToldStatus(job.res) = "COMPLETE" => job.res.evidence = "full"
    BY <1>3, ToldStatusMeans, JudgeRejects DEF Selectable
  <2> QED
    BY <1>1, <1>3, <2>1, JudgedRow DEF Judged
<1> QED
  BY <1>2, <1>3 DEF FinalizeJudge

LEMMA ToldStep ==
  ASSUME IInv, Next
  PROVE  ToldOK' /\ RowsJudged'
<1>1. CASE Boot
  BY <1>1, NothingTold DEF Boot
<1>2. CASE LoadCached
  BY <1>2, CachedTold
<1>3. CASE FinalizeJudge
  BY <1>3, JudgeTold
<1>4. CASE FinalizeReseal
  <2>1. job.stage = "demoted" /\ pc \in Phases
    BY <1>4, InJob DEF FinalizeReseal
  <2>2. CASE Deliver(job.res, "FAILED")
    BY <2>1, <2>2, JudgedRow DEF Judged
  <2>3. CASE Uncaught
    BY <2>1, <2>3, UncaughtTold
  <2> QED
    BY <1>4, <2>2, <2>3 DEF FinalizeReseal
<1>5. CASE RunRaises
  <2>1. job.stage # "none"
    BY <1>5 DEF RunRaises
  <2>2. CASE told' = told
    BY <2>2, ToldKept
  <2>3. CASE DeliverException
    BY <2>1, <2>3, UncaughtTold
  <2> QED
    BY <1>5, <2>2, <2>3 DEF RunRaises
<1>6. CASE Failing
  <2>1. CASE Crash
    BY <2>1, ToldKept DEF Crash, Stop
  <2>2. CASE FinalizerRaises
    BY <2>2, UncaughtTold DEF FinalizerRaises
  <2> QED
    BY <1>6, <2>1, <2>2 DEF Failing
<1>7. CASE Quiet /\ ~Boot /\ ~LoadCached
  <2>1. CASE CreateRoot \/ SaveManifest \/ SaveInputs \/ Reopen
    BY <2>1, ToldKept DEF CreateRoot, SaveManifest, SaveInputs, Reopen
  <2>2. CASE RefuseRoot \/ RefuseIdentity \/ Exhausted \/ RefuseAttestation
             \/ SealExperiment
    BY <2>2, ToldKept
       DEF RefuseRoot, RefuseIdentity, Exhausted, RefuseAttestation, SealExperiment, Stop
  <2>3. CASE AskSearch \/ AskRepeat \/ EndPhase
    BY <2>3, ToldKept DEF AskSearch, AskRepeat, NextJob, EndPhase
  <2>4. CASE Report \/ WriteSummary \/ WriteViews
    BY <2>4, ToldKept DEF Report, WriteSummary, WriteViews
  <2> QED
    BY <1>7, <2>1, <2>2, <2>3, <2>4 DEF Quiet
<1>8. CASE Writing /\ ~FinalizeJudge /\ ~FinalizeReseal /\ ~RunRaises
  <2>1. CASE AskCapacity
    BY <2>1, ToldKept DEF AskCapacity, NextJob
  <2>2. CASE OpenTrial \/ SaveSummary \/ FinalizeSeal
    BY <2>2, ToldKept DEF OpenTrial, SaveSummary, FinalizeSeal, Stage
  <2>3. CASE Measure \/ Timeout
    BY <2>3, ToldKept DEF Measure, MeasureTrial, Timeout
  <2>4. CASE AbortTrial
    BY <2>4, ToldKept DEF AbortTrial, Stop
  <2> QED
    BY <1>8, <2>1, <2>2, <2>3, <2>4 DEF Writing
<1> QED
  BY <1>1, <1>2, <1>3, <1>4, <1>5, <1>6, <1>7, <1>8, NextSplit

-----------------------------------------------------------------------------
(* The rows of a boot *)

Delivers ==
  job.stage # "none" /\ \E r : \E status \in {ToldStatus(r), "FAILED"} : Deliver(r, status)

\* A boot begins with nothing told, and each evaluation adds one row.
LEMMA ToldCases ==
  ASSUME Next
  PROVE  (told' = told /\ (round' = round \/ AskSearch)) \/ Boot \/ Delivers
<1>1. CASE CreateRoot \/ SaveManifest \/ SaveInputs \/ Reopen \/ Report \/ WriteSummary
           \/ WriteViews \/ EndPhase
  BY <1>1 DEF CreateRoot, SaveManifest, SaveInputs, Reopen, Report, WriteSummary,
              WriteViews, EndPhase
<1>2. CASE RefuseRoot \/ RefuseIdentity \/ Exhausted \/ RefuseAttestation
           \/ SealExperiment \/ Crash
  BY <1>2 DEF RefuseRoot, RefuseIdentity, Exhausted, RefuseAttestation, SealExperiment,
              Crash, Stop
<1>3. CASE AskSearch \/ AskRepeat \/ AskCapacity
  BY <1>3 DEF AskSearch, AskRepeat, AskCapacity, NextJob
<1>4. CASE OpenTrial \/ Measure \/ Timeout \/ SaveSummary \/ FinalizeSeal
  BY <1>4 DEF OpenTrial, Measure, MeasureTrial, Timeout, SaveSummary, FinalizeSeal, Stage
<1>5. CASE LoadCached \/ FinalizerRaises \/ FinalizeReseal
  <2>1. job.stage # "none"
    BY <1>5 DEF LoadCached, FinalizerRaises, FinalizeReseal
  <2>2. ASSUME Uncaught
        PROVE  \/ UNCHANGED <<told, round>>
               \/ \E r : \E status \in {ToldStatus(r), "FAILED"} : Deliver(r, status)
    BY <2>2 DEF Uncaught, DeliverException, Stop
  <2> QED
    BY <1>5, <2>1, <2>2 DEF LoadCached, FinalizerRaises, FinalizeReseal, Stage, Delivers
<1>6. CASE RunRaises \/ FinalizeJudge
  BY <1>6 DEF RunRaises, FinalizeJudge, DeliverException, Delivers
<1>7. CASE AbortTrial
  BY <1>7 DEF AbortTrial, Stop
<1> QED
  BY <1>1, <1>2, <1>3, <1>4, <1>5, <1>6, <1>7, NextSplit DEF Quiet, Writing, Failing

\* The row of an evaluation, at the end of the log of its phase.
LEMMA DeliveredRow ==
  ASSUME IInv, job.stage # "none", NEW r, NEW status, Deliver(r, status)
  PROVE  /\ pc \in Phases /\ pc' = pc /\ ToldOK'
         /\ told'[pc] = Append(told[pc], Row(r, status))
         /\ \A p \in Phases : p # pc => told'[p] = told[p]
         /\ Len(told'[pc]) = Len(told[pc]) + 1
         /\ told'[pc][Len(told[pc]) + 1] = Row(r, status)
         /\ \A i \in 1..Len(told[pc]) : told'[pc][i] = told[pc][i]
<1> DEFINE row == Row(r, status)
<1>1. pc \in Phases /\ ToldOK /\ told = [p \in Phases |-> told[p]]
  BY InJob DEF IInv, ToldOK
<1>2. told' = [p \in Phases |-> IF p = pc THEN Append(told[pc], row) ELSE told[p]]
      /\ pc' = pc
  BY <1>1 DEF Deliver
<1> HIDE DEF row
<1>3. told'[pc] = Append(told[pc], row) /\ \A p \in Phases : p # pc => told'[p] = told[p]
  BY <1>1, <1>2
<1>4. IsSeq(told[pc])
  BY <1>1 DEF ToldOK
<1>5. ToldOK'
  BY <1>1, Delivery
<1> QED
  BY <1>1, <1>2, <1>3, <1>4, <1>5, AppendIsSeq DEF row

LEMMA RowsStep ==
  ASSUME IInv, Next
  PROVE  RowsOK'
<1>1. CASE told' = told
  BY <1>1 DEF IInv, RowsOK, RowOK
<1>2. CASE Boot
  <2>1. \A p \in Phases : told'[p] = <<>> /\ Len(<<>>) = 0
    BY <1>2 DEF Boot, Nothing
  <2> QED
    BY <2>1 DEF RowsOK
<1>3. CASE Delivers
  <2>1. PICK r, status : job.stage # "none" /\ Deliver(r, status)
    BY <1>3 DEF Delivers
  <2>2. RowOK(pc, Row(r, status))
    BY <2>1 DEF Row, RowOK, IInv, JobOK
  <2>3. Len(told[pc]) \in Nat
    BY <2>1, InJob, LogIsSeq DEF IInv
  <2>4. \A p \in Phases : \A i \in 1..Len(told'[p]) :
          \/ told'[p][i] = Row(r, status) /\ p = pc
          \/ i \in 1..Len(told[p]) /\ told'[p][i] = told[p][i]
    BY <2>1, <2>3, DeliveredRow
  <2> QED
    BY <2>2, <2>4 DEF RowsOK, RowOK, IInv
<1> QED
  BY <1>1, <1>2, <1>3, ToldCases

LEMMA RoundStep ==
  ASSUME IInv, Next
  PROVE  RoundOK'
<1>1. CASE round' = round
  BY <1>1 DEF IInv, RoundOK
<1>2. CASE AskSearch
  BY <1>2, AskSearchIs DEF RoundOK
<1>3. CASE Boot
  BY <1>3 DEF Boot, RoundOK
<1>4. CASE Delivers
  BY <1>4 DEF Delivers, Deliver, RoundOK, IInv
<1> QED
  BY <1>1, <1>2, <1>3, <1>4, ToldCases

-----------------------------------------------------------------------------
LEMMA InitIInv ==
  ASSUME Init
  PROVE  IInv
<1>1. DirsOK
  BY EmptyFilesOK DEF Init, DirsOK, DirectoryOK, EmptyDirectory
<1>2. JobOK /\ SealedOK
  BY NoResultOK DEF Init, JobOK, SealedOK, NoJob
<1>3. ToldOK /\ RowsJudged /\ RowsOK /\ RoundOK
  <2>1. \A p \in Phases : told[p] = <<>>
    BY DEF Init, Nothing
  <2>2. IsSeq(<<>>) /\ Len(<<>>) = 0
    BY DEF IsSeq
  <2> QED
    BY <2>1, <2>2 DEF Init, ToldOK, RowsJudged, RowsOK, RoundOK, Nothing
<1>4. SealsJudged
  BY DEF Init, SealsJudged, EmptyDirectory, EmptyFiles, Doubtful
<1> QED
  BY <1>1, <1>2, <1>3, <1>4 DEF IInv

LEMMA StutterIInv ==
  ASSUME IInv, UNCHANGED vars
  PROVE  IInv'
<1>1. UNCHANGED <<pc, told, job, round, dirs, runs, slips>>
  BY DEF vars, process, disk, history
<1>2. DirsOK' /\ JobOK' /\ ToldOK' /\ RowsOK' /\ RoundOK'
  BY <1>1 DEF IInv, DirsOK, JobOK, ToldOK, RowsOK, RowOK, RoundOK
<1>3. SealedOK' /\ SealsJudged' /\ RowsJudged'
  BY <1>1 DEF IInv, SealedOK, SealsJudged, RowsJudged, Doubtful, Stale, Selectable
<1> QED
  BY <1>2, <1>3 DEF IInv

\* What every boot may rely on: the trial in hand belongs to the experiment, and
\* every seal on a result without its telemetry is about to be judged or no
\* longer fits its files (unless a crash came between the seal and the verdict).
THEOREM Invariant == Spec => []IInv
<1>1. Init => IInv
  BY InitIInv
<1>2. IInv /\ [Next]_vars => IInv'
  <2>1. IInv /\ Next => IInv'
    BY DirsStep, JobStep, RowsStep, RoundStep, SealedStep, SealsStep, ToldStep DEF IInv
  <2>2. IInv /\ UNCHANGED vars => IInv'
    BY StutterIInv
  <2> QED
    BY <2>1, <2>2
<1> QED
  BY <1>1, <1>2, PTL DEF Spec

\* A trial counts as measured only with the telemetry the finalizer asks for,
\* whatever failed, timed out, crashed and was resumed or replayed, unless the
\* process died or a write raised between the finalizer's seal and its verdict.
THEOREM MeasuredWasJudged == Spec => []SelectableWasJudged
<1>1. IInv => SelectableWasJudged
  <2> SUFFICES ASSUME IInv, "unjudged" \notin slips, NEW row \in Rows,
                      row.status = "COMPLETE"
               PROVE  row.result.evidence = "full"
    BY DEF SelectableWasJudged
  <2>1. PICK p \in Phases : \E i \in DOMAIN told[p] : row = told[p][i]
    BY DEF Rows, RowsOf
  <2>2. DOMAIN told[p] = 1..Len(told[p])
    BY DEF IInv, ToldOK, IsSeq
  <2> QED
    BY <2>1, <2>2 DEF IInv, RowsJudged
<1> QED
  BY <1>1, Invariant, PTL

-----------------------------------------------------------------------------
(* A boot goes forward *)

LEMMA PlaceOfElement ==
  ASSUME NEW order, NEW i \in DOMAIN order, NEW s, s = order[i],
         \A j \in DOMAIN order : order[j] = s => j = i
  PROVE  Place(order, s) = i
BY DEF Place

LEMMA PhasePlaces ==
  /\ Place(PhaseOrder, "init") = 1 /\ Place(PhaseOrder, "manifest") = 2
  /\ Place(PhaseOrder, "inputs") = 3 /\ Place(PhaseOrder, "search") = 4
  /\ Place(PhaseOrder, "repeat") = 5 /\ Place(PhaseOrder, "holdout") = 6
  /\ Place(PhaseOrder, "capacity") = 7 /\ Place(PhaseOrder, "report") = 8
  /\ Place(PhaseOrder, "summary") = 9 /\ Place(PhaseOrder, "attest") = 10
  /\ Place(PhaseOrder, "seal") = 11
<1>1. DOMAIN PhaseOrder = 1..11
  BY DEF PhaseOrder
<1>2. \A i, j \in 1..11 : PhaseOrder[i] = PhaseOrder[j] => i = j
  BY DEF PhaseOrder
<1>3. \A i \in 1..11 : Place(PhaseOrder, PhaseOrder[i]) = i
  BY <1>1, <1>2, PlaceOfElement
<1> QED
  BY <1>3 DEF PhaseOrder

LEMMA StagePlaces ==
  /\ Place(StageOrder, "none") = 1 /\ Place(StageOrder, "ask") = 2
  /\ Place(StageOrder, "run") = 3 /\ Place(StageOrder, "open") = 4
  /\ Place(StageOrder, "measured") = 5 /\ Place(StageOrder, "unsafe") = 6
  /\ Place(StageOrder, "cancelled") = 7 /\ Place(StageOrder, "returned") = 8
  /\ Place(StageOrder, "sealed") = 9 /\ Place(StageOrder, "demoted") = 10
<1>1. DOMAIN StageOrder = 1..10
  BY DEF StageOrder
<1>2. \A i, j \in 1..10 : StageOrder[i] = StageOrder[j] => i = j
  BY DEF StageOrder
<1>3. \A i \in 1..10 : Place(StageOrder, StageOrder[i]) = i
  BY <1>1, <1>2, PlaceOfElement
<1> QED
  BY <1>3 DEF StageOrder

LEMMA ToldSame == told' = told => Told' = Told
BY DEF Told

LEMMA Telling ==
  ASSUME IInv, pc \in Phases, NEW r, NEW status, Deliver(r, status)
  PROVE  Advances
<1>1. ToldOK
  BY DEF IInv
<1>2. /\ Len(told'[pc]) = Len(told[pc]) + 1
      /\ \A p \in Phases : p # pc => told'[p] = told[p]
  BY <1>1, Delivery
<1>3. \A p \in Phases : Len(told[p]) \in Nat
  BY <1>1, AppendIsSeq DEF ToldOK
<1>4. Told' > Told
  <2> DEFINE a == Len(told["search"])   a2 == Len(told'["search"])
             b == Len(told["repeat"])   b2 == Len(told'["repeat"])
             c == Len(told["holdout"])  c2 == Len(told'["holdout"])
             d == Len(told["capacity"]) d2 == Len(told'["capacity"])
  <2>1. a \in Nat /\ b \in Nat /\ c \in Nat /\ d \in Nat
    BY <1>3 DEF Phases
  <2>2. \/ a2 = a + 1 /\ b2 = b /\ c2 = c /\ d2 = d
        \/ a2 = a /\ b2 = b + 1 /\ c2 = c /\ d2 = d
        \/ a2 = a /\ b2 = b /\ c2 = c + 1 /\ d2 = d
        \/ a2 = a /\ b2 = b /\ c2 = c /\ d2 = d + 1
    BY <1>2 DEF Phases
  <2>3. Told = a + b + c + d /\ Told' = a2 + b2 + c2 + d2
    BY DEF Told
  <2> HIDE DEF a, b, c, d, a2, b2, c2, d2
  <2>4. a2 + b2 + c2 + d2 > a + b + c + d
    BY <2>1, <2>2
  <2> QED
    BY <2>3, <2>4
<1> QED
  BY <1>4 DEF Advances

LEMMA StopAdvances ==
  ASSUME NEW how, Stop(how)
  PROVE  Advances
BY DEF Stop, Advances

LEMMA UncaughtAdvances ==
  ASSUME IInv, job.stage # "none", Uncaught \/ DeliverException
  PROVE  Advances
BY InJob, Telling, StopAdvances DEF Uncaught, DeliverException

LEMMA PhaseAdvances ==
  ASSUME told' = told, Place(PhaseOrder, pc') > Place(PhaseOrder, pc)
  PROVE  Advances
BY ToldSame DEF Advances

LEMMA StageAdvances ==
  ASSUME told' = told, pc' = pc,
         Place(StageOrder, job'.stage) > Place(StageOrder, job.stage)
  PROVE  Advances
BY ToldSame DEF Advances

LEMMA QuietAdvances ==
  ASSUME IInv, Quiet
  PROVE  pc = "off" \/ Advances
<1>0. DOMAIN job = JobNames /\ NoJob.stage = "none" /\ DOMAIN NoJob = JobNames
  BY NoJobOK DEF IInv, JobOK, JobNames
<1>1. CASE Boot
  BY <1>1 DEF Boot
<1>2. CASE CreateRoot \/ SaveManifest \/ SaveInputs \/ Reopen
  BY <1>2, PhasePlaces, PhaseAdvances DEF CreateRoot, SaveManifest, SaveInputs, Reopen
<1>3. CASE RefuseRoot \/ RefuseIdentity \/ Exhausted \/ RefuseAttestation
           \/ SealExperiment
  BY <1>3, StopAdvances
     DEF RefuseRoot, RefuseIdentity, Exhausted, RefuseAttestation, SealExperiment
<1>4. CASE AskSearch
  <2>1. job.stage = "none" /\ job'.stage = "ask" /\ pc' = pc /\ told' = told
    BY <1>0, <1>4, AskedIs DEF AskSearch
  <2> QED
    BY <2>1, StagePlaces, StageAdvances
<1>5. CASE AskRepeat
  <2>1. job.stage = "none" /\ job'.stage = "ask" /\ pc' = pc /\ told' = told
    BY <1>0, <1>5, AskedIs DEF AskRepeat, NextJob
  <2> QED
    BY <2>1, StagePlaces, StageAdvances
<1>6. CASE EndPhase
  <2>1. pc \in Phases /\ pc' = NextPhase[pc] /\ told' = told
    BY <1>6 DEF EndPhase
  <2>2. Place(PhaseOrder, NextPhase[pc]) > Place(PhaseOrder, pc)
    BY <2>1, PhasePlaces DEF Phases, NextPhase
  <2> QED
    BY <2>1, <2>2, PhaseAdvances
<1>7. CASE LoadCached
  <2>1. job.stage = "ask" /\ pc \in Phases
    BY <1>7, InJob DEF LoadCached
  <2>2. CASE Uncaught
    BY <2>1, <2>2, UncaughtAdvances
  <2>3. CASE \E r, status : Deliver(r, status)
    BY <2>1, <2>3, Telling
  <2>4. CASE /\ \/ job' = [job EXCEPT !.stage = "run"]
                \/ job' = [job EXCEPT !.stage = "returned", !.res = Files.summary]
             /\ pc' = pc /\ told' = told
    <3>1. job'.stage \in {"run", "returned"}
      BY <1>0, <2>4 DEF JobNames
    <3> QED
      BY <2>1, <2>4, <3>1, StagePlaces, StageAdvances
  <2> QED
    BY <1>7, <2>2, <2>3, <2>4 DEF LoadCached, Stage, Files
<1>8. CASE Report \/ WriteSummary \/ WriteViews
  BY <1>8, PhasePlaces, PhaseAdvances DEF Report, WriteSummary, WriteViews
<1> QED
  BY <1>1, <1>2, <1>3, <1>4, <1>5, <1>6, <1>7, <1>8 DEF Quiet

LEMMA WritingAdvances ==
  ASSUME IInv, Writing
  PROVE  Advances
<1>0. DOMAIN job = JobNames /\ NoJob.stage = "none" /\ DOMAIN NoJob = JobNames
  BY NoJobOK DEF IInv, JobOK, JobNames
<1>1. CASE AskCapacity
  <2>1. job.stage = "none" /\ job'.stage = "ask" /\ pc' = pc /\ told' = told
    BY <1>0, <1>1, AskedIs DEF AskCapacity, NextJob
  <2> QED
    BY <2>1, StagePlaces, StageAdvances
<1>2. CASE OpenTrial
  <2>1. job.stage = "run" /\ job'.stage = "open" /\ pc' = pc /\ told' = told
    BY <1>0, <1>2 DEF OpenTrial, Stage, JobNames
  <2> QED
    BY <2>1, StagePlaces, StageAdvances
<1>3. CASE Measure \/ Timeout
  <2>1. /\ job.stage = "open" /\ pc' = pc /\ told' = told
        /\ job'.stage \in {"measured", "unsafe", "cancelled"}
    BY <1>0, <1>3 DEF Measure, MeasureTrial, Timeout, JobNames
  <2> QED
    BY <2>1, StagePlaces, StageAdvances
<1>4. CASE SaveSummary \/ FinalizeSeal
  <2>1. /\ pc' = pc /\ told' = told
        /\ \/ job.stage = "measured" /\ job'.stage = "returned"
           \/ job.stage = "returned" /\ job'.stage = "sealed"
    BY <1>0, <1>4 DEF SaveSummary, FinalizeSeal, Stage, JobNames
  <2> QED
    BY <2>1, StagePlaces, StageAdvances
<1>5. CASE AbortTrial
  BY <1>5, StopAdvances DEF AbortTrial
<1>6. CASE RunRaises
  <2>1. job.stage \in {"run", "open", "measured", "unsafe", "cancelled"}
    BY <1>6 DEF RunRaises
  <2>2. CASE DeliverException
    BY <2>1, <2>2, UncaughtAdvances
  <2>3. CASE /\ job' = [job EXCEPT !.stage = "returned", !.res = Synthetic(job.params)]
             /\ pc' = pc /\ told' = told
    <3>1. job'.stage = "returned"
      BY <1>0, <2>3 DEF JobNames
    <3> QED
      BY <2>1, <2>3, <3>1, StagePlaces, StageAdvances
  <2> QED
    BY <1>6, <2>2, <2>3 DEF RunRaises
<1>7. CASE FinalizeJudge
  <2>1. job.stage = "sealed" /\ pc \in Phases
    BY <1>7, InJob DEF FinalizeJudge
  <2>2. CASE Deliver(job.res, ToldStatus(job.res))
    BY <2>1, <2>2, Telling
  <2>3. CASE /\ job' = [job EXCEPT !.res = DemotedResult(job.res, Files),
                                   !.stage = "demoted"]
             /\ pc' = pc /\ told' = told
    <3>1. job'.stage = "demoted"
      BY <1>0, <2>3 DEF JobNames
    <3> QED
      BY <2>1, <2>3, <3>1, StagePlaces, StageAdvances
  <2> QED
    BY <1>7, <2>2, <2>3 DEF FinalizeJudge
<1>8. CASE FinalizeReseal
  <2>1. job.stage = "demoted" /\ pc \in Phases
    BY <1>8, InJob DEF FinalizeReseal
  <2>2. CASE Deliver(job.res, "FAILED")
    BY <2>1, <2>2, Telling
  <2>3. CASE Uncaught
    BY <2>1, <2>3, UncaughtAdvances
  <2> QED
    BY <1>8, <2>2, <2>3 DEF FinalizeReseal
<1> QED
  BY <1>1, <1>2, <1>3, <1>4, <1>5, <1>6, <1>7, <1>8 DEF Writing

LEMMA FailingAdvances ==
  ASSUME IInv, Failing
  PROVE  Advances
<1>1. CASE FinalizerRaises
  <2>1. job.stage # "none"
    BY <1>1 DEF FinalizerRaises
  <2> QED
    BY <1>1, <2>1, UncaughtAdvances DEF FinalizerRaises
<1>2. CASE Crash
  BY <1>2, StopAdvances DEF Crash
<1> QED
  BY <1>1, <1>2 DEF Failing

\* No boot runs for ever: every step tells one more trial, enters a later phase
\* or a later stage of the trial, or ends the process (the loops of run_all,
\* repeat_candidates and the capacity sweep).
THEOREM BootsGoForward == Spec => EveryStepAdvances
<1>1. IInv /\ [Next]_vars => [pc = "off" \/ Advances]_vars
  BY QuietAdvances, WritingAdvances, FailingAdvances, NextSplit
<1> QED
  BY <1>1, Invariant, PTL DEF Spec, EveryStepAdvances

-----------------------------------------------------------------------------
(* Counting in a log *)

LEMMA AppendIs ==
  ASSUME NEW s, IsSeq(s), NEW x
  PROVE  /\ DOMAIN s = 1..Len(s) /\ Len(s) \in Nat
         /\ DOMAIN Append(s, x) = 1..(Len(s) + 1)
         /\ IsSeq(Append(s, x)) /\ Len(Append(s, x)) = Len(s) + 1
         /\ Append(s, x)[Len(s) + 1] = x
         /\ \A i \in 1..Len(s) : Append(s, x)[i] = s[i]
<1>1. IsSeq(Append(s, x))
  BY AppendIsSeq
<1>0. DOMAIN s = 1..Len(s)
  BY DEF IsSeq
<1>2. DOMAIN Append(s, x) = 1..Len(Append(s, x))
  BY <1>1 DEF IsSeq
<1> QED
  BY <1>0, <1>1, <1>2, AppendIsSeq

Counts(t) == t.status \in {"COMPLETE", "INFEASIBLE"}

LEMMA AttemptsAppend ==
  ASSUME NEW s, IsSeq(s), NEW x, NEW m
  PROVE  /\ Attempts(s, m) \in Nat /\ Attempts(Append(s, x), m) \in Nat
         /\ x.method = m => Attempts(Append(s, x), m) = Attempts(s, m) + 1
         /\ x.method # m => Attempts(Append(s, x), m) = Attempts(s, m)
<1> DEFINE a == Append(s, x)
           S == {i \in DOMAIN s : s[i].method = m}
           T == {i \in DOMAIN a : a[i].method = m}
<1>1. /\ DOMAIN s = 1..Len(s) /\ Len(s) \in Nat /\ DOMAIN a = 1..(Len(s) + 1)
      /\ a[Len(s) + 1] = x /\ \A i \in 1..Len(s) : a[i] = s[i]
  BY AppendIs
<1>2. S \subseteq 1..Len(s)
  BY <1>1
<1>3. T = IF x.method = m THEN S \cup {Len(s) + 1} ELSE S
  BY <1>1
<1>4. Attempts(s, m) = Cardinality(S) /\ Attempts(a, m) = Cardinality(T)
  BY DEF Attempts
<1> HIDE DEF S, T, a
<1>5. ASSUME x.method = m
      PROVE  Cardinality(T) = Cardinality(S) + 1
  <2>1. T = S \cup {Len(s) + 1}
    BY <1>3, <1>5
  <2>2. PICK n \in Nat : n = Len(s)
    BY <1>1
  <2>3. S \subseteq 1..n /\ T = S \cup {n + 1}
    BY <1>2, <2>1, <2>2
  <2>4. IsFiniteSet(S)
    BY <2>3, CountType
  <2>5. n + 1 \notin S
    BY <2>3
  <2> QED
    BY <2>3, <2>4, <2>5, FS_AddElement
<1>6. x.method # m => Cardinality(T) = Cardinality(S)
  BY <1>3
<1>7. Cardinality(S) \in 0..Len(s)
  BY <1>1, <1>2, CountType
<1> QED
  BY <1>1, <1>4, <1>5, <1>6, <1>7 DEF a

LEMMA EvaluatedAppend ==
  ASSUME NEW s, IsSeq(s), NEW x, NEW m
  PROVE  /\ Evaluated(s, m) \in Nat /\ Evaluated(Append(s, x), m) \in Nat
         /\ x.method = m /\ Counts(x)
              => Evaluated(Append(s, x), m) = Evaluated(s, m) + 1
         /\ ~(x.method = m /\ Counts(x)) => Evaluated(Append(s, x), m) = Evaluated(s, m)
<1> DEFINE a == Append(s, x)
           S == {i \in DOMAIN s : s[i].method = m /\ Counts(s[i])}
           T == {i \in DOMAIN a : a[i].method = m /\ Counts(a[i])}
<1>1. /\ DOMAIN s = 1..Len(s) /\ Len(s) \in Nat /\ DOMAIN a = 1..(Len(s) + 1)
      /\ a[Len(s) + 1] = x /\ \A i \in 1..Len(s) : a[i] = s[i]
  BY AppendIs
<1>2. S \subseteq 1..Len(s)
  BY <1>1
<1>3. T = IF x.method = m /\ Counts(x) THEN S \cup {Len(s) + 1} ELSE S
  BY <1>1
<1>4. Evaluated(s, m) = Cardinality(S) /\ Evaluated(a, m) = Cardinality(T)
  BY DEF Evaluated, Counts
<1> HIDE DEF S, T, a
<1>5. ASSUME x.method = m /\ Counts(x)
      PROVE  Cardinality(T) = Cardinality(S) + 1
  <2>1. T = S \cup {Len(s) + 1}
    BY <1>3, <1>5
  <2>2. PICK n \in Nat : n = Len(s)
    BY <1>1
  <2>3. S \subseteq 1..n /\ T = S \cup {n + 1}
    BY <1>2, <2>1, <2>2
  <2>4. IsFiniteSet(S)
    BY <2>3, CountType
  <2>5. n + 1 \notin S
    BY <2>3
  <2> QED
    BY <2>3, <2>4, <2>5, FS_AddElement
<1>6. ~(x.method = m /\ Counts(x)) => Cardinality(T) = Cardinality(S)
  BY <1>3
<1>7. Cardinality(S) \in 0..Len(s)
  BY <1>1, <1>2, CountType
<1> QED
  BY <1>1, <1>4, <1>5, <1>6, <1>7 DEF a

LEMMA EmptyLog ==
  /\ IsSeq(<<>>) /\ Len(<<>>) = 0 /\ RowsOf(<<>>) = {}
  /\ \A m : Evaluated(<<>>, m) = 0 /\ Attempts(<<>>, m) = 0
<1>1. \A m : {i \in DOMAIN <<>> : <<>>[i].method = m} = {}
  OBVIOUS
<1>2. \A m : {i \in DOMAIN <<>> : <<>>[i].method = m /\ Counts(<<>>[i])} = {}
  OBVIOUS
<1>3. Cardinality({}) = 0
  BY FS_EmptySet
<1> QED
  BY <1>1, <1>2, <1>3 DEF IsSeq, RowsOf, Evaluated, Attempts, Counts

-----------------------------------------------------------------------------
(* Where a boot is *)

Starting == {"init", "manifest", "inputs"}
Ending == {"report", "summary", "attest", "seal"}

\* A boot begins with nothing told.
FreshOK == pc \in Starting => told = Nothing /\ round = {}

StatusOK ==
  \A i \in 1..Len(told["search"]) :
    told["search"][i].status \in {"COMPLETE", "INFEASIBLE", "FAILED"}

\* In a round only methods that are short of their budget are run, so none gets
\* ahead; the search ends when none is short.
BudgetOK ==
  /\ pc = "search" =>
       /\ \A m \in MethodSet : Evaluated(told["search"], m) <= Budget
       /\ \A m \in round : Short(told["search"], m)
       /\ job.stage # "none" => job.id[2] \in round
  /\ pc \in {"repeat", "holdout", "capacity"} \cup Ending =>
       \A m \in MethodSet : Evaluated(told["search"], m) = Budget

BInv == FreshOK /\ StatusOK /\ BudgetOK

\* The steps that leave the logs alone, and where they go.
LEMMA PhaseMoves ==
  ASSUME JobOK, Next
  PROVE  \/ pc' = "off"
         \/ pc' = pc
         \/ pc = "off" /\ pc' = "init" /\ Boot
         \/ pc = "init" /\ pc' = "manifest" /\ CreateRoot
         \/ pc = "manifest" /\ pc' = "inputs" /\ SaveManifest
         \/ pc = "inputs" /\ pc' = "search" /\ SaveInputs
         \/ pc = "init" /\ pc' = "search" /\ Reopen
         \/ pc \in Phases /\ pc' = NextPhase[pc] /\ EndPhase
         \/ pc = "report" /\ pc' = "summary" /\ Report
         \/ pc = "summary" /\ pc' = "attest" /\ WriteSummary
         \/ pc = "attest" /\ pc' = "seal" /\ WriteViews
<1>1. CASE CreateRoot \/ SaveManifest \/ SaveInputs \/ Reopen \/ Report \/ WriteSummary
           \/ WriteViews \/ EndPhase \/ Boot
  BY <1>1 DEF CreateRoot, SaveManifest, SaveInputs, Reopen, Report, WriteSummary,
              WriteViews, EndPhase, Boot
<1>2. CASE RefuseRoot \/ RefuseIdentity \/ Exhausted \/ RefuseAttestation
           \/ SealExperiment \/ Crash
  BY <1>2 DEF RefuseRoot, RefuseIdentity, Exhausted, RefuseAttestation, SealExperiment,
              Crash, Stop
<1>3. CASE AskSearch \/ AskRepeat \/ AskCapacity
  BY <1>3 DEF AskSearch, AskRepeat, AskCapacity, NextJob
<1>4. CASE OpenTrial \/ Measure \/ Timeout \/ SaveSummary \/ FinalizeSeal
  BY <1>4 DEF OpenTrial, Measure, MeasureTrial, Timeout, SaveSummary, FinalizeSeal, Stage
<1>5. CASE LoadCached \/ FinalizerRaises \/ FinalizeReseal
  BY <1>5 DEF LoadCached, FinalizerRaises, FinalizeReseal, Uncaught, DeliverException,
              Deliver, Stop, Stage
<1>6. CASE RunRaises \/ FinalizeJudge
  BY <1>6 DEF RunRaises, FinalizeJudge, DeliverException, Deliver
<1>7. CASE AbortTrial
  BY <1>7 DEF AbortTrial, Stop
<1> QED
  BY <1>1, <1>2, <1>3, <1>4, <1>5, <1>6, <1>7, NextSplit DEF Quiet, Writing, Failing

Asks == AskSearch \/ AskRepeat \/ AskCapacity

\* From its request to its delivery an evaluation is of one trial.
LEMMA JobMoves ==
  ASSUME JobOK, Next
  PROVE  \/ job'.stage = "none"
         \/ job.stage # "none" /\ job'.id = job.id /\ job'.params = job.params
         \/ Asks
<1>0. DOMAIN job = {"id", "params", "stage", "res"} /\ NoJob.stage = "none"
  BY NoJobOK DEF JobOK
<1>1. CASE CreateRoot \/ SaveManifest \/ SaveInputs \/ Reopen \/ Report \/ WriteSummary
           \/ WriteViews \/ EndPhase \/ Boot
  BY <1>1 DEF CreateRoot, SaveManifest, SaveInputs, Reopen, Report, WriteSummary,
              WriteViews, EndPhase, Boot
<1>2. CASE RefuseRoot \/ RefuseIdentity \/ Exhausted \/ RefuseAttestation
           \/ SealExperiment \/ Crash \/ AbortTrial
  BY <1>0, <1>2 DEF RefuseRoot, RefuseIdentity, Exhausted, RefuseAttestation,
              SealExperiment, Crash, AbortTrial, Stop
<1>3. CASE Asks
  BY <1>3
<1>4. CASE OpenTrial \/ Measure \/ Timeout \/ SaveSummary \/ FinalizeSeal
  BY <1>0, <1>4 DEF OpenTrial, Measure, MeasureTrial, Timeout, SaveSummary, FinalizeSeal,
              Stage
<1>5. CASE LoadCached \/ FinalizerRaises \/ FinalizeReseal
  BY <1>0, <1>5 DEF LoadCached, FinalizerRaises, FinalizeReseal, Uncaught,
              DeliverException, Deliver, Stop, Stage
<1>6. CASE RunRaises \/ FinalizeJudge
  BY <1>0, <1>6 DEF RunRaises, FinalizeJudge, DeliverException, Deliver
<1> QED
  BY <1>1, <1>2, <1>3, <1>4, <1>5, <1>6, NextSplit DEF Quiet, Writing, Failing, Asks

\* What else the steps that change a log do.
LEMMA LogMoves ==
  ASSUME IInv, Next
  PROVE  \/ Boot /\ pc' = "init" /\ told' = Nothing /\ round' = {}
         \/ AskSearch /\ pc = "search" /\ pc' = pc /\ told' = told
         \/ /\ Delivers /\ pc \in Phases /\ pc' = pc /\ job'.stage = "none"
            /\ round' = IF pc = "search" THEN round \ {job.id[2]} ELSE round
            /\ \A p \in Phases : p # pc => told'[p] = told[p]
            /\ IsSeq(told[pc])
            /\ \E r : \E status \in {ToldStatus(r), "FAILED"} :
                 told'[pc] = Append(told[pc], Row(r, status))
         \/ told' = told /\ round' = round
<1>1. CASE Boot
  BY <1>1 DEF Boot
<1>2. CASE AskSearch
  BY <1>2 DEF AskSearch
<1>3. CASE Delivers
  <2>1. PICK r : \E status \in {ToldStatus(r), "FAILED"} :
          job.stage # "none" /\ Deliver(r, status)
    BY <1>3 DEF Delivers
  <2>2. PICK status \in {ToldStatus(r), "FAILED"} :
          job.stage # "none" /\ Deliver(r, status)
    BY <2>1
  <2>3. /\ pc \in Phases /\ pc' = pc /\ told'[pc] = Append(told[pc], Row(r, status))
        /\ \A p \in Phases : p # pc => told'[p] = told[p]
    BY <2>2, DeliveredRow
  <2>4. IsSeq(told[pc])
    BY <2>3 DEF IInv, ToldOK
  <2>5. job'.stage = "none" /\ round' = IF pc = "search" THEN round \ {job.id[2]} ELSE round
    BY <2>2, NoJobOK DEF Deliver
  <2> QED
    BY <1>3, <2>3, <2>4, <2>5
<1> QED
  BY <1>1, <1>2, <1>3, ToldCases

LEMMA Statuses ==
  ASSUME NEW r, NEW status \in {ToldStatus(r), "FAILED"}
  PROVE  status \in {"COMPLETE", "INFEASIBLE", "FAILED"}
BY DEF ToldStatus

LEMMA FreshStep ==
  ASSUME IInv, FreshOK, Next
  PROVE  FreshOK'
<1> SUFFICES ASSUME pc' \in Starting
             PROVE  told' = Nothing /\ round' = {}
  BY DEF FreshOK
<1>1. Boot \/ pc \in Starting
  BY PhaseMoves DEF Starting, IInv, Phases, NextPhase
<1>2. CASE Boot
  BY <1>2 DEF Boot
<1>3. CASE pc \in Starting /\ ~Boot
  <2>1. told' = told /\ round' = round
    BY <1>3, LogMoves DEF Starting, Phases
  <2> QED
    BY <1>3, <2>1 DEF FreshOK
<1> QED
  BY <1>1, <1>2, <1>3

LEMMA StatusStep ==
  ASSUME IInv, StatusOK, Next
  PROVE  StatusOK'
<1>1. CASE told' = Nothing
  <2>1. told'["search"] = <<>> /\ Len(<<>>) = 0
    BY <1>1 DEF Nothing, Phases
  <2> QED
    BY <2>1 DEF StatusOK
<1>2. CASE told'["search"] = told["search"]
  BY <1>2 DEF StatusOK
<1>3. CASE /\ pc = "search" /\ IsSeq(told[pc])
           /\ \E r : \E status \in {ToldStatus(r), "FAILED"} :
                told'[pc] = Append(told[pc], Row(r, status))
  <2>1. PICK r : \E status \in {ToldStatus(r), "FAILED"} :
          told'[pc] = Append(told[pc], Row(r, status))
    BY <1>3
  <2>2. PICK status \in {ToldStatus(r), "FAILED"} :
          told'[pc] = Append(told[pc], Row(r, status))
    BY <2>1
  <2>3. Row(r, status).status \in {"COMPLETE", "INFEASIBLE", "FAILED"}
    BY Statuses DEF Row
  <2> DEFINE row == Row(r, status)
  <2>4. told'["search"] = Append(told["search"], row) /\ IsSeq(told["search"])
    BY <1>3, <2>2
  <2> HIDE DEF row
  <2>5. /\ Len(told'["search"]) = Len(told["search"]) + 1 /\ Len(told["search"]) \in Nat
        /\ told'["search"][Len(told["search"]) + 1] = row
        /\ \A i \in 1..Len(told["search"]) : told'["search"][i] = told["search"][i]
    BY <2>4, AppendIs
  <2> QED
    BY <2>3, <2>5 DEF StatusOK, row
<1> QED
  BY <1>1, <1>2, <1>3, LogMoves DEF Phases

LEMMA SearchRow ==
  ASSUME NEW r, NEW status
  PROVE  Row(r, status).method = job.id[2] /\ Row(r, status).id = job.id
BY DEF Row

LEMMA BudgetType == Budget \in Nat \ {0}
BY RunnerAssumption

LEMMA SearchStep ==
  ASSUME IInv, FreshOK, BudgetOK, Next, pc' = "search"
  PROVE  BudgetOK'
<1> DEFINE s == told["search"]
           t == told'["search"]
<1> SUFFICES /\ \A m \in MethodSet : Evaluated(t, m) <= Budget
             /\ \A m \in round' : Evaluated(t, m) < Budget
             /\ job'.stage # "none" => job'.id[2] \in round'
  BY DEF BudgetOK, Short, Ending
<1>1. CASE pc # "search"
  <2>1. pc \in {"inputs", "init"} /\ (SaveInputs \/ Reopen)
    BY <1>1, PhaseMoves DEF NextPhase, Phases, IInv
  <2>2. told' = told /\ round' = round /\ job' = job
    BY <2>1 DEF SaveInputs, Reopen
  <2>3. t = <<>> /\ round' = {} /\ job'.stage = "none"
    BY <2>1, <2>2 DEF FreshOK, Starting, Nothing, IInv, JobOK, Phases
  <2> QED
    BY <2>3, EmptyLog, BudgetType
<1>2. CASE pc = "search" /\ told' = told /\ ~AskSearch
  <2>1. round' = round
    BY <1>2, LogMoves, DeliveredRow, AppendIs DEF Boot, Delivers
  <2>2. job'.stage = "none" \/ (job.stage # "none" /\ job'.id = job.id)
    BY <1>2, JobMoves DEF IInv, Asks, AskRepeat, AskCapacity, NextJob
  <2> QED
    BY <1>2, <2>1, <2>2 DEF BudgetOK, Short
<1>3. CASE AskSearch
  <2>1. /\ round' = Round(s, round) /\ round' # {} /\ t = s /\ pc = "search"
        /\ \E k, q : Ask(<<"search", NextMethod(round'), k, 0>>, q)
    BY <1>3 DEF AskSearch
  <2>2. job'.id[2] = NextMethod(round')
    BY <2>1, AskedIs
  <2>3. NextMethod(round') \in round'
    BY <2>1, NextOfMethods
  <2>4. \A m \in round' : Evaluated(s, m) < Budget
    BY <2>1 DEF BudgetOK, Short, Round
  <2> QED
    BY <2>1, <2>2, <2>3, <2>4 DEF BudgetOK
<1>4. CASE /\ Delivers /\ pc = "search" /\ job'.stage = "none"
           /\ round' = IF pc = "search" THEN round \ {job.id[2]} ELSE round
           /\ IsSeq(told[pc])
           /\ \E r : \E status \in {ToldStatus(r), "FAILED"} :
                told'[pc] = Append(told[pc], Row(r, status))
  <2>1. PICK r, status : t = Append(s, Row(r, status))
    BY <1>4
  <2> DEFINE row == Row(r, status)
  <2>2. IsSeq(s) /\ row.method = job.id[2] /\ t = Append(s, row)
    BY <1>4, <2>1, SearchRow
  <2>3. job.id[2] \in round
    BY <1>4 DEF Delivers, BudgetOK
  <2> HIDE DEF s, t, row
  <2>4. \A m \in MethodSet : /\ Evaluated(s, m) \in Nat /\ Evaluated(t, m) \in Nat
                             /\ row.method # m => Evaluated(t, m) = Evaluated(s, m)
                             /\ Evaluated(t, m) <= Evaluated(s, m) + 1
    BY <2>2, EvaluatedAppend
  <2>5. /\ \A m \in MethodSet : Evaluated(s, m) <= Budget
        /\ \A m \in round : Evaluated(s, m) < Budget
    BY <1>4 DEF BudgetOK, Short, s
  <2>6. round \subseteq MethodSet
    BY DEF IInv, RoundOK
  <2> QED
    BY <1>4, <2>2, <2>3, <2>4, <2>5, <2>6, BudgetType
<1>5. CASE Boot
  BY <1>5 DEF Boot
<1> QED
  BY <1>1, <1>2, <1>3, <1>4, <1>5, LogMoves

LEMMA LaterStep ==
  ASSUME IInv, BudgetOK, Next, pc' \in {"repeat", "holdout", "capacity"} \cup Ending
  PROVE  BudgetOK'
<1>1. told'["search"] = told["search"]
  <2>1. CASE pc = "search"
    <3>1. told' = told
      BY <2>1, PhaseMoves DEF IInv, Phases, Ending, EndPhase
    <3> QED BY <3>1
  <2>2. CASE pc # "search"
    BY <2>2, LogMoves DEF Phases, Ending
  <2> QED BY <2>1, <2>2
<1>2. CASE pc = "search"
  <2>1. EndPhase
    BY <1>2, PhaseMoves DEF IInv, Ending
  <2>2. Round(told["search"], round) = {}
    BY <1>2, <2>1 DEF EndPhase
  <2>3. \A m \in MethodSet : ~Short(told["search"], m)
    BY <2>2 DEF Round
  <2>4. \A m \in MethodSet : Evaluated(told["search"], m) \in Nat
    BY EvaluatedAppend DEF IInv, ToldOK, Phases
  <2>5. \A m \in MethodSet : Evaluated(told["search"], m) = Budget
    BY <1>2, <2>3, <2>4, BudgetType DEF BudgetOK, Short
  <2> QED
    BY <1>1, <2>5 DEF BudgetOK, Ending
<1>3. CASE pc # "search"
  <2>1. pc \in {"repeat", "holdout", "capacity"} \cup Ending
    BY <1>3, PhaseMoves DEF IInv, Phases, Ending, NextPhase
  <2> QED
    BY <1>1, <2>1 DEF BudgetOK, Ending
<1> QED
  BY <1>2, <1>3

LEMMA BudgetStep ==
  ASSUME IInv, FreshOK, BudgetOK, Next
  PROVE  BudgetOK'
<1>1. CASE pc' \notin {"search", "repeat", "holdout", "capacity"} \cup Ending
  BY <1>1 DEF BudgetOK
<1> QED
  BY <1>1, SearchStep, LaterStep

LEMMA BudgetInvariant == Spec => []BInv
<1>1. Init => BInv
  <2>1. Init => told["search"] = <<>> /\ Len(<<>>) = 0
    BY DEF Init, Nothing, Phases
  <2> QED
    BY <2>1 DEF Init, BInv, FreshOK, StatusOK, BudgetOK, Starting, Ending
<1>2. IInv /\ BInv /\ [Next]_vars => BInv'
  <2>1. IInv /\ BInv /\ Next => BInv'
    BY FreshStep, StatusStep, BudgetStep DEF BInv
  <2>2. BInv /\ UNCHANGED vars => BInv'
    <3>1. UNCHANGED vars => UNCHANGED <<pc, told, round, job>>
      BY DEF vars, process
    <3> QED
      BY <3>1 DEF BInv, FreshOK, StatusOK, BudgetOK, Short
  <2> QED
    BY <2>1, <2>2
<1> QED
  BY <1>1, <1>2, Invariant, PTL DEF Spec

\* When the candidates are chosen every method has had as many measured trials
\* as every other, the study's budget, whatever failed, was replayed or was
\* repeated in the rounds of run_all.
THEOREM BudgetsAreEqual == Spec => []EqualBudgets
<1>1. IInv /\ BInv => EqualBudgets
  <2> SUFFICES ASSUME IInv, BInv, NEW m \in MethodSet,
                      pc \in {"repeat", "holdout", "capacity", "report"}
               PROVE  Cardinality({i \in DOMAIN told["search"] :
                        /\ told["search"][i].method = m
                        /\ told["search"][i].status # "FAILED"}) = Budget
    BY DEF EqualBudgets
  <2>1. DOMAIN told["search"] = 1..Len(told["search"])
    BY LogIsSeq DEF IInv, Phases
  <2>2. {i \in DOMAIN told["search"] :
           told["search"][i].method = m /\ told["search"][i].status # "FAILED"}
          = {i \in DOMAIN told["search"] :
               /\ told["search"][i].method = m
               /\ told["search"][i].status \in {"COMPLETE", "INFEASIBLE"}}
    BY <2>1 DEF BInv, StatusOK
  <2> QED
    BY <2>2 DEF BInv, BudgetOK, Evaluated, Ending
<1> QED
  BY <1>1, Invariant, BudgetInvariant, PTL

-----------------------------------------------------------------------------
(* What the logs say of the trials *)

Later == {"repeat", "holdout", "capacity"}

\* The trial in hand is the next one of its phase.
JobIsNext ==
  job.stage # "none" =>
    IF pc = "search"
    THEN /\ round # {} /\ job.id[2] = NextMethod(round)
         /\ job.id = <<"search", job.id[2], Attempts(told["search"], job.id[2]), 0>>
         /\ job.params = Suggest(told["search"], job.id[2])
    ELSE /\ Left(pc) # {} /\ job.id = FirstJob(Left(pc)).id
         /\ job.params = FirstJob(Left(pc)).params

\* The attempts of a method are numbered one after the other, so that no trial
\* is in the log twice.
Numbered(s) ==
  /\ \A i \in 1..Len(s) : s[i].number < Attempts(s, s[i].method)
  /\ \A i, j \in 1..Len(s) :
       s[i].method = s[j].method /\ s[i].number = s[j].number => i = j

\* The later phases begin when the search is over, and run its candidates.
LaterOK ==
  /\ pc = "search" => \A p \in Later : told[p] = <<>>
  /\ \A p \in Later : \A i \in 1..Len(told[p]) :
       [id |-> told[p][i].id, params |-> told[p][i].params] \in Jobs(told["search"], p)

\* From its measurement on the result in hand is one of the parameters in hand.
HasResult ==
  job.stage \in {"measured", "unsafe", "cancelled", "returned", "sealed", "demoted"}
ResultIsOfJob == HasResult => job.res.params = job.params

\* A trial that counts as measured is on the disk, under a seal that fits.
Measured(row, d) ==
  /\ Selectable(row.result) /\ row.result.params = row.params
  /\ d.files.summary = row.result /\ ValidCached(d)
RowsMeasured ==
  \A p \in Phases : \A i \in 1..Len(told[p]) :
    told[p][i].status = "COMPLETE" => Measured(told[p][i], dirs[told[p][i].id])

LInv ==
  /\ JobIsNext /\ Numbered(told["search"]) /\ LaterOK
  /\ ResultIsOfJob /\ RowsMeasured

(* The root *)

Done == pc = "off" /\ verdict = "done"
After ==
  [p \in Phases |->
     CASE p = "search" -> {"repeat", "holdout", "capacity"} \cup Ending
       [] p = "repeat" -> {"holdout", "capacity"} \cup Ending
       [] p = "holdout" -> {"capacity"} \cup Ending
       [] p = "capacity" -> Ending]
Past(p) == pc \in After[p] \/ Done

RootFiles ==
  {"made", "manifest", "inputs", "tables", "report", "summary", "views", "failure"}
RootOK ==
  /\ DOMAIN root = {"files", "seal"} /\ DOMAIN root.files = RootFiles
  /\ DOMAIN root.files.tables = Phases
  /\ DOMAIN root.files.manifest = {"saved", "warnings"}

\* What a phase leaves behind: no job of it, and its table.
PhasesDone ==
  \A p \in Phases : Past(p) =>
    /\ root.files.tables[p] = told[p]
    /\ p # "search" => Left(p) = {}

\* What the last steps have written.
Reported ==
  /\ pc \in {"summary", "attest", "seal"} \/ Done =>
       root.files.manifest.warnings = notes
  /\ pc \in {"attest", "seal"} \/ Done =>
       root.files.summary.told = told /\ root.files.summary.best = Best
  /\ pc = "seal" => TrialsValidate
  /\ Done => RootIntact

RInv == RootOK /\ PhasesDone /\ Reported

-----------------------------------------------------------------------------
(* The trial in hand is new *)

\* While a trial is evaluated nothing is told and the round stands still.
LEMMA InHand ==
  ASSUME IInv, Next, job.stage # "none", job'.stage # "none"
  PROVE  /\ job'.id = job.id /\ job'.params = job.params
         /\ pc' = pc /\ told' = told /\ round' = round /\ pc \in Phases
<1>1. pc \in Phases /\ JobOK' /\ JobOK
  BY InJob, JobStep DEF IInv
<1>2. pc' \in Phases
  BY <1>1 DEF JobOK
<1>3. ~Asks /\ ~EndPhase /\ ~Boot
  BY NoJobOK DEF Asks, AskSearch, AskRepeat, AskCapacity, NextJob, EndPhase, Boot, Phases,
     IInv, JobOK
<1>4. pc' = pc
  BY <1>1, <1>2, <1>3, PhaseMoves DEF Phases
<1>5. told' = told /\ round' = round
  BY <1>3, LogMoves DEF Asks
<1> QED
  BY <1>1, <1>3, <1>4, <1>5, JobMoves

LEMMA Asked ==
  ASSUME IInv, Asks
  PROVE  /\ job.stage = "none" /\ pc' = pc /\ told' = told
         /\ job'.stage = "ask" /\ job'.res = NoResult
         /\ IF pc = "search"
            THEN /\ round' = Round(told["search"], round) /\ round' # {}
                 /\ job'.id = <<"search", NextMethod(round'),
                                Attempts(told["search"], NextMethod(round')), 0>>
                 /\ job'.params = Suggest(told["search"], NextMethod(round'))
            ELSE /\ pc \in Later /\ round' = round /\ Left(pc) # {}
                 /\ job'.id = FirstJob(Left(pc)).id
                 /\ job'.params = FirstJob(Left(pc)).params
<1>1. CASE AskSearch
  BY <1>1, AskedIs, NoJobOK DEF AskSearch
<1>2. CASE AskRepeat
  <2>1. PICK p \in {"repeat", "holdout"} : NextJob(p)
    BY <1>2 DEF AskRepeat
  <2> QED
    BY <2>1, AskedIs, NoJobOK DEF NextJob, Later
<1>3. CASE AskCapacity
  BY <1>3, AskedIs, NoJobOK DEF AskCapacity, NextJob, Later
<1> QED
  BY <1>1, <1>2, <1>3 DEF Asks

LEMMA NextStep ==
  ASSUME IInv, JobIsNext, Next
  PROVE  JobIsNext'
<1>1. CASE job'.stage = "none"
  BY <1>1 DEF JobIsNext
<1>2. CASE Asks
  <2>1. Left(pc)' = Left(pc)
    BY <1>2, Asked DEF Left
  <2>2. pc' = "search" => job'.id[2] = NextMethod(round')
    BY <1>2, Asked
  <2> QED
    BY <1>2, <2>1, <2>2, Asked DEF JobIsNext
<1>3. CASE job.stage # "none" /\ job'.stage # "none"
  <2>1. Left(pc)' = Left(pc)
    BY <1>3, InHand DEF Left
  <2> QED
    BY <1>3, <2>1, InHand DEF JobIsNext
<1> QED
  BY <1>1, <1>2, <1>3, JobMoves DEF IInv

\* Numbering goes on with the attempts.
LEMMA NumberedAppend ==
  ASSUME NEW s, IsSeq(s), Numbered(s), NEW x,
         \A i \in 1..Len(s) : s[i].number \in Nat,
         x.number = Attempts(s, x.method)
  PROVE  Numbered(Append(s, x))
<1> DEFINE a == Append(s, x)
<1>1. /\ Len(s) \in Nat /\ Len(a) = Len(s) + 1
      /\ a[Len(s) + 1] = x /\ \A i \in 1..Len(s) : a[i] = s[i]
  BY AppendIs
<1>2. \A m : /\ Attempts(s, m) \in Nat /\ Attempts(a, m) \in Nat
             /\ Attempts(a, m) >= Attempts(s, m)
             /\ x.method = m => Attempts(a, m) = Attempts(s, m) + 1
  BY AttemptsAppend
<1> HIDE DEF a
<1>3. \A i \in 1..Len(a) : a[i].number < Attempts(a, a[i].method)
  <2> SUFFICES ASSUME NEW i \in 1..Len(a)
               PROVE  a[i].number < Attempts(a, a[i].method)
    OBVIOUS
  <2>1. CASE i = Len(s) + 1
    BY <1>1, <1>2, <2>1
  <2>2. CASE i \in 1..Len(s)
    <3>1. s[i].number < Attempts(s, s[i].method) /\ s[i].number \in Nat
      BY <2>2 DEF Numbered
    <3> DEFINE m == s[i].method
    <3>2. /\ Attempts(s, m) \in Nat /\ Attempts(a, m) \in Nat
          /\ Attempts(a, m) >= Attempts(s, m)
      BY <1>2
    <3>3. a[i].number = s[i].number /\ a[i].method = m
      BY <1>1, <2>2
    <3> HIDE DEF m
    <3>4. s[i].number < Attempts(s, m)
      BY <3>1 DEF m
    <3> QED
      BY <3>1, <3>2, <3>3, <3>4
  <2> QED
    BY <1>1, <2>1, <2>2
<1>4. \A i, j \in 1..Len(a) :
        a[i].method = a[j].method /\ a[i].number = a[j].number => i = j
  <2>1. \A i \in 1..Len(s) : s[i].method = x.method => s[i].number # x.number
    <3> SUFFICES ASSUME NEW i \in 1..Len(s), s[i].method = x.method
                 PROVE  s[i].number # x.number
      OBVIOUS
    <3>1. s[i].number < Attempts(s, x.method) /\ s[i].number \in Nat
      BY DEF Numbered
    <3>2. Attempts(s, x.method) \in Nat
      BY <1>2
    <3> QED
      BY <3>1, <3>2
  <2> QED
    BY <1>1, <2>1 DEF Numbered
<1> QED
  BY <1>3, <1>4 DEF Numbered, a

LEMMA NumbersAreNat ==
  ASSUME ToldOK, RowsOK, NEW i \in 1..Len(told["search"])
  PROVE  told["search"][i].number \in Nat /\ told["search"][i].method \in MethodSet
<1>1. told["search"][i] \in RowsOf(told["search"])
  BY LogIsSeq DEF Phases
<1> QED
  BY <1>1, SearchTrial, AttemptLimit

LEMMA NumberedStep ==
  ASSUME IInv, JobIsNext, Numbered(told["search"]), Next
  PROVE  Numbered(told'["search"])
<1>1. CASE told'["search"] = told["search"]
  BY <1>1
<1>2. CASE told' = Nothing
  <2>1. told'["search"] = <<>> /\ Len(<<>>) = 0
    BY <1>2 DEF Nothing, Phases
  <2> QED
    BY <2>1 DEF Numbered
<1>3. CASE /\ Delivers /\ pc = "search" /\ IsSeq(told[pc])
           /\ \E r : \E status \in {ToldStatus(r), "FAILED"} :
                told'[pc] = Append(told[pc], Row(r, status))
  <2>1. PICK r : \E status \in {ToldStatus(r), "FAILED"} :
          told'[pc] = Append(told[pc], Row(r, status))
    BY <1>3
  <2>2. PICK status \in {ToldStatus(r), "FAILED"} :
          told'[pc] = Append(told[pc], Row(r, status))
    BY <2>1
  <2> DEFINE row == Row(r, status)   s == told["search"]
  <2>3. row.method = job.id[2] /\ row.number = job.id[3]
    BY DEF Row
  <2>4. job.id[3] = Attempts(s, job.id[2])
    BY <1>3 DEF JobIsNext, Delivers
  <2>5. \A i \in 1..Len(s) : s[i].number \in Nat
    BY NumbersAreNat DEF IInv
  <2>6. IsSeq(s) /\ told'["search"] = Append(s, row)
    BY <1>3, <2>2
  <2> HIDE DEF row, s
  <2>7. row.number = Attempts(s, row.method)
    BY <2>3, <2>4
  <2>8. Numbered(s)
    BY DEF s
  <2>9. Numbered(Append(s, row))
    BY <2>5, <2>6, <2>7, <2>8, NumberedAppend
  <2> QED
    BY <2>6, <2>9
<1> QED
  BY <1>1, <1>2, <1>3, LogMoves DEF Phases

\* No row is of the trial in hand, nor of the one that is next.
LEMMA LeftIsNew ==
  ASSUME ToldOK, RowsOK, NEW p \in Later, NEW j \in Left(p),
         NEW q \in Phases, NEW i \in 1..Len(told[q])
  PROVE  told[q][i].id # j.id
<1>1. CASE q = p
  BY <1>1, LogIsSeq DEF Left, JobsLeft
<1>2. CASE q # p
  <2>1. told[q][i].id[1] = q
    BY DEF RowsOK, RowOK
  <2>2. j.id[1] = p
    BY JobIds DEF Later, Left, JobsLeft
  <2> QED
    BY <1>2, <2>1, <2>2
<1> QED
  BY <1>1, <1>2

LEMMA JobIsNew ==
  ASSUME IInv, JobIsNext, Numbered(told["search"]), job.stage # "none",
         NEW q \in Phases, NEW i \in 1..Len(told[q])
  PROVE  told[q][i].id # job.id
<1>0. pc \in Phases /\ ToldOK /\ RowsOK
  BY InJob DEF IInv
<1>1. CASE pc = "search"
  <2>1. job.id[1] = "search" /\ told[q][i].id[1] = q
    BY <1>0, <1>1 DEF JobIsNext, RowsOK, RowOK
  <2>2. ASSUME q = "search", told[q][i].id = job.id
        PROVE  FALSE
    <3> DEFINE row == told["search"][i]  m == job.id[2]  s == told["search"]
    <3>1. row.method = m /\ row.number = job.id[3]
      BY <2>2, <1>0 DEF RowsOK, RowOK
    <3>2. row.number < Attempts(s, row.method)
      BY <2>2 DEF Numbered
    <3>3. job.id[3] = Attempts(s, m)
      BY <1>1 DEF JobIsNext
    <3>4. Attempts(s, m) \in Nat
      BY <1>0, AttemptsType DEF ToldOK, Phases
    <3> HIDE DEF row, m, s
    <3>5. row.number = Attempts(s, m) /\ row.number < Attempts(s, m)
      BY <3>1, <3>2, <3>3
    <3> QED
      BY <3>4, <3>5
  <2> QED
    BY <2>1, <2>2
<1>2. CASE pc # "search"
  <2>1. FirstJob(Left(pc)) \in Left(pc) /\ job.id = FirstJob(Left(pc)).id
    BY <1>2, FirstIsLeft DEF JobIsNext
  <2>2. pc \in Later
    BY <1>0, <1>2 DEF Later, Phases
  <2> QED
    BY <1>0, <2>1, <2>2, LeftIsNew
<1> QED
  BY <1>1, <1>2

LEMMA NothingIsEmpty ==
  ASSUME NEW p \in Phases
  PROVE  Nothing[p] = <<>> /\ Len(<<>>) = 0
BY DEF Nothing

\* Whoever enters the search has told nothing.
LEMMA EnteringSearch ==
  ASSUME IInv, FreshOK, Next, pc' = "search", pc # "search"
  PROVE  told' = told /\ told = Nothing
<1>1. pc \in {"inputs", "init"} /\ (SaveInputs \/ Reopen)
  BY PhaseMoves DEF NextPhase, Phases, IInv
<1> QED
  BY <1>1 DEF SaveInputs, Reopen, FreshOK, Starting

LEMMA LaterRow ==
  ASSUME IInv, JobIsNext, pc \in Later, job.stage # "none", NEW r, NEW status
  PROVE  [id |-> Row(r, status).id, params |-> Row(r, status).params]
           \in Jobs(told["search"], pc)
<1> DEFINE j == FirstJob(Left(pc))
<1>1. job.id = j.id /\ job.params = j.params /\ j \in Left(pc)
  BY FirstIsLeft DEF JobIsNext, Later
<1>2. j \in Jobs(told["search"], pc)
  BY <1>1 DEF Left, JobsLeft
<1>3. j = [id |-> j.id, params |-> j.params]
  <2> HIDE DEF j
  <2>1. CASE pc = "capacity"
    BY <1>2, <2>1 DEF Jobs
  <2>2. CASE pc # "capacity"
    <3>1. j \in CandidateJobs(told["search"], pc)
      BY <1>2, <2>2 DEF Jobs, Later
    <3> QED
      BY <3>1 DEF CandidateJobs
  <2> QED
    BY <2>1, <2>2
<1>4. Row(r, status).id = job.id /\ Row(r, status).params = job.params
  BY DEF Row
<1> HIDE DEF j
<1> QED
  BY <1>1, <1>2, <1>3, <1>4

LEMMA LaterJobsStep ==
  ASSUME IInv, FreshOK, JobIsNext, LaterOK, Next
  PROVE  LaterOK'
<1> DEFINE IsJob(x, s, p) == [id |-> x.id, params |-> x.params] \in Jobs(s, p)
<1>1. CASE told' = told
  <2>1. pc' = "search" => \A p \in Later : told'[p] = <<>>
    <3>1. CASE pc' = "search" /\ pc # "search"
      BY <3>1, EnteringSearch, NothingIsEmpty DEF Later, Phases
    <3> QED
      BY <1>1, <3>1 DEF LaterOK
  <2> QED
    BY <1>1, <2>1 DEF LaterOK
<1>2. CASE told' = Nothing
  <2>1. \A p \in Later : told'[p] = <<>> /\ Len(<<>>) = 0
    BY <1>2, NothingIsEmpty DEF Later, Phases
  <2> QED
    BY <2>1 DEF LaterOK
<1>3. CASE /\ Delivers /\ pc \in Phases /\ pc' = pc /\ IsSeq(told[pc])
           /\ \A p \in Phases : p # pc => told'[p] = told[p]
           /\ \E r : \E status \in {ToldStatus(r), "FAILED"} :
                told'[pc] = Append(told[pc], Row(r, status))
  <2>1. PICK r : \E status \in {ToldStatus(r), "FAILED"} :
          told'[pc] = Append(told[pc], Row(r, status))
    BY <1>3
  <2>2. PICK status \in {ToldStatus(r), "FAILED"} :
          told'[pc] = Append(told[pc], Row(r, status))
    BY <2>1
  <2>3. CASE pc = "search"
    <3>1. \A p \in Later : told[p] = <<>> /\ told'[p] = <<>>
      BY <1>3, <2>3 DEF LaterOK, Later, Phases
    <3>2. Len(<<>>) = 0
      OBVIOUS
    <3> QED
      BY <3>1, <3>2 DEF LaterOK
  <2>4. CASE pc # "search"
    <3> DEFINE row == Row(r, status)
    <3>1. pc \in Later /\ told'["search"] = told["search"] /\ pc' # "search"
      BY <1>3, <2>4 DEF Later, Phases
    <3>2. IsJob(row, told["search"], pc)
      BY <1>3, <3>1, LaterRow DEF Delivers
    <3> HIDE DEF row
    <3>3. /\ Len(told[pc]) \in Nat /\ Len(told'[pc]) = Len(told[pc]) + 1
          /\ told'[pc][Len(told[pc]) + 1] = row
          /\ \A i \in 1..Len(told[pc]) : told'[pc][i] = told[pc][i]
      BY <1>3, <2>2, AppendIs DEF row
    <3>4. \A p \in Later : \A i \in 1..Len(told'[p]) :
            \/ i \in 1..Len(told[p]) /\ told'[p][i] = told[p][i]
            \/ p = pc /\ told'[p][i] = row
      <4> SUFFICES ASSUME NEW p \in Later, NEW i \in 1..Len(told'[p])
                   PROVE  \/ i \in 1..Len(told[p]) /\ told'[p][i] = told[p][i]
                          \/ p = pc /\ told'[p][i] = row
        OBVIOUS
      <4>1. CASE p # pc
        <5>1. told'[p] = told[p]
          BY <1>3, <4>1 DEF Later, Phases
        <5> QED
          BY <5>1
      <4>2. CASE p = pc
        <5>1. i = Len(told[pc]) + 1 \/ i \in 1..Len(told[pc])
          BY <3>3, <4>2
        <5> QED
          BY <3>3, <4>2, <5>1
      <4> QED
        BY <4>1, <4>2
    <3>5. \A p \in Later : \A i \in 1..Len(told'[p]) :
            IsJob(told'[p][i], told["search"], p)
      BY <3>2, <3>4 DEF LaterOK
    <3> QED
      BY <3>1, <3>5 DEF LaterOK
  <2> QED
    BY <2>3, <2>4
<1> QED
  BY <1>1, <1>2, <1>3, LogMoves

-----------------------------------------------------------------------------
(* The result in hand *)

\* A result comes with the parameters of the job.
LEMMA ResultMoves ==
  ASSUME IInv, Next, HasResult'
  PROVE  \/ HasResult /\ job'.res.params = job.res.params
         \/ job'.res.params = job.params
<1>0. DOMAIN job = JobNames /\ NoJob.stage = "none"
  BY NoJobOK DEF IInv, JobOK, JobNames
<1>1. CASE Quiet
  <2>1. LoadCached
    <3>1. CASE Boot \/ CreateRoot \/ SaveManifest \/ SaveInputs
      BY <3>1, <1>0 DEF Boot, CreateRoot, SaveManifest, SaveInputs, HasResult, IInv, JobOK, Phases
    <3>2. CASE Reopen \/ RefuseRoot \/ RefuseIdentity \/ Exhausted \/ EndPhase
      BY <3>2, <1>0 DEF Reopen, RefuseRoot, RefuseIdentity, Exhausted, EndPhase, Stop,
         HasResult, IInv, JobOK, Phases
    <3>3. CASE AskSearch \/ AskRepeat
      BY <3>3, Asked DEF Asks, HasResult
    <3>4. CASE Report \/ WriteSummary \/ WriteViews \/ RefuseAttestation \/ SealExperiment
      BY <3>4, <1>0 DEF Report, WriteSummary, WriteViews, RefuseAttestation, SealExperiment,
         Stop, HasResult, IInv, JobOK, Phases
    <3> QED
      BY <1>1, <3>1, <3>2, <3>3, <3>4 DEF Quiet
  <2>2. CASE job' = NoJob
    BY <1>0, <2>2 DEF HasResult
  <2>3. CASE job' = [job EXCEPT !.stage = "run"]
    BY <1>0, <2>3 DEF HasResult, JobNames
  <2>4. CASE /\ job' = [job EXCEPT !.stage = "returned", !.res = Files.summary]
             /\ Files.summary.params = job.params
    BY <1>0, <2>4 DEF HasResult, JobNames
  <2> QED
    BY <2>1, <2>2, <2>3, <2>4
       DEF LoadCached, Stage, Uncaught, DeliverException, Deliver, Stop, Files
<1>2. CASE Failing
  BY <1>2, <1>0, FailingJob DEF HasResult
<1>3. CASE AskCapacity \/ OpenTrial \/ AbortTrial \/ FinalizeReseal
  <2>1. CASE AskCapacity
    BY <2>1, Asked DEF Asks, HasResult
  <2>2. CASE OpenTrial
    BY <1>0, <2>2 DEF OpenTrial, Stage, HasResult, JobNames
  <2>3. CASE AbortTrial \/ FinalizeReseal
    BY <1>0, <2>3, UncaughtJob DEF AbortTrial, FinalizeReseal, Stop, Deliver, HasResult
  <2> QED
    BY <1>3, <2>1, <2>2, <2>3
<1>4. CASE Measure
  <2>1. PICK o, v : job' = [job EXCEPT !.res = ResultOf(o, v, runs + 1),
                              !.stage = IF o.clean = "yes" THEN "measured" ELSE "unsafe"]
    BY <1>4 DEF Measure, MeasureTrial
  <2>2. ResultOf(o, v, runs + 1).params = job.params
    BY DEF ResultOf, NoResult
  <2> QED
    BY <1>0, <2>1, <2>2 DEF JobNames
<1>5. CASE Timeout
  <2>1. PICK o, v : job' = [job EXCEPT !.res = ResultOf(o, v, runs + 1), !.stage = "cancelled"]
    BY <1>5 DEF Timeout
  <2>2. ResultOf(o, v, runs + 1).params = job.params
    BY DEF ResultOf, NoResult
  <2> QED
    BY <1>0, <2>1, <2>2 DEF JobNames
<1>6. CASE SaveSummary \/ FinalizeSeal
  BY <1>0, <1>6 DEF SaveSummary, FinalizeSeal, Stage, HasResult, JobNames
<1>7. CASE RunRaises
  <2>1. Synthetic(job.params).params = job.params
    BY DEF Synthetic, NoResult
  <2> QED
    BY <1>0, <1>7, <2>1 DEF RunRaises, DeliverException, Deliver, HasResult, JobNames
<1>8. CASE FinalizeJudge
  <2>1. \A f : DemotedResult(job.res, f).params = job.res.params
    BY DEF DemotedResult, IInv, JobOK, ResultOK, ResultFields
  <2>2. CASE job' = NoJob
    BY <1>0, <2>2 DEF HasResult
  <2>3. CASE job' = [job EXCEPT !.res = DemotedResult(job.res, Files), !.stage = "demoted"]
    BY <1>0, <1>8, <2>1, <2>3 DEF HasResult, JobNames, FinalizeJudge
  <2> QED
    BY <1>8, <2>2, <2>3 DEF FinalizeJudge, Deliver
<1> QED
  BY <1>1, <1>2, <1>3, <1>4, <1>5, <1>6, <1>7, <1>8, NextSplit DEF Writing

LEMMA ResultStep ==
  ASSUME IInv, ResultIsOfJob, Next
  PROVE  ResultIsOfJob'
<1> SUFFICES ASSUME HasResult' PROVE job'.res.params = job'.params
  BY DEF ResultIsOfJob
<1>1. job'.stage # "none" /\ job'.stage # "ask"
  BY DEF HasResult
<1>2. job.stage # "none" /\ job'.params = job.params
  BY <1>1, JobMoves, Asked DEF IInv
<1> QED
  BY <1>2, ResultMoves DEF ResultIsOfJob

-----------------------------------------------------------------------------
(* Measured trials stay on the disk *)

\* A step touches the directory of the trial in hand, or of the one that comes.
LEMMA DirsMove ==
  ASSUME IInv, Next
  PROVE  \/ UNCHANGED dirs
         \/ job.stage # "none" /\ job.id \in TrialIds /\ Elsewhere(job.id)
         \/ AskCapacity /\ job'.id \in TrialIds /\ Elsewhere(job'.id)
<1>1. CASE Quiet
  BY <1>1, QuietKeeps
<1>2. CASE Failing
  BY <1>2, FailingKeeps
<1>3. CASE AskCapacity
  BY <1>3, AskCapacityEffect
<1>4. CASE Writing /\ ~AskCapacity
  <2>1. job.stage # "none" /\ Elsewhere(job.id)
    BY <1>4, OpenTrialEffect, MeasureEffect, SaveEffect, SealEffect, JudgeEffect DEF Writing
  <2> QED
    BY <2>1, InJob
<1> QED
  BY <1>1, <1>2, <1>3, <1>4, NextSplit

\* The directories of the told trials stand still.
LEMMA ToldDirsStay ==
  ASSUME IInv, JobIsNext, Numbered(told["search"]), Next,
         NEW p \in Phases, NEW i \in 1..Len(told[p])
  PROVE  dirs'[told[p][i].id] = dirs[told[p][i].id]
<1> DEFINE id == told[p][i].id
<1>1. id \in TrialIds
  BY DEF IInv, RowsOK, RowOK
<1>2. job.stage # "none" => job.id # id
  BY JobIsNew
<1>3. AskCapacity => job'.id # id
  <2> SUFFICES ASSUME AskCapacity
               PROVE  job'.id # id
    OBVIOUS
  <2>1. NextJob("capacity")
    BY DEF AskCapacity
  <2>2. FirstJob(Left("capacity")) \in Left("capacity")
        /\ job'.id = FirstJob(Left("capacity")).id
    BY <2>1, NextJobIs
  <2> QED
    BY <2>2, LeftIsNew DEF IInv, Later
<1> HIDE DEF id
<1>4. dirs'[id] = dirs[id]
  BY <1>1, <1>2, <1>3, DirsMove DEF Elsewhere
<1> QED
  BY <1>4 DEF id

\* The four ways an evaluation ends.
LEMMA Deliveries ==
  ASSUME IInv, Next, Delivers
  PROVE  \/ /\ LoadCached /\ Replayable(dirs[job.id]) /\ UNCHANGED dirs
            /\ Files.summary.params = job.params /\ pc # "capacity"
            /\ Deliver(Files.summary, ToldStatus(Files.summary))
         \/ /\ FinalizeJudge /\ JudgeReason(job.res, Files) = "none" /\ UNCHANGED dirs
            /\ Deliver(job.res, ToldStatus(job.res))
         \/ /\ FinalizeReseal /\ ValidCached(dirs'[job.id])
            /\ dirs' = [dirs EXCEPT ![job.id] = SealedAs(Saved(Files, job.res))]
            /\ Deliver(job.res, "FAILED")
         \/ /\ LoadCached \/ RunRaises \/ FinalizeReseal \/ FinalizerRaises
            /\ DeliverException
            /\ LoadCached => Files.summary # NoResult /\ Files.summary.params # job.params
            /\ FinalizeReseal =>
                 ~ValidCached(SealedAs(Saved(Files, job.res)))
<1>0. JobOK' /\ job.stage # "none" /\ told' # told /\ job.id \in TrialIds /\ pc \in Phases
  <2>1. PICK r, status : job.stage # "none" /\ Deliver(r, status)
    BY DEF Delivers
  <2>2. /\ pc \in Phases /\ Len(told'[pc]) = Len(told[pc]) + 1 /\ Len(told[pc]) \in Nat
    BY <2>1, InJob, DeliveredRow, LogIsSeq DEF IInv
  <2> QED
    BY <2>1, <2>2, JobStep, InJob
<1>1. CASE LoadCached
  <2>1. UNCHANGED dirs
    BY <1>1 DEF LoadCached, disk
  <2>2. ~Uncaught \/ DeliverException
    BY <1>0 DEF Uncaught, Stop
  <2>3. \/ told' = told
        \/ Files.summary # NoResult /\ Files.summary.params # job.params /\ Uncaught
        \/ /\ Files.summary.params = job.params /\ Replayable(dirs[job.id])
           /\ pc # "capacity" /\ Deliver(Files.summary, ToldStatus(Files.summary))
    BY <1>1 DEF LoadCached, Stage, Files
  <2>4. ~FinalizeReseal
    BY <1>1 DEF LoadCached, FinalizeReseal
  <2>5. CASE Files.summary # NoResult /\ Files.summary.params # job.params /\ Uncaught
    BY <1>1, <2>2, <2>4, <2>5
  <2>6. CASE /\ Files.summary.params = job.params /\ Replayable(dirs[job.id])
             /\ pc # "capacity" /\ Deliver(Files.summary, ToldStatus(Files.summary))
    BY <1>1, <2>1, <2>6
  <2> QED
    BY <1>0, <2>3, <2>5, <2>6
<1>2. CASE FinalizeJudge
  BY <1>0, <1>2 DEF FinalizeJudge
<1>3. CASE FinalizeReseal
  <2> DEFINE d == SealedAs(Saved(Files, job.res))
  <2>1. dirs' = [dirs EXCEPT ![job.id] = d]
    BY <1>3 DEF FinalizeReseal
  <2>2. dirs'[job.id] = d
    <3> HIDE DEF d
    <3> QED
      BY <1>0, <2>1 DEF IInv, DirsOK
  <2>3. CASE ValidCached(d)
    BY <1>3, <2>1, <2>2, <2>3 DEF FinalizeReseal
  <2>4. CASE ~ValidCached(d)
    <3>1. DeliverException
      BY <1>0, <1>3, <2>4 DEF FinalizeReseal, Uncaught, Stop
    <3>2. ~LoadCached
      BY <1>3 DEF LoadCached, FinalizeReseal
    <3> HIDE DEF d
    <3>3. ~ValidCached(SealedAs(Saved(Files, job.res)))
      BY <2>4 DEF d
    <3> QED
      BY <1>3, <3>1, <3>2, <3>3
  <2> QED
    BY <2>3, <2>4
<1>4. CASE RunRaises \/ FinalizerRaises
  <2>1. DeliverException
    BY <1>0, <1>4 DEF RunRaises, FinalizerRaises, Uncaught, Stop
  <2>2. job.stage # "ask"
    BY <1>4 DEF RunRaises, FinalizerRaises
  <2>3. ~LoadCached /\ (~FinalizeReseal \/ FinalizeReseal)
    BY <2>2 DEF LoadCached
  <2> QED
    BY <1>3, <1>4, <2>1, <2>3
<1>5. CASE ~(LoadCached \/ FinalizeJudge \/ FinalizeReseal \/ RunRaises \/ FinalizerRaises)
  <2>1. CASE Boot \/ CreateRoot \/ SaveManifest \/ SaveInputs \/ Reopen \/ Report
             \/ WriteSummary \/ WriteViews \/ EndPhase
    BY <1>0, <2>1 DEF Boot, CreateRoot, SaveManifest, SaveInputs, Reopen, Report,
       WriteSummary, WriteViews, EndPhase, IInv, JobOK, Phases
  <2>2. CASE RefuseRoot \/ RefuseIdentity \/ Exhausted \/ RefuseAttestation
             \/ SealExperiment \/ Crash \/ AbortTrial
    BY <1>0, <2>2 DEF RefuseRoot, RefuseIdentity, Exhausted, RefuseAttestation,
       SealExperiment, Crash, AbortTrial, Stop
  <2>3. CASE AskSearch \/ AskRepeat \/ AskCapacity
    BY <1>0, <2>3, Asked DEF Asks
  <2>4. CASE OpenTrial \/ Measure \/ Timeout \/ SaveSummary \/ FinalizeSeal
    BY <1>0, <2>4 DEF OpenTrial, Measure, MeasureTrial, Timeout, SaveSummary,
       FinalizeSeal, Stage
  <2> QED
    BY <1>5, <2>1, <2>2, <2>3, <2>4, NextSplit DEF Quiet, Writing, Failing
<1> QED
  BY <1>1, <1>2, <1>3, <1>4, <1>5

\* What the finalizer lets stand is valid on the disk.
LEMMA JudgedIsValid ==
  ASSUME IInv, job.stage = "sealed", JudgeReason(job.res, Files) = "none",
         job.res.status = "COMPLETE"
  PROVE  Files.summary = job.res /\ ValidCached(dirs[job.id])
<1>1. /\ Files = dirs[job.id].seal /\ Files.summary = job.res
  BY DEF IInv, SealedOK, Files
<1>2. StrictError(Files) = "none"
  BY DEF JudgeReason
<1>3. job.res.error = "none"
  BY DEF IInv, JobOK, ResultOK
<1>4. dirs[job.id].seal # EmptyFiles
  <2>1. EmptyFiles.summary.status = "none"
    BY DEF EmptyFiles, NoResult
  <2> QED
    BY <1>1, <2>1
<1> QED
  BY <1>1, <1>2, <1>3, <1>4 DEF ValidCached, Intact, Files

LEMMA DeliveredMeasured ==
  ASSUME IInv, ResultIsOfJob, Next, Delivers
  PROVE  \E r, status :
           /\ Deliver(r, status) /\ Len(told[pc]) \in Nat /\ pc \in Phases
           /\ status = "COMPLETE" =>
                /\ UNCHANGED dirs /\ Selectable(r) /\ r.params = job.params
                /\ dirs[job.id].files.summary = r /\ ValidCached(dirs[job.id])
<1>0. Len(told[pc]) \in Nat /\ pc \in Phases
  BY InJob, LogIsSeq DEF Delivers, IInv
<1>1. CASE /\ LoadCached /\ Replayable(dirs[job.id]) /\ UNCHANGED dirs
           /\ Files.summary.params = job.params
           /\ Deliver(Files.summary, ToldStatus(Files.summary))
  BY <1>0, <1>1, ToldStatusMeans DEF Files, Replayable
<1>2. CASE /\ FinalizeJudge /\ JudgeReason(job.res, Files) = "none" /\ UNCHANGED dirs
           /\ Deliver(job.res, ToldStatus(job.res))
  <2>1. job.stage = "sealed" /\ job.res.params = job.params
    BY <1>2 DEF FinalizeJudge, ResultIsOfJob, HasResult
  <2>2. ToldStatus(job.res) = "COMPLETE" =>
          /\ Selectable(job.res) /\ Files.summary = job.res /\ ValidCached(dirs[job.id])
    BY <1>2, <2>1, ToldStatusMeans, JudgedIsValid DEF Selectable
  <2> QED
    BY <1>0, <1>2, <2>1, <2>2 DEF Files
<1>3. CASE \E r : Deliver(r, "FAILED")
  BY <1>0, <1>3
<1> QED
  BY <1>1, <1>2, <1>3, Deliveries DEF DeliverException

LEMMA MeasuredStep ==
  ASSUME IInv, LInv, Next
  PROVE  RowsMeasured'
<1> DEFINE OK(row) == row.status = "COMPLETE" => Measured(row, dirs'[row.id])
<1>0. \A p \in Phases : \A i \in 1..Len(told[p]) : OK(told[p][i])
  BY ToldDirsStay DEF LInv, RowsMeasured
<1> SUFFICES \A p \in Phases : \A i \in 1..Len(told'[p]) : OK(told'[p][i])
  BY DEF RowsMeasured
<1>1. CASE told' = told
  BY <1>0, <1>1
<1>2. CASE told' = Nothing
  <2>1. \A p \in Phases : told'[p] = <<>> /\ Len(<<>>) = 0
    BY <1>2, NothingIsEmpty
  <2> QED
    BY <2>1
<1>3. CASE Delivers
  <2>1. PICK r, status :
           /\ Deliver(r, status) /\ Len(told[pc]) \in Nat /\ pc \in Phases
           /\ status = "COMPLETE" =>
                /\ UNCHANGED dirs /\ Selectable(r) /\ r.params = job.params
                /\ dirs[job.id].files.summary = r /\ ValidCached(dirs[job.id])
    BY <1>3, DeliveredMeasured DEF LInv
  <2> DEFINE row == Row(r, status)
  <2>2. /\ row.id = job.id /\ row.params = job.params /\ row.status = status
        /\ row.result = r
    BY DEF Row
  <2>3. /\ \A p \in Phases : p # pc => told'[p] = told[p]
        /\ Len(told'[pc]) = Len(told[pc]) + 1
        /\ told'[pc][Len(told[pc]) + 1] = row
        /\ \A i \in 1..Len(told[pc]) : told'[pc][i] = told[pc][i]
    BY <1>3, <2>1, DeliveredRow DEF Delivers
  <2> HIDE DEF row
  <2>4. OK(row)
    BY <2>1, <2>2 DEF Measured
  <2> HIDE DEF OK
  <2> SUFFICES ASSUME NEW p \in Phases, NEW i \in 1..Len(told'[p])
               PROVE  OK(told'[p][i])
    OBVIOUS
  <2>5. CASE p # pc
    BY <1>0, <2>3, <2>5
  <2>6. CASE p = pc
    <3>1. i = Len(told[pc]) + 1 \/ i \in 1..Len(told[pc])
      BY <2>1, <2>3, <2>6
    <3> QED
      BY <1>0, <2>3, <2>4, <2>6, <3>1
  <2> QED
    BY <2>5, <2>6
<1> QED
  BY <1>1, <1>2, <1>3, LogMoves

-----------------------------------------------------------------------------
LEMMA LogInvariant == Spec => []LInv
<1>1. Init => LInv
  <2> SUFFICES ASSUME Init PROVE LInv
    OBVIOUS
  <2>1. \A p \in Phases : told[p] = <<>> /\ Len(<<>>) = 0
    BY NothingIsEmpty DEF Init
  <2>2. job.stage = "none"
    BY NoJobOK DEF Init
  <2>3. pc # "search"
    BY DEF Init
  <2> QED
    BY <2>1, <2>2, <2>3
       DEF LInv, JobIsNext, Numbered, LaterOK, ResultIsOfJob, HasResult, RowsMeasured,
           Later, Phases
<1>2. IInv /\ BInv /\ LInv /\ [Next]_vars => LInv'
  <2>1. IInv /\ BInv /\ LInv /\ Next => LInv'
    BY NextStep, NumberedStep, LaterJobsStep, ResultStep, MeasuredStep DEF LInv, BInv
  <2>2. LInv /\ UNCHANGED vars => LInv'
    <3>1. UNCHANGED vars => UNCHANGED <<pc, told, round, job, dirs>>
      BY DEF vars, process, disk
    <3> QED
      BY <3>1 DEF LInv, JobIsNext, Left, Numbered, LaterOK, ResultIsOfJob, HasResult,
                  RowsMeasured
  <2> QED
    BY <2>1, <2>2
<1> QED
  BY <1>1, <1>2, Invariant, BudgetInvariant, PTL DEF Spec

-----------------------------------------------------------------------------
(* What is written into the root *)

WritesRoot ==
  \/ CreateRoot \/ SaveManifest \/ SaveInputs \/ EndPhase \/ Report \/ WriteSummary
  \/ WriteViews \/ SealExperiment \/ AbortTrial

LEMMA RootKept ==
  ASSUME Next, ~WritesRoot
  PROVE  root' = root
<1>1. CASE Boot \/ Reopen \/ RefuseRoot \/ RefuseIdentity
  BY <1>1 DEF Boot, Reopen, RefuseRoot, RefuseIdentity, disk
<1>2. CASE AskSearch \/ Exhausted \/ AskRepeat \/ AskCapacity \/ LoadCached
           \/ RefuseAttestation
  BY <1>2 DEF AskSearch, Exhausted, AskRepeat, AskCapacity, LoadCached, RefuseAttestation, disk
<1>3. CASE OpenTrial \/ Measure \/ Timeout \/ SaveSummary \/ RunRaises
  BY <1>3 DEF OpenTrial, Measure, MeasureTrial, Timeout, SaveSummary, RunRaises
<1>4. CASE FinalizeSeal \/ FinalizeJudge \/ FinalizeReseal \/ FinalizerRaises \/ Crash
  BY <1>4 DEF FinalizeSeal, FinalizeJudge, FinalizeReseal, FinalizerRaises, Crash, disk
<1> QED
  BY <1>1, <1>2, <1>3, <1>4, NextSplit DEF WritesRoot, Quiet, Writing, Failing

LEMMA WrittenFiles ==
  ASSUME RootOK, NEW f, DOMAIN f = RootFiles, DOMAIN f.tables = Phases,
         DOMAIN f.manifest = {"saved", "warnings"}, Write(f)
  PROVE  RootOK' /\ root'.files = f
<1>1. root' = [root EXCEPT !.files = f] /\ DOMAIN root = {"files", "seal"}
  BY DEF Write, RootOK
<1>2. root'.files = f /\ DOMAIN root' = {"files", "seal"}
  BY <1>1
<1> QED
  BY <1>2 DEF RootOK

\* Each writer, and what it leaves alone.
LEMMA RootWrites ==
  ASSUME RootOK, WritesRoot
  PROVE  /\ RootOK'
         /\ CreateRoot \/ SaveManifest \/ SaveInputs \/ WriteViews \/ AbortTrial
              \/ SealExperiment =>
              /\ root'.files.tables = root.files.tables
              /\ root'.files.summary = root.files.summary
              /\ root'.files.manifest.warnings = root.files.manifest.warnings
         /\ EndPhase => /\ root'.files.tables[pc] = told[pc]
                        /\ \A p \in Phases : p # pc =>
                             root'.files.tables[p] = root.files.tables[p]
         /\ Report => /\ root'.files.tables = root.files.tables
                      /\ root'.files.manifest.warnings = notes
         /\ WriteSummary => /\ root'.files.tables = root.files.tables
                            /\ root'.files.manifest = root.files.manifest
                            /\ root'.files.summary.told = told
                            /\ root'.files.summary.best = Best
                            /\ root'.files.summary.warnings = notes
                            /\ root'.files.summary.saved
<1> DEFINE f == root.files
<1>0. /\ DOMAIN f = RootFiles /\ DOMAIN f.tables = Phases
      /\ DOMAIN f.manifest = {"saved", "warnings"}
      /\ DOMAIN root = {"files", "seal"}
  BY DEF RootOK
<1>1. CASE CreateRoot
  <2> DEFINE g == [f EXCEPT !.made = TRUE]
  <2>1. Write(g) /\ ~EndPhase /\ ~Report /\ ~WriteSummary
    BY <1>1 DEF CreateRoot, EndPhase, Report, WriteSummary, Phases
  <2>2. /\ DOMAIN g = RootFiles /\ g.tables = f.tables /\ g.summary = f.summary
        /\ g.manifest = f.manifest
    BY <1>0 DEF RootFiles
  <2> HIDE DEF g
  <2>3. RootOK' /\ root'.files = g
    BY <1>0, <2>1, <2>2, WrittenFiles
  <2> QED
    BY <2>1, <2>2, <2>3
<1>2. CASE SaveManifest
  <2> DEFINE g == [f EXCEPT !.manifest.saved = TRUE]
  <2>1. Write(g) /\ ~EndPhase /\ ~Report /\ ~WriteSummary
    BY <1>2 DEF SaveManifest, EndPhase, Report, WriteSummary, Phases
  <2>2. /\ DOMAIN g = RootFiles /\ g.tables = f.tables /\ g.summary = f.summary
        /\ g.manifest.warnings = f.manifest.warnings
        /\ DOMAIN g.manifest = {"saved", "warnings"}
    BY <1>0 DEF RootFiles
  <2> HIDE DEF g
  <2>3. RootOK' /\ root'.files = g
    BY <1>0, <2>1, <2>2, WrittenFiles
  <2> QED
    BY <2>1, <2>2, <2>3
<1>3. CASE SaveInputs
  <2> DEFINE g == [f EXCEPT !.inputs = TRUE]
  <2>1. Write(g) /\ ~EndPhase /\ ~Report /\ ~WriteSummary
    BY <1>3 DEF SaveInputs, EndPhase, Report, WriteSummary, Phases
  <2>2. /\ DOMAIN g = RootFiles /\ g.tables = f.tables /\ g.summary = f.summary
        /\ g.manifest = f.manifest
    BY <1>0 DEF RootFiles
  <2> HIDE DEF g
  <2>3. RootOK' /\ root'.files = g
    BY <1>0, <2>1, <2>2, WrittenFiles
  <2> QED
    BY <2>1, <2>2, <2>3
<1>4. CASE WriteViews
  <2> DEFINE g == [f EXCEPT !.views = [summary |-> f.summary, anchors |-> Anchors]]
  <2>1. Write(g) /\ ~EndPhase /\ ~Report /\ ~WriteSummary
    BY <1>4 DEF WriteViews, EndPhase, Report, WriteSummary, Phases
  <2>2. /\ DOMAIN g = RootFiles /\ g.tables = f.tables /\ g.summary = f.summary
        /\ g.manifest = f.manifest
    BY <1>0 DEF RootFiles
  <2> HIDE DEF g
  <2>3. RootOK' /\ root'.files = g
    BY <1>0, <2>1, <2>2, WrittenFiles
  <2> QED
    BY <2>1, <2>2, <2>3
<1>5. CASE AbortTrial
  <2> DEFINE g == [f EXCEPT !.failure = TRUE]
  <2>1. root' = root \/ Write(g)
    BY <1>5 DEF AbortTrial
  <2>2. /\ DOMAIN g = RootFiles /\ g.tables = f.tables /\ g.summary = f.summary
        /\ g.manifest = f.manifest
    BY <1>0 DEF RootFiles
  <2> HIDE DEF g
  <2>3. RootOK' /\ (root'.files = g \/ root' = root)
    BY <1>0, <2>1, <2>2, WrittenFiles DEF RootOK
  <2>4. job.stage # "none"
    BY <1>5 DEF AbortTrial
  <2>5. ~EndPhase /\ ~Report /\ ~WriteSummary
    <3>1. pc' = "off"
      BY <1>5 DEF AbortTrial, Stop
    <3> QED
      BY <3>1 DEF EndPhase, Report, WriteSummary, NextPhase, Phases
  <2> QED
    BY <2>2, <2>3, <2>5
<1>6. CASE SealExperiment
  <2>1. root' = [root EXCEPT !.seal = Image] /\ ~EndPhase /\ ~Report /\ ~WriteSummary
    BY <1>6 DEF SealExperiment, EndPhase, Report, WriteSummary, Phases
  <2>2. root'.files = root.files /\ DOMAIN root' = {"files", "seal"}
    BY <1>0, <2>1
  <2> QED
    BY <1>0, <2>1, <2>2 DEF RootOK
<1>7. CASE EndPhase
  <2> DEFINE g == [f EXCEPT !.tables[pc] = told[pc]]
  <2>1. Write(g) /\ pc \in Phases
    BY <1>7 DEF EndPhase
  <2>2. /\ DOMAIN g = RootFiles /\ DOMAIN g.tables = Phases /\ g.tables[pc] = told[pc]
        /\ \A p \in Phases : p # pc => g.tables[p] = f.tables[p]
        /\ g.manifest = f.manifest
    BY <1>0, <2>1 DEF RootFiles
  <2> HIDE DEF g
  <2>3. RootOK' /\ root'.files = g
    BY <1>0, <2>1, <2>2, WrittenFiles
  <2>4. ~(CreateRoot \/ SaveManifest \/ SaveInputs \/ WriteViews \/ SealExperiment
            \/ Report \/ WriteSummary)
    BY <2>1 DEF CreateRoot, SaveManifest, SaveInputs, WriteViews, SealExperiment, Report,
       WriteSummary, Phases
  <2>5. ~AbortTrial
    <3>1. pc' # "off"
      BY <1>7, <2>1 DEF EndPhase, NextPhase, Phases
    <3> QED
      BY <3>1 DEF AbortTrial, Stop
  <2> QED
    BY <2>2, <2>3, <2>4, <2>5
<1>8. CASE Report
  <2> DEFINE g == [f EXCEPT !.report = Best, !.manifest.warnings = notes]
  <2>1. Write(g) /\ pc = "report"
    BY <1>8 DEF Report
  <2>2. /\ DOMAIN g = RootFiles /\ g.tables = f.tables
        /\ g.manifest.warnings = notes /\ DOMAIN g.manifest = {"saved", "warnings"}
    BY <1>0 DEF RootFiles
  <2> HIDE DEF g
  <2>3. RootOK' /\ root'.files = g
    BY <1>0, <2>1, <2>2, WrittenFiles
  <2>4. ~(CreateRoot \/ SaveManifest \/ SaveInputs \/ WriteViews \/ SealExperiment
            \/ EndPhase \/ WriteSummary)
    BY <2>1 DEF CreateRoot, SaveManifest, SaveInputs, WriteViews, SealExperiment, EndPhase,
       WriteSummary, Phases
  <2>5. ~AbortTrial
    BY <1>8 DEF AbortTrial, Stop, Report
  <2> QED
    BY <2>2, <2>3, <2>4, <2>5
<1>9. CASE WriteSummary
  <2> DEFINE sum == [told |-> told, searchBest |-> BestAcross(RowsOf(told["search"]), Methods),
                     best |-> Best, warnings |-> notes, saved |-> TRUE]
             g == [f EXCEPT !.summary = sum]
  <2>1. Write(g) /\ pc = "summary"
    BY <1>9 DEF WriteSummary
  <2>2. /\ sum.told = told /\ sum.best = Best /\ sum.warnings = notes /\ sum.saved
    OBVIOUS
  <2> HIDE DEF sum
  <2>3. /\ DOMAIN g = RootFiles /\ g.tables = f.tables /\ g.manifest = f.manifest
        /\ g.summary = sum
    BY <1>0 DEF RootFiles
  <2> HIDE DEF g
  <2>4. RootOK' /\ root'.files = g
    BY <1>0, <2>1, <2>3, WrittenFiles
  <2>5. ~(CreateRoot \/ SaveManifest \/ SaveInputs \/ WriteViews \/ SealExperiment
            \/ EndPhase \/ Report)
    BY <2>1 DEF CreateRoot, SaveManifest, SaveInputs, WriteViews, SealExperiment, EndPhase,
       Report, Phases
  <2>6. ~AbortTrial
    BY <1>9 DEF AbortTrial, Stop, WriteSummary
  <2> QED
    BY <2>2, <2>3, <2>4, <2>5, <2>6
<1> QED
  BY <1>1, <1>2, <1>3, <1>4, <1>5, <1>6, <1>7, <1>8, <1>9 DEF WritesRoot

-----------------------------------------------------------------------------
(* The end of a boot *)

\* After the phases one step follows the other.
LEMMA EndMoves ==
  ASSUME JobOK, Next, pc \in Ending
  PROVE  /\ told' = told /\ notes' = notes /\ job.stage = "none"
         /\ \/ Report \/ WriteSummary \/ WriteViews \/ RefuseAttestation
            \/ SealExperiment \/ Crash
<1>1. job.stage = "none" /\ pc \notin Phases \cup {"off", "init", "manifest", "inputs"}
  BY DEF JobOK, Ending, Phases
<1>2. Report \/ WriteSummary \/ WriteViews \/ RefuseAttestation \/ SealExperiment \/ Crash
  <2>1. ~(Boot \/ CreateRoot \/ SaveManifest \/ SaveInputs \/ Reopen \/ RefuseRoot
            \/ RefuseIdentity)
    BY <1>1 DEF Boot, CreateRoot, SaveManifest, SaveInputs, Reopen, RefuseRoot, RefuseIdentity
  <2>2. ~(AskSearch \/ Exhausted \/ AskRepeat \/ AskCapacity \/ EndPhase)
    BY <1>1 DEF AskSearch, Exhausted, AskRepeat, AskCapacity, NextJob, EndPhase, Phases
  <2>3. ~(LoadCached \/ OpenTrial \/ Measure \/ Timeout \/ SaveSummary \/ AbortTrial)
    BY <1>1 DEF LoadCached, OpenTrial, Measure, MeasureTrial, Timeout, SaveSummary, AbortTrial
  <2>4. ~(RunRaises \/ FinalizeSeal \/ FinalizeJudge \/ FinalizeReseal \/ FinalizerRaises)
    BY <1>1 DEF RunRaises, FinalizeSeal, FinalizeJudge, FinalizeReseal, FinalizerRaises
  <2> QED
    BY <2>1, <2>2, <2>3, <2>4, NextSplit DEF Quiet, Writing, Failing
<1> QED
  BY <1>1, <1>2 DEF Report, WriteSummary, WriteViews, RefuseAttestation, SealExperiment,
     Crash, Stop

\* Only the seal ends a boot as done.
LEMMA DoneBy ==
  ASSUME IInv, Next, Done'
  PROVE  SealExperiment /\ pc = "seal" /\ told' = told /\ notes' = notes
<1>1. CASE pc = "off"
  <2>1. Boot
    <3>1. JobOK /\ job.stage = "none"
      BY <1>1 DEF IInv, JobOK, Phases
    <3>2. ~(CreateRoot \/ SaveManifest \/ SaveInputs \/ Reopen \/ RefuseRoot
              \/ RefuseIdentity)
      BY <1>1 DEF CreateRoot, SaveManifest, SaveInputs, Reopen, RefuseRoot, RefuseIdentity
    <3>3. ~(AskSearch \/ Exhausted \/ AskRepeat \/ AskCapacity \/ EndPhase)
      BY <1>1 DEF AskSearch, Exhausted, AskRepeat, AskCapacity, NextJob, EndPhase, Phases
    <3>4. ~(LoadCached \/ OpenTrial \/ Measure \/ Timeout \/ SaveSummary \/ AbortTrial)
      BY <3>1 DEF LoadCached, OpenTrial, Measure, MeasureTrial, Timeout, SaveSummary,
         AbortTrial
    <3>5. ~(RunRaises \/ FinalizeSeal \/ FinalizeJudge \/ FinalizeReseal \/ FinalizerRaises)
      BY <3>1 DEF RunRaises, FinalizeSeal, FinalizeJudge, FinalizeReseal, FinalizerRaises
    <3>6. ~(Report \/ WriteSummary \/ WriteViews \/ RefuseAttestation \/ SealExperiment
              \/ Crash)
      BY <1>1 DEF Report, WriteSummary, WriteViews, RefuseAttestation, SealExperiment, Crash
    <3> QED
      BY <3>2, <3>3, <3>4, <3>5, <3>6, NextSplit DEF Quiet, Writing, Failing
  <2> QED
    BY <2>1 DEF Boot, Done
<1>2. CASE pc # "off" /\ ~SealExperiment
  <2>1. CASE Boot \/ CreateRoot \/ SaveManifest \/ SaveInputs \/ Reopen \/ Report
             \/ WriteSummary \/ WriteViews \/ EndPhase
    BY <1>2, <2>1 DEF Boot, CreateRoot, SaveManifest, SaveInputs, Reopen, Report,
       WriteSummary, WriteViews, EndPhase, NextPhase, Done, Phases
  <2>2. CASE RefuseRoot \/ RefuseIdentity \/ Exhausted \/ RefuseAttestation \/ Crash
             \/ AbortTrial
    BY <2>2 DEF RefuseRoot, RefuseIdentity, Exhausted, RefuseAttestation, Crash, AbortTrial,
       Stop, Done
  <2>3. CASE AskSearch \/ AskRepeat \/ AskCapacity
    BY <1>2, <2>3, Asked DEF Asks, Done
  <2>4. CASE OpenTrial \/ Measure \/ Timeout \/ SaveSummary \/ FinalizeSeal
    BY <1>2, <2>4 DEF OpenTrial, Measure, MeasureTrial, Timeout, SaveSummary,
       FinalizeSeal, Stage, Done
  <2>5. CASE LoadCached \/ RunRaises \/ FinalizeJudge
    BY <1>2, <2>5 DEF LoadCached, RunRaises, FinalizeJudge, Uncaught, DeliverException,
       Deliver, Stage, Stop, Done
  <2>6. CASE FinalizeReseal \/ FinalizerRaises
    BY <1>2, <2>6 DEF FinalizeReseal, FinalizerRaises, Uncaught, DeliverException,
       Deliver, Stop, Done
  <2> QED
    BY <1>2, <2>1, <2>2, <2>3, <2>4, <2>5, <2>6, NextSplit DEF Quiet, Writing, Failing
<1>3. CASE SealExperiment
  BY <1>3 DEF SealExperiment, Stop
<1> QED
  BY <1>1, <1>2, <1>3

LEMMA AfterIs ==
  /\ \A p \in Phases : After[p] \subseteq Later \cup Ending /\ Ending \subseteq After[p]
  /\ \A p \in Phases : p \notin After[p]
  /\ \A p, q \in Phases : NextPhase[q] \in After[p] => q = p \/ q \in After[p]
BY DEF After, Phases, Later, Ending, NextPhase

\* Whoever is past a phase was past it, or has just ended it.
LEMMA PastMoves ==
  ASSUME IInv, Next, NEW p \in Phases, Past(p)'
  PROVE  \/ Past(p) /\ pc \in After[p] /\ told'[p] = told[p]
            /\ told'["search"] = told["search"]
         \/ EndPhase /\ pc = p /\ told' = told
<1>1. CASE Done'
  BY <1>1, DoneBy, AfterIs DEF Past, Ending
<1>2. CASE ~Done'
  <2>1. pc' \in After[p]
    BY <1>2 DEF Past
  <2>2. pc' \notin {"off", "init", "manifest", "inputs", "search"}
    BY <2>1, AfterIs DEF Later, Ending
  <2>3. CASE pc \in After[p]
    <3>1. pc # p /\ pc # "search" /\ pc # "off"
      BY <2>3, AfterIs DEF Later, Ending
    <3>2. told'[p] = told[p] /\ told'["search"] = told["search"]
      <4>1. ~Boot /\ ~AskSearch
        BY <3>1 DEF Boot, AskSearch
      <4> QED
        BY <3>1, <4>1, LogMoves DEF Phases
    <3> QED
      BY <2>3, <3>2 DEF Past
  <2>4. CASE pc \notin After[p]
    <3>1. pc \in Phases /\ pc' = NextPhase[pc] /\ EndPhase
      BY <2>1, <2>2, <2>4, PhaseMoves, AfterIs DEF Ending, IInv
    <3>2. pc = p
      BY <2>1, <2>4, <3>1, AfterIs
    <3> QED
      BY <3>1, <3>2 DEF EndPhase
  <2> QED
    BY <2>3, <2>4
<1> QED
  BY <1>1, <1>2

LEMMA PhasesStep ==
  ASSUME IInv, RootOK, PhasesDone, Next
  PROVE  PhasesDone'
<1> SUFFICES ASSUME NEW p \in Phases, Past(p)'
             PROVE  /\ root'.files.tables[p] = told'[p]
                    /\ p # "search" => Left(p)' = {}
  BY DEF PhasesDone
<1>1. CASE Past(p) /\ pc \in After[p] /\ told'[p] = told[p] /\ told'["search"] = told["search"]
  <2>1. root'.files.tables[p] = root.files.tables[p]
    <3>1. CASE EndPhase
      <4>1. pc # p
        BY <1>1, AfterIs
      <4> QED
        BY <3>1, <4>1, RootWrites DEF WritesRoot
    <3>2. CASE WritesRoot /\ ~EndPhase
      BY <3>2, RootWrites DEF WritesRoot
    <3>3. CASE ~WritesRoot
      BY <3>3, RootKept
    <3> QED
      BY <3>1, <3>2, <3>3
  <2> QED
    BY <1>1, <2>1 DEF PhasesDone, Left
<1>2. CASE EndPhase /\ pc = p /\ told' = told
  <2>1. root'.files.tables[p] = told[p]
    BY <1>2, RootWrites DEF WritesRoot
  <2>2. p # "search" => Left(p) = {}
    BY <1>2 DEF EndPhase
  <2> QED
    BY <1>2, <2>1, <2>2 DEF Left
<1> QED
  BY <1>1, <1>2, PastMoves

LEMMA ReportedStep ==
  ASSUME IInv, RootOK, Reported, Next
  PROVE  Reported'
<1>0. RootOK'
  BY RootWrites, RootKept DEF RootOK
<1>1. CASE pc' \notin {"summary", "attest", "seal"} /\ ~Done'
  BY <1>1 DEF Reported
<1>2. CASE Done'
  <2>1. SealExperiment /\ pc = "seal" /\ told' = told /\ notes' = notes
    BY <1>2, DoneBy
  <2>2. /\ root'.files.manifest.warnings = root.files.manifest.warnings
        /\ root'.files.summary = root.files.summary
    BY <2>1, RootWrites DEF WritesRoot
  <2>3. dirs' = dirs /\ root' = [root EXCEPT !.seal = Image]
    BY <2>1 DEF SealExperiment
  <2>4. root'.seal = Image /\ root'.files = root.files
    BY <2>3 DEF RootOK
  <2>5. Image' = Image
    BY <2>3, <2>4 DEF Image, Anchors, Existing
  <2>6. \A id \in Existing' : Intact(dirs'[id])
    BY <2>1, <2>3 DEF Reported, TrialsValidate, ValidCached, Existing
  <2>7. Best' = Best
    BY <2>1 DEF Best
  <2>8. pc' = "off"
    BY <1>2 DEF Done
  <2> QED
    BY <2>1, <2>2, <2>4, <2>5, <2>6, <2>7, <2>8 DEF Reported, RootIntact
<1>3. CASE pc' \in {"summary", "attest", "seal"}
  <2>1. pc \in Ending
    BY <1>3, PhaseMoves DEF IInv, Phases, NextPhase, Ending
  <2>2. told' = told /\ notes' = notes /\ (Report \/ WriteSummary \/ WriteViews)
    BY <1>3, <2>1, EndMoves
       DEF RefuseAttestation, SealExperiment, Crash, Stop, IInv
  <2>3. ~Done' /\ Best' = Best
    BY <1>3, <2>2 DEF Done, Best
  <2>4. CASE Report
    BY <2>2, <2>3, <2>4, RootWrites DEF WritesRoot, Reported, Report
  <2>5. CASE WriteSummary
    BY <2>2, <2>3, <2>5, RootWrites DEF WritesRoot, Reported, WriteSummary
  <2>6. CASE WriteViews
    <3>1. TrialsValidate' = TrialsValidate
      BY <2>6 DEF WriteViews, TrialsValidate, Existing
    <3>2. TrialsValidate
      BY <2>6 DEF WriteViews, Attestable
    <3> QED
      BY <2>2, <2>3, <2>6, <3>1, <3>2, RootWrites DEF WritesRoot, Reported, WriteViews
  <2> QED
    BY <2>2, <2>4, <2>5, <2>6
<1> QED
  BY <1>1, <1>2, <1>3

LEMMA RootInvariant == Spec => []RInv
<1>1. Init => RInv
  BY DEF Init, RInv, RootOK, EmptyRoot, RootFiles, Nothing, NoManifest, PhasesDone, Past,
         After, Done, Reported, Phases, Ending
<1>2. IInv /\ RInv /\ [Next]_vars => RInv'
  <2>1. IInv /\ RInv /\ Next => RInv'
    <3>1. RootOK /\ Next => RootOK'
      BY RootWrites, RootKept DEF RootOK
    <3> QED
      BY <3>1, PhasesStep, ReportedStep DEF RInv
  <2>2. RInv /\ UNCHANGED vars => RInv'
    <3> SUFFICES ASSUME RInv, UNCHANGED vars PROVE RInv'
      OBVIOUS
    <3>1. UNCHANGED <<pc, verdict, told, notes, root, dirs>>
      BY DEF vars, process, disk, history
    <3>2. RootOK' /\ PhasesDone'
      BY <3>1 DEF RInv, RootOK, PhasesDone, Past, Done, Left
    <3>3. Image' = Image /\ Existing' = Existing /\ Best' = Best
      BY <3>1 DEF Image, Anchors, Existing, Best
    <3>4. Reported'
      BY <3>1, <3>3 DEF RInv, Reported, Done, TrialsValidate, RootIntact
    <3> QED
      BY <3>2, <3>4 DEF RInv
  <2> QED
    BY <2>1, <2>2
<1> QED
  BY <1>1, <1>2, Invariant, PTL DEF Spec

-----------------------------------------------------------------------------
(* The best candidate *)

\* A trial of the search log is found by its method and its number.
LEMMA SearchTrialIsUnique ==
  ASSUME ToldOK, Numbered(told["search"]),
         NEW a \in RowsOf(told["search"]), NEW b \in RowsOf(told["search"]),
         a.method = b.method, a.number = b.number
  PROVE  a = b
<1> DEFINE s == told["search"]
<1>1. PICK i \in 1..Len(s) : a = s[i]
  BY LogIsSeq DEF Phases
<1>2. PICK j \in 1..Len(s) : b = s[j]
  BY LogIsSeq DEF Phases
<1>3. i = j
  BY <1>1, <1>2 DEF Numbered
<1> QED
  BY <1>1, <1>2, <1>3

GatePhases == IF HoldoutEnabled THEN {"repeat", "holdout"} ELSE {"repeat"}

\* When a phase is over, a row of it stands for every repeat of a candidate, and
\* carries the parameters of the candidate.
LEMMA EveryRepeatIsTold ==
  ASSUME IInv, LInv, NEW p \in GatePhases, Left(p) = {},
         NEW c \in Candidates(told["search"]), NEW r \in 1..RepeatCount
  PROVE  \E t \in RowsFor(c, RowsOf(told[p])) :
           /\ t.id = <<p, c.method, c.number, r>>
           /\ \E i \in 1..Len(told[p]) : t = told[p][i]
<1> DEFINE j == [id |-> <<p, c.method, c.number, r>>, params |-> c.params]
           s == told["search"]
<1>1. j \in Jobs(s, p)
  BY DEF Jobs, CandidateJobs, GatePhases
<1>2. \E t \in RowsOf(told[p]) : t.id = j.id
  BY <1>1 DEF Left, JobsLeft
<1>3. PICK t \in RowsOf(told[p]) : t.id = <<p, c.method, c.number, r>>
  BY <1>2
<1>4. PICK i \in 1..Len(told[p]) : t = told[p][i]
  <2>1. p \in Phases /\ ToldOK
    BY DEF IInv, Phases, GatePhases
  <2>2. RowsOf(told[p]) = {told[p][i] : i \in 1..Len(told[p])}
    BY <2>1, LogIsSeq
  <2> QED
    BY <2>2
<1>5. [id |-> t.id, params |-> t.params] \in CandidateJobs(s, p)
  <2>1. [id |-> t.id, params |-> t.params] \in Jobs(s, p)
    BY <1>4 DEF LInv, LaterOK, Later, GatePhases
  <2> QED
    BY <2>1 DEF Jobs, GatePhases
<1>6. PICK d \in Candidates(s) : \E k \in 1..RepeatCount :
        [id |-> t.id, params |-> t.params]
          = [id |-> <<p, d.method, d.number, k>>, params |-> d.params]
  BY <1>5 DEF CandidateJobs
<1>7. PICK k \in 1..RepeatCount :
        [id |-> t.id, params |-> t.params]
          = [id |-> <<p, d.method, d.number, k>>, params |-> d.params]
  BY <1>6
<1>8. t.id = <<p, d.method, d.number, k>> /\ t.params = d.params
  <2>1. \A a, b, x, y : [id |-> a, params |-> x] = [id |-> b, params |-> y]
                         => a = b /\ x = y
    <3> SUFFICES ASSUME NEW a, NEW b, NEW x, NEW y,
                        [id |-> a, params |-> x] = [id |-> b, params |-> y]
                 PROVE  a = b /\ x = y
      OBVIOUS
    <3>1. [id |-> a, params |-> x].id = a /\ [id |-> a, params |-> x].params = x
      OBVIOUS
    <3>2. [id |-> b, params |-> y].id = b /\ [id |-> b, params |-> y].params = y
      OBVIOUS
    <3> QED
      BY <3>1, <3>2
  <2> QED
    BY <1>7, <2>1
<1>9. d.method = c.method /\ d.number = c.number
  BY <1>3, <1>8
<1>10. d = c
  BY <1>9, CandidatesAreTrials, SearchTrialIsUnique DEF IInv, LInv
<1>11. t.method = c.method /\ t.of = c.number
  <2>1. RowOK(p, t)
    BY <1>4 DEF IInv, RowsOK, Phases, GatePhases
  <2> QED
    BY <1>3, <2>1 DEF RowOK
<1> QED
  BY <1>3, <1>4, <1>8, <1>10, <1>11 DEF RowsFor

LEMMA BestAreCandidates ==
  ASSUME NEW S, NEW R, NEW H, NEW best \in BestCandidate(S, R, H)
  PROVE  best \in S /\ Validated(best, R, H)
BY DEF BestCandidate

\* What an attested experiment reports as best has, on the disk, every repeat
\* and every holdout of it (_validate_candidates): each was measured with its
\* parameters, and each is selectable.
THEOREM BestHasItsEvidence == Spec => []BestIsProven
<1>1. IInv /\ LInv /\ RInv => BestIsProven
  <2> SUFFICES ASSUME IInv, LInv, RInv, Done, NEW best \in root.files.summary.best,
                      NEW p \in GatePhases,
                      NEW r \in 1..RepeatCount
               PROVE  LET result == dirs[<<p, best.method, best.number, r>>].files.summary
                      IN  Selectable(result) /\ result.params = best.params
    BY DEF BestIsProven, Done, GatePhases
  <2>1. best \in Best
    BY DEF RInv, Reported
  <2>2. /\ best \in Candidates(told["search"])
        /\ Validated(best, RowsOf(told["repeat"]), RowsOf(told["holdout"]))
    BY <2>1, BestAreCandidates DEF Best
  <2>3. Left(p) = {}
    BY DEF RInv, PhasesDone, Past, Phases, GatePhases
  <2>4. PICK t \in RowsFor(best, RowsOf(told[p])) :
          /\ t.id = <<p, best.method, best.number, r>>
          /\ \E i \in 1..Len(told[p]) : t = told[p][i]
    <3>1. best \in Candidates(told["search"])
      BY <2>2
    <3>2. \E t \in RowsFor(best, RowsOf(told[p])) :
            /\ t.id = <<p, best.method, best.number, r>>
            /\ \E i \in 1..Len(told[p]) : t = told[p][i]
      BY <2>3, <3>1, EveryRepeatIsTold
    <3> QED
      BY <3>2
  <2>5. AllPassed(RowsFor(best, RowsOf(told[p])))
    BY <2>2 DEF Validated, GatePhases
  <2>6. t.status = "COMPLETE"
    BY <2>5 DEF AllPassed, MeasuredOf, Passed
  <2>7. Measured(t, dirs[t.id])
    BY <2>4, <2>6 DEF LInv, RowsMeasured, Phases, GatePhases
  <2>8. t.params = best.params
    BY DEF RowsFor
  <2> QED
    BY <2>4, <2>7, <2>8 DEF Measured
<1> QED
  BY <1>1, Invariant, LogInvariant, RootInvariant, PTL

-----------------------------------------------------------------------------
(* The log of an experiment *)

\* However many boots there were, as long as nothing raised, there is one log:
\* every boot has told a first part of it, every trial of it is settled on the
\* disk, and only the trial that comes next in it may be half done.
Cut(s, k) == [i \in 1..k |-> s[i]]

SearchJob(s, left) ==
  LET m == NextMethod(left) IN
  [id |-> <<"search", m, Attempts(s, m), 0>>, params |-> Suggest(s, m)]
IsFor(row, j) == row.id = j.id /\ row.params = j.params

\* left[k]: the methods left in the round when k search trials have been told.
Generated(L, left) ==
  /\ left[0] = {}
  /\ \A k \in 1..Len(L["search"]) :
       LET s == Cut(L["search"], k - 1)
           now == Round(s, left[k - 1]) IN
       /\ now # {} /\ IsFor(L["search"][k], SearchJob(s, now))
       /\ left[k] = now \ {L["search"][k].id[2]}
  /\ \A p \in Later : \A k \in 1..Len(L[p]) :
       LET jobs == JobsLeft(L["search"], p, Cut(L[p], k - 1)) IN
       jobs # {} /\ IsFor(L[p][k], FirstJob(jobs))

\* The jobs after the last of a phase, and the first of them.
Open(L, left, p) ==
  IF p = "search" THEN Round(L["search"], left[Len(L["search"])])
  ELSE JobsLeft(L["search"], p, L[p])
Due(L, left, p) ==
  IF p = "search" THEN SearchJob(L["search"], Open(L, left, p))
  ELSE FirstJob(Open(L, left, p))

Before ==
  [p \in Phases |-> {q \in Phases : p \in After[q]}]
Front(L, left, p) ==
  Open(L, left, p) # {} /\ \A q \in Before[p] : Open(L, left, q) = {}
Ordered(L, left) ==
  \A p \in Phases : L[p] # <<>> => \A q \in Before[p] : Open(L, left, q) = {}

Shape(L) ==
  \A p \in Phases :
    IsSeq(L[p]) /\ \A i \in 1..Len(L[p]) : L[p][i].id \in TrialIds /\ L[p][i].id[1] = p
Logged(L, id) == \E p \in Phases : \E i \in 1..Len(L[p]) : L[p][i].id = id

\* What a boot makes of a trial and its result.
RowFor(id, params, r) ==
  [id |-> id, method |-> id[2], number |-> id[3], of |-> id[3], params |-> params,
   status |-> ToldStatus(r), result |-> r,
   value |-> IF ToldStatus(r) \in {"COMPLETE", "INFEASIBLE"} THEN r.value ELSE 0]

\* A later boot will replay the row as it is.
Settled(p, row, d) ==
  /\ d.files.made /\ Replayable(d) /\ d.files.summary = row.result
  /\ row.result.error = "none" /\ row.result.params = row.params
  /\ row = RowFor(row.id, row.params, row.result)
  /\ p = "capacity" /\ row.result.status = "COMPLETE" => row.result.evidence = "full"
AllSettled(L) ==
  \A p \in Phases : \A i \in 1..Len(L[p]) : Settled(p, L[p][i], dirs[L[p][i].id])

\* A trial that is not settled is the one that comes next.
Touched(f) == f.made \/ f.summary # NoResult
Waiting(f, params) ==
  \/ f.summary = NoResult
  \/ f.made /\ f.summary.params = params /\ f.summary.error = "none"
AllKnown(L, left) ==
  \A id \in TrialIds : Touched(dirs[id].files) =>
    \/ Logged(L, id)
    \/ \E p \in Phases :
         /\ Front(L, left, p) /\ id = Due(L, left, p).id
         /\ Waiting(dirs[id].files, Due(L, left, p).params)

TellsPart(L, t) ==
  \A p \in Phases : Len(t[p]) \in 0..Len(L[p]) /\ t[p] = Cut(L[p], Len(t[p]))

\* Where the boot is in the log.
Position(L, left) ==
  /\ \A p \in Phases : Past(p) => told[p] = L[p] /\ Open(L, left, p) = {}
  /\ pc = "search" =>
       LET now == left[Len(told["search"])] IN
       round = IF job.stage = "none" THEN now ELSE Round(told["search"], now)

\* The result fits the files, but for a measurement that does not suffice.
Sound(f, r) ==
  /\ f.made /\ r # NoResult /\ r.error = "none"
  /\ f.params = r.params /\ f.status = r.status
  /\ r.clean # "unknown" => f.cleanup = r.clean
  /\ f.raw.evidence # "marker" => f.raw.run = r.run
  /\ Selectable(r) /\ r.evidence = "full" => FilesAvailable(f)

Replays(L) == Len(told[pc]) < Len(L[pc])
Replaying(row) ==
  \/ job.stage = "ask"
  \/ pc = "capacity" /\ job.stage \in {"returned", "sealed"} /\ job.res = row.result
Working ==
  /\ job.stage = "open" => Files.made /\ Files.params = job.params
  /\ job.stage \in {"measured", "returned", "sealed", "demoted"} => Sound(Files, job.res)
  /\ job.stage \in {"unsafe", "cancelled"} =>
       job.res # NoResult /\ job.res.error = "none"
InHandOK(L) ==
  job.stage # "none" =>
    IF Replays(L) THEN Replaying(L[pc][Len(told[pc]) + 1]) ELSE Working

LogOK(L, left) ==
  /\ Shape(L) /\ Generated(L, left) /\ Ordered(L, left)
  /\ AllSettled(L) /\ AllKnown(L, left)
  /\ TellsPart(L, told) /\ TellsPart(L, past)
  /\ Position(L, left) /\ InHandOK(L)

OneLog == CollectNvml /\ "raised" \notin slips => \E L, left : LogOK(L, left)

-----------------------------------------------------------------------------
(* How a log grows *)

LEMMA CutIs ==
  ASSUME NEW s, IsSeq(s), NEW k \in 0..Len(s)
  PROVE  /\ Len(s) \in Nat /\ DOMAIN s = 1..Len(s)
         /\ IsSeq(Cut(s, k)) /\ Len(Cut(s, k)) = k /\ DOMAIN Cut(s, k) = 1..k
         /\ \A i \in 1..k : Cut(s, k)[i] = s[i]
         /\ k = Len(s) => Cut(s, k) = s
<1>1. Len(s) \in Nat /\ DOMAIN s = 1..Len(s) /\ s = [i \in 1..Len(s) |-> s[i]]
  BY DEF IsSeq
<1>2. k \in Nat
  BY <1>1
<1>3. Cut(s, k) \in Seq({s[i] : i \in 1..k}) /\ Len(Cut(s, k)) = k
  BY <1>2 DEF Cut
<1> QED
  BY <1>1, <1>3 DEF Cut, IsSeq

LEMMA AppendFunction ==
  ASSUME NEW s, IsSeq(s), NEW x
  PROVE  Append(s, x) = [i \in 1..(Len(s) + 1) |-> IF i = Len(s) + 1 THEN x ELSE s[i]]
<1> DEFINE a == Append(s, x)
<1>1. /\ Len(s) \in Nat /\ DOMAIN a = 1..(Len(s) + 1) /\ a[Len(s) + 1] = x
      /\ IsSeq(a) /\ Len(a) = Len(s) + 1 /\ \A i \in 1..Len(s) : a[i] = s[i]
  BY AppendIs
<1> HIDE DEF a
<1>2. a = [i \in 1..Len(a) |-> a[i]]
  BY <1>1 DEF IsSeq
<1>3. \A i \in 1..(Len(s) + 1) : a[i] = IF i = Len(s) + 1 THEN x ELSE s[i]
  BY <1>1
<1> QED
  BY <1>1, <1>2, <1>3 DEF a

LEMMA CutOfAppend ==
  ASSUME NEW s, IsSeq(s), NEW x, NEW k \in 0..Len(s)
  PROVE  Cut(Append(s, x), k) = Cut(s, k) /\ Append(s, x)[Len(s) + 1] = x
<1>1. Len(s) \in Nat /\ \A i \in 1..k : Append(s, x)[i] = s[i]
  BY CutIs, AppendIs
<1> QED
  BY <1>1, AppendIs DEF Cut

\* The next row of a log, told.
LEMMA AppendToCut ==
  ASSUME NEW s, IsSeq(s), NEW k \in 0..Len(s), k < Len(s)
  PROVE  Append(Cut(s, k), s[k + 1]) = Cut(s, k + 1)
<1>1. /\ Len(s) \in Nat /\ IsSeq(Cut(s, k)) /\ Len(Cut(s, k)) = k
      /\ \A i \in 1..k : Cut(s, k)[i] = s[i]
  BY CutIs
<1>2. Append(Cut(s, k), s[k + 1])
        = [i \in 1..(k + 1) |-> IF i = k + 1 THEN s[k + 1] ELSE Cut(s, k)[i]]
  BY <1>1, AppendFunction
<1>3. \A i \in 1..(k + 1) : (IF i = k + 1 THEN s[k + 1] ELSE Cut(s, k)[i]) = s[i]
  BY <1>1
<1> QED
  BY <1>2, <1>3 DEF Cut

LEMMA BeforeIs ==
  /\ Before["search"] = {} /\ Before["repeat"] = {"search"}
  /\ Before["holdout"] = {"search", "repeat"}
  /\ Before["capacity"] = {"search", "repeat", "holdout"}
BY DEF Before, After, Phases, Ending

Grown(L, p, row) == [q \in Phases |-> IF q = p THEN Append(L[p], row) ELSE L[q]]

LEMMA GrownIs ==
  ASSUME NEW L, NEW p \in Phases, NEW row
  PROVE  /\ Grown(L, p, row)[p] = Append(L[p], row)
         /\ \A q \in Phases : q # p => Grown(L, p, row)[q] = L[q]
BY DEF Grown

LEMMA ShapeGrows ==
  ASSUME NEW L, Shape(L), NEW p \in Phases, NEW row,
         row.id \in TrialIds, row.id[1] = p
  PROVE  Shape(Grown(L, p, row))
<1> DEFINE M == Grown(L, p, row)
<1> SUFFICES ASSUME NEW q \in Phases
             PROVE  /\ IsSeq(M[q])
                    /\ \A i \in 1..Len(M[q]) : M[q][i].id \in TrialIds /\ M[q][i].id[1] = q
  BY DEF Shape
<1>1. CASE q # p
  BY <1>1, GrownIs DEF Shape
<1>2. CASE q = p
  <2>1. M[q] = Append(L[p], row) /\ IsSeq(L[p])
    BY <1>2, GrownIs DEF Shape
  <2> HIDE DEF M
  <2>2. /\ IsSeq(M[q]) /\ Len(M[q]) = Len(L[p]) + 1 /\ Len(L[p]) \in Nat
        /\ M[q][Len(L[p]) + 1] = row /\ \A i \in 1..Len(L[p]) : M[q][i] = L[p][i]
    BY <2>1, AppendIs
  <2>3. \A i \in 1..Len(M[q]) : i = Len(L[p]) + 1 \/ i \in 1..Len(L[p])
    BY <2>2
  <2> QED
    BY <1>2, <2>2, <2>3 DEF Shape
<1> QED
  BY <1>1, <1>2

\* One more search trial; the later phases have not begun.
LeftAfter(L, left, row) ==
  [k \in 0..(Len(L["search"]) + 1) |->
     IF k = Len(L["search"]) + 1 THEN Open(L, left, "search") \ {row.id[2]} ELSE left[k]]

LEMMA SearchGrows ==
  ASSUME NEW L, NEW left, Shape(L), Generated(L, left), Ordered(L, left), NEW row,
         Open(L, left, "search") # {}, IsFor(row, Due(L, left, "search"))
  PROVE  LET M == Grown(L, "search", row)
             now == LeftAfter(L, left, row)
         IN  /\ Generated(M, now) /\ Ordered(M, now)
             /\ \A k \in 0..Len(L["search"]) : now[k] = left[k]
             /\ now[Len(L["search"]) + 1] = Open(L, left, "search") \ {row.id[2]}
<1> DEFINE M == Grown(L, "search", row)
           now == LeftAfter(L, left, row)
           s == L["search"]
           t == M["search"]
           n == Len(s)
<1>1. IsSeq(s) /\ t = Append(s, row)
  BY GrownIs DEF Shape, Phases
<1>2. \A p \in Later : L[p] = <<>> /\ M[p] = <<>>
  BY BeforeIs, GrownIs DEF Ordered, Later, Phases
<1>3. n \in Nat
  BY <1>1, AppendIs
<1>4. /\ \A k \in 0..n : now[k] = left[k]
      /\ now[n + 1] = Open(L, left, "search") \ {row.id[2]}
  BY <1>3 DEF LeftAfter
<1>5. Len(t) = n + 1 /\ t[n + 1] = row /\ \A i \in 1..n : t[i] = s[i]
  BY <1>1, AppendIs
<1>6. ASSUME NEW k \in 0..Len(s) PROVE Cut(Append(s, row), k) = Cut(s, k)
  BY <1>1, CutOfAppend
<1>7. Cut(s, n) = s
  BY <1>1, <1>3, CutIs
<1>8. Open(L, left, "search") = Round(s, left[n]) /\ Due(L, left, "search") = SearchJob(s, Round(s, left[n]))
  BY DEF Open, Due
<1>9. \A k \in 1..n :
        /\ Round(Cut(s, k - 1), left[k - 1]) # {}
        /\ IsFor(s[k], SearchJob(Cut(s, k - 1), Round(Cut(s, k - 1), left[k - 1])))
        /\ left[k] = Round(Cut(s, k - 1), left[k - 1]) \ {s[k].id[2]}
  BY DEF Generated
<1>10. left[0] = {}
  BY DEF Generated
<1> HIDE DEF M, now, s, t, n
<1>11. \A k \in 1..Len(t) :
        /\ Round(Cut(t, k - 1), now[k - 1]) # {}
        /\ IsFor(t[k], SearchJob(Cut(t, k - 1), Round(Cut(t, k - 1), now[k - 1])))
        /\ now[k] = Round(Cut(t, k - 1), now[k - 1]) \ {t[k].id[2]}
  <2> SUFFICES ASSUME NEW k \in 1..Len(t)
               PROVE  /\ Round(Cut(t, k - 1), now[k - 1]) # {}
                      /\ IsFor(t[k], SearchJob(Cut(t, k - 1), Round(Cut(t, k - 1), now[k - 1])))
                      /\ now[k] = Round(Cut(t, k - 1), now[k - 1]) \ {t[k].id[2]}
    OBVIOUS
  <2>1. k - 1 \in 0..n /\ (k = n + 1 \/ k \in 1..n)
    BY <1>3, <1>5
  <2>2. Cut(t, k - 1) = Cut(s, k - 1) /\ now[k - 1] = left[k - 1]
    BY <1>1, <1>4, <1>6, <2>1 DEF n
  <2>3. CASE k = n + 1
    <3>1. k - 1 = n
      BY <1>3, <2>3
    <3>2. Cut(t, k - 1) = s /\ now[k - 1] = left[n] /\ t[k] = row
      BY <1>5, <1>7, <2>2, <2>3, <3>1
    <3> QED
      BY <1>4, <1>8, <2>3, <3>2
  <2>4. CASE k \in 1..n
    <3>1. k \in 0..n
      BY <1>3, <2>4
    <3>2. t[k] = s[k] /\ now[k] = left[k]
      BY <1>4, <1>5, <2>4, <3>1
    <3> QED
      BY <1>9, <2>2, <2>4, <3>2
  <2> QED
    BY <2>1, <2>3, <2>4
<1>12. now[0] = {}
  <2>1. 0 \in 0..n
    BY <1>3
  <2> QED
    BY <1>4, <1>10, <2>1
<1>13. Generated(M, now)
  <2>1. \A p \in Later : Len(M[p]) = 0
    BY <1>2
  <2> QED
    BY <1>11, <1>12, <2>1 DEF Generated, t
<1>14. Ordered(M, now)
  BY <1>2, BeforeIs DEF Ordered, Phases, Later
<1> QED
  BY <1>4, <1>13, <1>14 DEF M, now, n, s

LEMMA LaterGrows ==
  ASSUME NEW L, NEW left, Shape(L), Generated(L, left), Ordered(L, left), NEW row,
         NEW p \in Later, Front(L, left, p), IsFor(row, Due(L, left, p))
  PROVE  LET M == Grown(L, p, row)
         IN  /\ Generated(M, left) /\ Ordered(M, left)
             /\ \A q \in Phases : q # p => Open(M, left, q) = Open(L, left, q)
<1> DEFINE M == Grown(L, p, row)
           s == L[p]
           t == M[p]
           n == Len(s)
<1>0. p \in Phases /\ "search" \in Phases /\ p # "search"
  BY DEF Later, Phases
<1>1. IsSeq(s) /\ t = Append(s, row) /\ \A q \in Phases : q # p => M[q] = L[q]
  BY <1>0, GrownIs DEF Shape
<1>2. n \in Nat /\ Len(t) = n + 1 /\ t[n + 1] = row /\ \A i \in 1..n : t[i] = s[i]
  BY <1>1, AppendIs
<1>3. \A k \in 0..n : Cut(t, k) = Cut(s, k)
  BY <1>1, CutOfAppend
<1>4. Cut(s, n) = s
  BY <1>1, <1>2, CutIs
<1>5. M["search"] = L["search"]
  BY <1>0, <1>1
<1>6. JobsLeft(L["search"], p, s) # {} /\ IsFor(row, FirstJob(JobsLeft(L["search"], p, s)))
  BY <1>0 DEF Front, Open, Due
<1>7. \A k \in 1..n : /\ JobsLeft(L["search"], p, Cut(s, k - 1)) # {}
                       /\ IsFor(s[k], FirstJob(JobsLeft(L["search"], p, Cut(s, k - 1))))
  BY DEF Generated
<1> HIDE DEF M, s, t, n
<1>8. \A k \in 1..Len(t) : /\ JobsLeft(L["search"], p, Cut(t, k - 1)) # {}
                           /\ IsFor(t[k], FirstJob(JobsLeft(L["search"], p, Cut(t, k - 1))))
  <2> SUFFICES ASSUME NEW k \in 1..Len(t)
               PROVE  /\ JobsLeft(L["search"], p, Cut(t, k - 1)) # {}
                      /\ IsFor(t[k], FirstJob(JobsLeft(L["search"], p, Cut(t, k - 1))))
    OBVIOUS
  <2>1. k - 1 \in 0..n /\ (k = n + 1 \/ k \in 1..n)
    BY <1>2
  <2>2. Cut(t, k - 1) = Cut(s, k - 1)
    BY <1>3, <2>1
  <2>3. CASE k = n + 1
    <3>1. k - 1 = n
      BY <1>2, <2>3
    <3> QED
      BY <1>2, <1>4, <1>6, <2>2, <2>3, <3>1
  <2>4. CASE k \in 1..n
    BY <1>2, <1>7, <2>2, <2>4
  <2> QED
    BY <2>1, <2>3, <2>4
<1>9. Generated(M, left)
  <2>1. \A q \in Later : q # p => M[q] = L[q]
    BY <1>1 DEF Later, Phases
  <2> QED
    BY <1>5, <1>8, <2>1 DEF Generated, t
<1>10. \A q \in Phases : q # p => Open(M, left, q) = Open(L, left, q)
  BY <1>1, <1>5 DEF Open
<1>11. Ordered(M, left)
  <2> SUFFICES ASSUME NEW q \in Phases, M[q] # <<>>, NEW b \in Before[q]
               PROVE  Open(M, left, b) = {}
    BY DEF Ordered
  <2>0. b \in Phases
    BY DEF Before
  <2>1. CASE q = p
    <3>1. b # p /\ Open(L, left, b) = {}
      BY <2>1, BeforeIs DEF Front, Later
    <3> QED
      BY <1>10, <2>0, <3>1
  <2>2. CASE q # p
    <3>1. Open(L, left, b) = {}
      BY <1>1, <2>2 DEF Ordered
    <3>2. b # p
      BY <3>1 DEF Front
    <3> QED
      BY <1>10, <2>0, <3>1, <3>2
  <2> QED
    BY <2>1, <2>2
<1> QED
  BY <1>9, <1>10, <1>11 DEF M

-----------------------------------------------------------------------------
(* The trial in hand and the log *)

\* What LogOK says of one phase.
LEMMA InTheLog ==
  ASSUME ToldOK, NEW L, NEW left, LogOK(L, left), NEW p \in Phases
  PROVE  /\ IsSeq(L[p]) /\ Len(L[p]) \in Nat /\ DOMAIN L[p] = 1..Len(L[p])
         /\ IsSeq(told[p]) /\ Len(told[p]) \in 0..Len(L[p])
         /\ told[p] = Cut(L[p], Len(told[p]))
         /\ \A i \in 1..Len(L[p]) :
              L[p][i].id \in TrialIds /\ L[p][i].id[1] = p /\ Settled(p, L[p][i], dirs[L[p][i].id])
         /\ Len(told[p]) = Len(L[p]) => told[p] = L[p]
<1>1. IsSeq(L[p]) /\ Len(told[p]) \in 0..Len(L[p]) /\ told[p] = Cut(L[p], Len(told[p]))
  BY DEF LogOK, Shape, TellsPart
<1>2. Len(L[p]) \in Nat /\ DOMAIN L[p] = 1..Len(L[p])
  BY <1>1, AppendIs
<1>3. IsSeq(told[p]) /\ Len(told[p]) \in Nat
  BY LogIsSeq DEF ToldOK
<1>4. Len(told[p]) \in 0..Len(L[p])
  BY <1>1, <1>2, <1>3
<1>5. \A i \in 1..Len(L[p]) :
        L[p][i].id \in TrialIds /\ L[p][i].id[1] = p /\ Settled(p, L[p][i], dirs[L[p][i].id])
  BY DEF LogOK, Shape, AllSettled
<1>6. ASSUME Len(told[p]) = Len(L[p])
      PROVE  told[p] = L[p]
  <2>1. Cut(L[p], Len(L[p])) = L[p]
    BY <1>1, <1>2, CutIs
  <2> QED
    BY <1>1, <1>6, <2>1
<1> QED
  BY <1>1, <1>2, <1>3, <1>4, <1>5, <1>6

\* What a phase left of the log, a boot past it has told.
LEMMA PastIsTold ==
  ASSUME NEW L, NEW left, Position(L, left), NEW q \in Phases, pc \in After[q]
  PROVE  told[q] = L[q] /\ Open(L, left, q) = {}
BY DEF Position, Past

\* The jobs that are left to the boot, and the first of them.
OpenNow ==
  IF pc # "search" THEN Left(pc)
  ELSE IF job.stage = "none" THEN Round(told["search"], round) ELSE round
NextNow ==
  IF pc = "search" THEN SearchJob(told["search"], OpenNow) ELSE FirstJob(OpenNow)

\* The next trial of a boot is the next of the log, or the one after its end.
LEMMA SearchInLog ==
  ASSUME ToldOK, NEW L, NEW left, LogOK(L, left), pc = "search",
         NEW n, n = Len(told["search"]), NEW N, N = Len(L["search"])
  PROVE  /\ n < N => OpenNow # {} /\ IsFor(L["search"][n + 1], NextNow)
         /\ ~(n < N) => /\ told["search"] = L["search"]
                        /\ Open(L, left, "search") = OpenNow
                        /\ Due(L, left, "search") = NextNow
<1>0. "search" \in Phases
  BY DEF Phases
<1>1. /\ n \in Nat /\ N \in Nat /\ n <= N
      /\ told["search"] = Cut(L["search"], n)
      /\ n = N => told["search"] = L["search"]
  BY <1>0, InTheLog
<1>2. OpenNow = Round(told["search"], left[n])
  <2>1. Position(L, left)
    BY DEF LogOK
  <2>2. CASE job.stage = "none"
    BY <2>1, <2>2 DEF Position, OpenNow
  <2>3. CASE job.stage # "none"
    BY <2>1, <2>3 DEF Position, OpenNow
  <2> QED
    BY <2>2, <2>3
<1>3. NextNow = SearchJob(told["search"], OpenNow)
  BY DEF NextNow
<1>4. ASSUME n < N
      PROVE  OpenNow # {} /\ IsFor(L["search"][n + 1], NextNow)
  <2>1. n + 1 \in 1..N /\ (n + 1) - 1 = n
    BY <1>1, <1>4
  <2>2. /\ Round(Cut(L["search"], (n + 1) - 1), left[(n + 1) - 1]) # {}
        /\ IsFor(L["search"][n + 1],
                 SearchJob(Cut(L["search"], (n + 1) - 1),
                           Round(Cut(L["search"], (n + 1) - 1), left[(n + 1) - 1])))
    BY <2>1 DEF LogOK, Generated
  <2> QED
    BY <1>1, <1>2, <1>3, <2>1, <2>2
<1>5. ASSUME ~(n < N)
      PROVE  /\ told["search"] = L["search"]
             /\ Open(L, left, "search") = OpenNow
             /\ Due(L, left, "search") = NextNow
  <2>1. n = N /\ told["search"] = L["search"]
    BY <1>1, <1>5
  <2>2. Open(L, left, "search") = OpenNow
    BY <1>2, <2>1 DEF Open
  <2> QED
    BY <1>3, <2>1, <2>2 DEF Due
<1> QED
  BY <1>4, <1>5

LEMMA LaterInLog ==
  ASSUME ToldOK, NEW L, NEW left, LogOK(L, left), pc \in Later,
         NEW n, n = Len(told[pc]), NEW N, N = Len(L[pc])
  PROVE  /\ n < N => OpenNow # {} /\ IsFor(L[pc][n + 1], NextNow)
         /\ ~(n < N) => /\ told[pc] = L[pc]
                        /\ Open(L, left, pc) = OpenNow
                        /\ Due(L, left, pc) = NextNow
<1>0. pc \in Phases /\ pc # "search" /\ pc \in After["search"] /\ "search" \in Phases
  BY DEF Later, Phases, After
<1>1. /\ n \in Nat /\ N \in Nat /\ n <= N
      /\ told[pc] = Cut(L[pc], n)
      /\ n = N => told[pc] = L[pc]
  BY <1>0, InTheLog
<1>2. told["search"] = L["search"]
  BY <1>0, PastIsTold DEF LogOK
<1>3. OpenNow = JobsLeft(L["search"], pc, told[pc]) /\ NextNow = FirstJob(OpenNow)
  BY <1>0, <1>2 DEF OpenNow, NextNow, Left
<1>4. ASSUME n < N
      PROVE  OpenNow # {} /\ IsFor(L[pc][n + 1], NextNow)
  <2>1. n + 1 \in 1..N /\ (n + 1) - 1 = n
    BY <1>1, <1>4
  <2>2. /\ JobsLeft(L["search"], pc, Cut(L[pc], (n + 1) - 1)) # {}
        /\ IsFor(L[pc][n + 1],
                 FirstJob(JobsLeft(L["search"], pc, Cut(L[pc], (n + 1) - 1))))
    BY <2>1 DEF LogOK, Generated
  <2> QED
    BY <1>1, <1>3, <2>1, <2>2
<1>5. ASSUME ~(n < N)
      PROVE  /\ told[pc] = L[pc]
             /\ Open(L, left, pc) = OpenNow
             /\ Due(L, left, pc) = NextNow
  <2>1. told[pc] = L[pc]
    BY <1>1, <1>5
  <2>2. Open(L, left, pc) = OpenNow
    BY <1>0, <1>3, <2>1 DEF Open
  <2> QED
    BY <1>0, <1>3, <2>1, <2>2 DEF Due
<1> QED
  BY <1>4, <1>5

LEMMA NextInLog ==
  ASSUME ToldOK, NEW L, NEW left, LogOK(L, left), pc \in Phases
  PROVE  /\ Len(told[pc]) \in Nat /\ Len(L[pc]) \in Nat
         /\ Replays(L) => OpenNow # {} /\ IsFor(L[pc][Len(told[pc]) + 1], NextNow)
         /\ ~Replays(L) => /\ told[pc] = L[pc]
                           /\ Open(L, left, pc) = OpenNow
                           /\ Due(L, left, pc) = NextNow
<1>1. Len(told[pc]) \in Nat /\ Len(L[pc]) \in Nat
  BY InTheLog
<1>2. CASE pc = "search"
  BY <1>1, <1>2, SearchInLog DEF Replays
<1>3. CASE pc # "search"
  <2>1. pc \in Later
    BY <1>3 DEF Phases, Later
  <2> QED
    BY <1>1, <2>1, LaterInLog DEF Replays
<1> QED
  BY <1>2, <1>3

\* The trial in hand is the next of the log, or the one that comes after it.
LEMMA JobInLog ==
  ASSUME IInv, JobIsNext, NEW L, NEW left, LogOK(L, left), job.stage # "none"
  PROVE  /\ pc \in Phases /\ Len(told[pc]) \in Nat /\ Len(L[pc]) \in Nat
         /\ Replays(L) => IsFor(L[pc][Len(told[pc]) + 1], job)
         /\ ~Replays(L) =>
              /\ told[pc] = L[pc] /\ Front(L, left, pc)
              /\ IsFor(Due(L, left, pc), job)
              /\ pc = "search" => round = Open(L, left, "search")
<1>1. pc \in Phases /\ ToldOK
  BY DEF IInv, JobOK
<1>2. OpenNow # {} /\ IsFor(NextNow, job) /\ (pc = "search" => OpenNow = round)
  <2>1. CASE pc = "search"
    BY <2>1 DEF JobIsNext, SearchJob, IsFor, OpenNow, NextNow
  <2>2. CASE pc # "search"
    BY <2>2 DEF JobIsNext, IsFor, OpenNow, NextNow
  <2> QED
    BY <2>1, <2>2
<1>3. \A q \in Before[pc] : Open(L, left, q) = {}
  <2> SUFFICES ASSUME NEW q \in Before[pc]
               PROVE  Open(L, left, q) = {}
    OBVIOUS
  <2>1. q \in Phases /\ pc \in After[q]
    BY <1>1 DEF Before
  <2>2. Position(L, left)
    BY DEF LogOK
  <2> QED
    BY <2>1, <2>2, PastIsTold
<1>4. /\ Len(told[pc]) \in Nat /\ Len(L[pc]) \in Nat
      /\ Replays(L) => OpenNow # {} /\ IsFor(L[pc][Len(told[pc]) + 1], NextNow)
      /\ ~Replays(L) => /\ told[pc] = L[pc]
                        /\ Open(L, left, pc) = OpenNow
                        /\ Due(L, left, pc) = NextNow
  BY <1>1, NextInLog
<1>5. Replays(L) => IsFor(L[pc][Len(told[pc]) + 1], job)
  BY <1>2, <1>4 DEF IsFor
<1> QED
  BY <1>1, <1>2, <1>3, <1>4, <1>5 DEF Front

\* Nothing of it is logged, and what is on the disk of it waits for it.
LEMMA FrontIsNew ==
  ASSUME IInv, LInv, NEW L, NEW left, LogOK(L, left), job.stage # "none", ~Replays(L)
  PROVE  ~Logged(L, job.id)
<1>1. JobIsNext /\ Numbered(told["search"]) /\ job.id \in TrialIds /\ job.id[1] = pc /\ ToldOK
  BY DEF LInv, IInv, JobOK
<1>2. pc \in Phases /\ told[pc] = L[pc]
  BY <1>1, JobInLog
<1> SUFFICES ASSUME NEW p \in Phases, NEW i \in 1..Len(L[p]), L[p][i].id = job.id
             PROVE  FALSE
  BY DEF Logged
<1>3. L[p][i].id[1] = p
  BY <1>1, InTheLog
<1>4. p = pc
  BY <1>1, <1>3
<1>5. i \in 1..Len(told[pc]) /\ told[pc][i].id = job.id
  BY <1>2, <1>4
<1> QED
  BY <1>1, <1>2, <1>5, JobIsNew

LEMMA OneFront ==
  ASSUME NEW L, NEW left, NEW p \in Phases, NEW q \in Phases,
         Front(L, left, p), Front(L, left, q)
  PROVE  p = q
<1>1. p = q \/ p \in Before[q] \/ q \in Before[p]
  BY DEF Phases, Before, After, Ending
<1> QED
  BY <1>1 DEF Front

LEMMA FrontWaits ==
  ASSUME IInv, LInv, NEW L, NEW left, LogOK(L, left), job.stage # "none", ~Replays(L)
  PROVE  Waiting(Files, job.params)
<1>1. JobIsNext /\ job.id \in TrialIds
  BY DEF LInv, IInv, JobOK
<1>2. pc \in Phases /\ Front(L, left, pc) /\ IsFor(Due(L, left, pc), job)
  BY <1>1, JobInLog
<1>3. ~Logged(L, job.id)
  BY FrontIsNew
<1>4. CASE ~Touched(Files)
  BY <1>4 DEF Touched, Waiting
<1>5. CASE Touched(Files)
  <2>1. PICK p \in Phases : /\ Front(L, left, p) /\ job.id = Due(L, left, p).id
                            /\ Waiting(Files, Due(L, left, p).params)
    BY <1>1, <1>3, <1>5 DEF LogOK, AllKnown, Files
  <2>2. p = pc
    BY <1>2, <2>1, OneFront
  <2> QED
    BY <1>2, <2>1, <2>2 DEF IsFor
<1> QED
  BY <1>4, <1>5

-----------------------------------------------------------------------------
(* When a result fits its files *)

LEMMA SoundIsStrict ==
  ASSUME CollectNvml, NEW f, NEW r, f.summary = r, Sound(f, r),
         Selectable(r) => FilesAvailable(f)
  PROVE  StrictError(f) = "none"
<1>1. ~CountsDisagree(f.summary)
  BY DEF CountsDisagree
<1>2. ~(f.raw.evidence = "marker" /\ Selectable(f.summary))
  BY DEF FilesAvailable
<1>3. /\ ~(f.params # f.summary.params) /\ ~(f.status # f.summary.status)
      /\ ~(f.summary.clean # "unknown" /\ f.cleanup # f.summary.clean)
      /\ ~(f.raw.evidence # "marker" /\ f.raw.run # f.summary.run)
  BY DEF Sound
<1> QED
  BY <1>1, <1>2, <1>3 DEF StrictError

LEMMA StrictIsSound ==
  ASSUME NEW f, NEW r, f.summary = r, StrictError(f) = "none", f.made,
         r # NoResult, r.error = "none", Selectable(r) => FilesAvailable(f)
  PROVE  Sound(f, r)
<1>1. /\ ~(f.params # f.summary.params) /\ ~(f.status # f.summary.status)
      /\ ~(f.summary.clean # "unknown" /\ f.cleanup # f.summary.clean)
      /\ ~(f.raw.evidence # "marker" /\ f.raw.run # f.summary.run)
  <2>1. ~(f.params # f.summary.params)
    BY DEF StrictError
  <2>2. ~(f.status # f.summary.status)
    BY <2>1 DEF StrictError
  <2>3. ~(f.summary.clean # "unknown" /\ f.cleanup # f.summary.clean)
    BY <2>1, <2>2 DEF StrictError
  <2>4. ~(f.raw.evidence # "marker" /\ f.raw.run # f.summary.run)
    BY <2>1, <2>2, <2>3 DEF StrictError
  <2> QED
    BY <2>1, <2>2, <2>3, <2>4
<1> QED
  BY <1>1 DEF Sound

\* The markers that ensure_trial_artifacts adds contradict nothing.
LEMMA EnsuredIsSound ==
  ASSUME NEW f, NEW r, Sound(f, r)
  PROVE  /\ Sound(Ensured(f, r), r) /\ Ensured(f, r).summary = r
         /\ FilesAvailable(f) => FilesAvailable(Ensured(f, r))
<1> DEFINE g == Ensured(f, r)
<1>1. /\ g.made /\ g.summary = r
      /\ g.params = IF f.params = NoParams THEN r.params ELSE f.params
      /\ g.status = IF f.status = "absent" THEN r.status ELSE f.status
      /\ g.cleanup = IF f.cleanup = "absent" THEN r.clean ELSE f.cleanup
      /\ g.raw = IF f.raw.evidence = "absent" THEN [run |-> 0, evidence |-> "marker"]
                 ELSE f.raw
  BY DEF Ensured
<1> HIDE DEF g
<1>2. g.params = r.params /\ g.status = r.status
  BY <1>1 DEF Sound
<1>3. r.clean # "unknown" => g.cleanup = r.clean
  BY <1>1 DEF Sound
<1>4. g.raw.evidence # "marker" => g.raw.run = r.run
  BY <1>1 DEF Sound
<1>5. FilesAvailable(f) => FilesAvailable(g)
  BY <1>1 DEF FilesAvailable
<1>6. r # NoResult /\ r.error = "none"
      /\ (Selectable(r) /\ r.evidence = "full" => FilesAvailable(f))
  BY DEF Sound
<1>7. Sound(g, r)
  BY <1>1, <1>2, <1>3, <1>4, <1>5, <1>6 DEF Sound
<1> QED
  BY <1>1, <1>5, <1>7 DEF g

\* Sealed like that it is settled.
LEMMA SoundIsSettled ==
  ASSUME CollectNvml, NEW f, NEW r, Sound(f, r), f.summary = r,
         Selectable(r) => FilesAvailable(f),
         NEW p, p = "capacity" /\ r.status = "COMPLETE" => r.evidence = "full",
         NEW id
  PROVE  Settled(p, RowFor(id, r.params, r), SealedAs(f))
<1> DEFINE row == RowFor(id, r.params, r)
           d == SealedAs(f)
<1>1. d.files = f /\ d.seal = f
  BY DEF SealedAs
<1>2. row.id = id /\ row.params = r.params /\ row.result = r
  BY DEF RowFor
<1>3. row = RowFor(row.id, row.params, row.result)
  BY <1>2
<1> HIDE DEF row, d
<1>4. StrictError(f) = "none"
  BY SoundIsStrict
<1>5. f.made /\ r # NoResult /\ r.error = "none"
  BY DEF Sound
<1>6. f # EmptyFiles
  BY <1>5 DEF EmptyFiles
<1>7. ValidCached(d)
  BY <1>1, <1>4, <1>5, <1>6 DEF ValidCached, Intact
<1>8. Replayable(d)
  BY <1>1, <1>5, <1>7 DEF Replayable
<1>9. Settled(p, row, d)
  BY <1>1, <1>2, <1>3, <1>5, <1>8 DEF Settled
<1> QED
  BY <1>9 DEF row, d

\* What is replayed is sound.
LEMMA ReplayableIsSound ==
  ASSUME NEW d, NEW n, DirectoryOK(d, n), Replayable(d), d.files.made,
         d.files.summary.error = "none"
  PROVE  /\ d = SealedAs(d.files) /\ Sound(d.files, d.files.summary)
         /\ Selectable(d.files.summary) => FilesAvailable(d.files)
<1>1. /\ d.files.summary # NoResult /\ ValidCached(d)
      /\ Selectable(d.files.summary) => FilesAvailable(d.files)
  BY DEF Replayable
<1>2. d.seal = d.files /\ StrictError(d.files) = "none"
  BY <1>1 DEF ValidCached, Intact
<1>3. d = SealedAs(d.files)
  BY <1>2 DEF DirectoryOK, SealedAs
<1> QED
  BY <1>1, <1>2, <1>3, StrictIsSound

\* The sweep seals what it replays once more.
LEMMA SettledAgain ==
  ASSUME CollectNvml, NEW d, NEW n, DirectoryOK(d, n), NEW p, NEW row, Settled(p, row, d)
  PROVE  Settled(p, row, SealedAs(Ensured(d.files, row.result)))
<1> DEFINE f == d.files
           r == row.result
<1>1. /\ Sound(f, r) /\ Selectable(r) => FilesAvailable(f)
      /\ f.summary = r /\ r.params = row.params
      /\ p = "capacity" /\ r.status = "COMPLETE" => r.evidence = "full"
      /\ row = RowFor(row.id, row.params, r)
  BY ReplayableIsSound DEF Settled
<1>2. Sound(f, r) /\ (Selectable(r) => FilesAvailable(f))
  BY ReplayableIsSound DEF Settled
<1> HIDE DEF f, r
<1>3. /\ Sound(Ensured(f, r), r) /\ Ensured(f, r).summary = r
      /\ FilesAvailable(f) => FilesAvailable(Ensured(f, r))
  BY <1>2, EnsuredIsSound
<1>4. Settled(p, RowFor(row.id, r.params, r), SealedAs(Ensured(f, r)))
  BY <1>1, <1>2, <1>3, SoundIsSettled
<1> QED
  BY <1>1, <1>4 DEF f, r

\* The finalizer lets a sound result stand when its telemetry suffices.
LEMMA JudgedSound ==
  ASSUME CollectNvml, NEW f, NEW r, Sound(f, r), f.summary = r
  PROVE  /\ JudgeReason(r, f) # "inconsistent"
         /\ JudgeReason(r, f) = "none" /\ r.status = "COMPLETE" =>
              r.evidence = "full" /\ (Selectable(r) => FilesAvailable(f))
<1>1. r.evidence = "full" => (Selectable(r) => FilesAvailable(f))
  BY DEF Sound
<1>2. r.evidence = "full" => StrictError(f) = "none"
  BY <1>1, SoundIsStrict
<1>3. JudgeReason(r, f) # "inconsistent"
  BY <1>2 DEF JudgeReason, TelemetrySuffices
<1>4. ASSUME JudgeReason(r, f) = "none", r.status = "COMPLETE"
      PROVE  r.evidence = "full"
  BY <1>4 DEF JudgeReason, TelemetrySuffices
<1> QED
  BY <1>1, <1>3, <1>4

-----------------------------------------------------------------------------
(* A trial that is not in the log yet *)

Evaluates ==
  \/ LoadCached \/ OpenTrial \/ Measure \/ Timeout \/ SaveSummary \/ AbortTrial
  \/ FinalizeSeal \/ FinalizeJudge \/ FinalizeReseal \/ Crash

LEMMA EvaluationSteps ==
  ASSUME IInv, Next, job.stage # "none", "raised" \notin slips'
  PROVE  Evaluates
<1>1. pc \in Phases /\ job # NoJob
  BY NoJobOK DEF IInv, JobOK
<1>2. pc \notin {"off", "init", "manifest", "inputs", "report", "summary", "attest", "seal"}
  BY <1>1 DEF Phases
<1>3. ~RunRaises /\ ~FinalizerRaises
  BY DEF RunRaises, FinalizerRaises
<1>4. ~(Boot \/ CreateRoot \/ SaveManifest \/ SaveInputs \/ Reopen \/ RefuseRoot \/ RefuseIdentity)
  BY <1>2 DEF Boot, CreateRoot, SaveManifest, SaveInputs, Reopen, RefuseRoot, RefuseIdentity
<1>5. ~(Report \/ WriteSummary \/ WriteViews \/ RefuseAttestation \/ SealExperiment)
  BY <1>2 DEF Report, WriteSummary, WriteViews, RefuseAttestation, SealExperiment
<1>6. ~(AskSearch \/ Exhausted \/ AskRepeat \/ AskCapacity \/ EndPhase)
  BY <1>1 DEF AskSearch, Exhausted, AskRepeat, AskCapacity, EndPhase, NextJob
<1> QED
  BY <1>3, <1>4, <1>5, <1>6 DEF Next, Step, Evaluates

\* What is on the disk of a trial, and what is in hand of it, fit together
\* after each step of its evaluation.
OnTheWay ==
  /\ Waiting(dirs'[job.id].files, job.params)
  /\ job'.stage = "none" \/ Working'

\* Before such a step.
Started == Waiting(Files, job.params) /\ Working /\ job.stage # "none"

LEMMA ToNoJob ==
  ASSUME job' = NoJob, Waiting(dirs'[job.id].files, job.params)
  PROVE  OnTheWay
BY NoJobOK DEF OnTheWay

LEMMA LoadOnTheWay ==
  ASSUME IInv, Started, LoadCached
  PROVE  OnTheWay
<1> DEFINE d == dirs[job.id]
           cached == d.files.summary
<1>1. UNCHANGED dirs /\ job.stage = "ask" /\ job.id \in TrialIds
  BY DEF LoadCached, disk, IInv, JobOK
<1>2. Waiting(dirs'[job.id].files, job.params)
  BY <1>1 DEF Started, Files
<1>3. DOMAIN job = JobNames
  BY DEF IInv, JobOK, JobNames
<1>4. CASE Stage("run")
  <2>1. job'.stage = "run"
    BY <1>3, <1>4 DEF Stage, JobNames
  <2> QED
    BY <1>2, <2>1 DEF OnTheWay, Working
<1>5. CASE job' = NoJob
  BY <1>2, <1>5, ToNoJob
<1>6. CASE /\ cached.params = job.params /\ Replayable(d)
           /\ job' = [job EXCEPT !.stage = "returned", !.res = cached]
  <2>1. job'.stage = "returned" /\ job'.res = cached /\ job'.id = job.id
    BY <1>3, <1>6 DEF JobNames
  <2>2. cached # NoResult
    BY <1>6 DEF Replayable
  <2>3. d.files.made /\ cached.error = "none"
    BY <2>2 DEF Started, Waiting, Files
  <2>4. DirectoryOK(d, runs)
    BY <1>1 DEF IInv, DirsOK
  <2>5. Sound(d.files, cached)
    BY <1>6, <2>3, <2>4, ReplayableIsSound
  <2> QED
    BY <1>1, <1>2, <2>1, <2>5 DEF OnTheWay, Working, Files
<1>7. \/ Stage("run") \/ Uncaught
      \/ /\ cached.params = job.params /\ Replayable(d)
         /\ \/ job' = [job EXCEPT !.stage = "returned", !.res = cached]
            \/ Deliver(cached, ToldStatus(cached))
  BY DEF LoadCached
<1>8. Uncaught \/ Deliver(cached, ToldStatus(cached)) => job' = NoJob
  BY UncaughtJob DEF Deliver
<1> QED
  BY <1>4, <1>5, <1>6, <1>7, <1>8

\* The files of the trial in hand after a write.
LEMMA Written ==
  ASSUME IInv, job.stage # "none", NEW f, WriteTrial(f)
  PROVE  dirs'[job.id].files = f
BY DEF IInv, JobOK, DirsOK, DirectoryOK, WriteTrial

LEMMA OpenOnTheWay ==
  ASSUME IInv, Started, OpenTrial
  PROVE  OnTheWay
<1> DEFINE f == Opened(Files, job.params)
<1>1. dirs'[job.id].files = f
  BY Written DEF OpenTrial, Started
<1>2. /\ job.id \in TrialIds /\ DOMAIN job = JobNames /\ DOMAIN Files = FileNames
  BY InJob DEF Started, IInv, JobOK, JobNames, FilesOK
<1>3. f.made /\ f.params = job.params /\ f.summary = Files.summary
  BY <1>2 DEF Opened, FileNames
<1>4. job'.stage = "open" /\ job'.id = job.id /\ job'.params = job.params
  BY <1>2 DEF OpenTrial, Stage, JobNames
<1> HIDE DEF f
<1>5. Waiting(f, job.params)
  BY <1>3 DEF Started, Waiting
<1> QED
  BY <1>1, <1>3, <1>4, <1>5 DEF OnTheWay, Working, Files

\* A measurement fits the files it was recorded in.
LEMMA RecordedIsSound ==
  ASSUME NEW f, DOMAIN f = FileNames, NEW r, f.made, f.params = r.params, r # NoResult,
         r.error = "none"
  PROVE  /\ Sound(Recorded(f, r), r) /\ Recorded(f, r).made
         /\ Recorded(f, r).summary = f.summary
<1> DEFINE g == Recorded(f, r)
<1>1. /\ g.made = f.made /\ g.params = f.params /\ g.status = r.status
      /\ g.cleanup = r.clean /\ g.raw = [run |-> r.run, evidence |-> r.evidence]
      /\ g.summary = f.summary
  BY DEF Recorded, FileNames
<1> HIDE DEF g
<1>2. r.evidence = "full" => FilesAvailable(g)
  BY <1>1 DEF FilesAvailable
<1>3. Sound(g, r)
  BY <1>1, <1>2 DEF Sound
<1> QED
  BY <1>1, <1>3 DEF g

\* The outcome of a measurement is one of the trial, and no inconsistency.
LEMMA ResultOfIs ==
  ASSUME NEW o, o.status # "none", NEW v, NEW n
  PROVE  /\ ResultOf(o, v, n) # NoResult /\ ResultOf(o, v, n).error = "none"
         /\ ResultOf(o, v, n).params = job.params /\ ResultOf(o, v, n).clean = o.clean
BY DEF ResultOf, NoResult

LEMMA MeasureOnTheWay ==
  ASSUME IInv, Started, Measure \/ Timeout
  PROVE  OnTheWay
<1>1. PICK o, v, s :
        /\ o.status # "none" /\ s \in {"measured", "unsafe", "cancelled"}
        /\ WriteTrial(Recorded(Files, ResultOf(o, v, runs + 1)))
        /\ job' = [job EXCEPT !.res = ResultOf(o, v, runs + 1), !.stage = s]
  <2>1. CASE Measure
    <3>1. PICK o \in Outcomes, v \in Values : MeasureTrial(o, v)
      BY <2>1 DEF Measure
    <3>2. o.status # "none"
      BY <3>1, RunnerAssumption
    <3>3. CASE o.clean = "yes"
      <4>1. job' = [job EXCEPT !.res = ResultOf(o, v, runs + 1), !.stage = "measured"]
        BY <3>1, <3>3 DEF MeasureTrial
      <4>2. WriteTrial(Recorded(Files, ResultOf(o, v, runs + 1)))
        BY <3>1 DEF MeasureTrial
      <4> QED
        BY <3>2, <4>1, <4>2
    <3>4. CASE o.clean # "yes"
      <4>1. job' = [job EXCEPT !.res = ResultOf(o, v, runs + 1), !.stage = "unsafe"]
        BY <3>1, <3>4 DEF MeasureTrial
      <4>2. WriteTrial(Recorded(Files, ResultOf(o, v, runs + 1)))
        BY <3>1 DEF MeasureTrial
      <4> QED
        BY <3>2, <4>1, <4>2
    <3> QED
      BY <3>3, <3>4
  <2>2. CASE Timeout
    <3> DEFINE o == [status |-> "FAILED", evidence |-> "marker", clean |-> "yes"]
    <3>1. /\ WriteTrial(Recorded(Files, ResultOf(o, 0, runs + 1)))
          /\ job' = [job EXCEPT !.res = ResultOf(o, 0, runs + 1), !.stage = "cancelled"]
      BY <2>2 DEF Timeout
    <3>2. o.status # "none"
      OBVIOUS
    <3> HIDE DEF o
    <3> QED
      BY <3>1, <3>2
  <2> QED
    BY <2>1, <2>2
<1> DEFINE r == ResultOf(o, v, runs + 1)
           f == Recorded(Files, r)
<1>2. r # NoResult /\ r.error = "none" /\ r.params = job.params
  BY <1>1, ResultOfIs
<1> HIDE DEF r
<1>3. dirs'[job.id].files = f
  BY <1>1, Written DEF Started, r
<1>4. DOMAIN job = JobNames /\ DOMAIN Files = FileNames /\ job.id \in TrialIds
  BY InJob DEF Started, IInv, JobOK, JobNames, FilesOK
<1>5. job'.id = job.id /\ job'.stage = s /\ job'.res = r
  BY <1>1, <1>4 DEF JobNames, r
<1>6. job.stage = "open"
  BY DEF Measure, MeasureTrial, Timeout
<1>7. Files.made /\ Files.params = r.params
  BY <1>2, <1>6 DEF Started, Working
<1>8. Sound(f, r) /\ f.made /\ f.summary = Files.summary
  BY <1>2, <1>4, <1>7, RecordedIsSound
<1> HIDE DEF f
<1>9. Waiting(f, job.params)
  BY <1>8 DEF Started, Waiting
<1> QED
  BY <1>1, <1>2, <1>3, <1>5, <1>8, <1>9 DEF OnTheWay, Working, Files

\* Its summary is a result of its parameters, without an inconsistency.
LEMMA SummaryWaits ==
  ASSUME NEW f, f.made, f.summary.params = job.params, f.summary.error = "none"
  PROVE  Waiting(f, job.params)
BY DEF Waiting

LEMMA SavedIs ==
  ASSUME NEW f, DOMAIN f = FileNames, NEW r
  PROVE  /\ Saved(f, r).made /\ Saved(f, r).summary = r
         /\ Sound(f, r) => Sound(Saved(f, r), r)
         /\ FilesAvailable(Saved(f, r)) <=> FilesAvailable(f)
<1> DEFINE g == Saved(f, r)
<1>1. /\ g.made /\ g.summary = r /\ g.params = f.params /\ g.status = f.status
      /\ g.cleanup = f.cleanup /\ g.raw = f.raw
  BY DEF Saved, FileNames
<1> HIDE DEF g
<1>2. FilesAvailable(g) <=> FilesAvailable(f)
  BY <1>1 DEF FilesAvailable
<1>3. Sound(f, r) => Sound(g, r)
  BY <1>1, <1>2 DEF Sound
<1> QED
  BY <1>1, <1>2, <1>3 DEF g

\* What is in hand when a result is: the files, and the result of the trial.
LEMMA ResultInHand ==
  ASSUME IInv, ResultIsOfJob, Started, HasResult
  PROVE  /\ DOMAIN job = JobNames /\ DOMAIN Files = FileNames /\ job.id \in TrialIds
         /\ DirectoryOK(dirs[job.id], runs)
         /\ job.res.params = job.params /\ job.res # NoResult /\ job.res.error = "none"
         /\ job.stage \in {"measured", "returned", "sealed", "demoted"} => Sound(Files, job.res)
<1>1. /\ job.id \in TrialIds /\ DOMAIN job = JobNames /\ DOMAIN Files = FileNames
      /\ DirectoryOK(dirs[job.id], runs)
  BY InJob DEF Started, IInv, JobOK, JobNames, FilesOK, DirsOK
<1>2. job.res.params = job.params
  BY DEF ResultIsOfJob
<1>3. job.stage \in {"measured", "returned", "sealed", "demoted"} => Sound(Files, job.res)
  BY DEF Started, Working
<1>4. job.res # NoResult /\ job.res.error = "none"
  <2>1. CASE job.stage \in {"unsafe", "cancelled"}
    BY <2>1 DEF Started, Working
  <2>2. CASE job.stage \notin {"unsafe", "cancelled"}
    BY <1>3, <2>2 DEF HasResult, Sound
  <2> QED
    BY <2>1, <2>2
<1> QED
  BY <1>1, <1>2, <1>3, <1>4

LEMMA SaveOnTheWay ==
  ASSUME IInv, ResultIsOfJob, Started, SaveSummary
  PROVE  OnTheWay
<1> DEFINE f == Saved(Files, job.res)
<1>1. job.stage = "measured" /\ Stage("returned") /\ WriteTrial(f)
  BY DEF SaveSummary
<1>2. /\ DOMAIN job = JobNames /\ DOMAIN Files = FileNames
      /\ job.res.params = job.params /\ job.res.error = "none" /\ Sound(Files, job.res)
  BY <1>1, ResultInHand DEF HasResult
<1>3. f.made /\ f.summary = job.res /\ Sound(f, job.res)
  BY <1>2, SavedIs
<1>4. dirs'[job.id].files = f
  BY <1>1, Written DEF Started
<1> HIDE DEF f
<1>5. job'.stage = "returned" /\ job'.id = job.id /\ job'.res = job.res
  BY <1>1, <1>2 DEF Stage, JobNames
<1>6. Waiting(f, job.params)
  BY <1>2, <1>3, SummaryWaits
<1> QED
  BY <1>3, <1>4, <1>5, <1>6 DEF OnTheWay, Working, Files

LEMMA SealOnTheWay ==
  ASSUME IInv, ResultIsOfJob, Started, FinalizeSeal
  PROVE  OnTheWay
<1> DEFINE f == Ensured(Files, job.res)
<1>1. job.stage = "returned" /\ Stage("sealed") /\ dirs' = [dirs EXCEPT ![job.id] = SealedAs(f)]
  BY DEF FinalizeSeal
<1>2. /\ DOMAIN job = JobNames /\ job.id \in TrialIds
      /\ job.res.params = job.params /\ job.res.error = "none" /\ Sound(Files, job.res)
  BY <1>1, ResultInHand DEF HasResult
<1>3. f.made /\ f.summary = job.res /\ Sound(f, job.res)
  <2>1. Sound(f, job.res) /\ f.summary = job.res
    BY <1>2, EnsuredIsSound
  <2> QED
    BY <2>1 DEF Sound
<1>4. dirs'[job.id].files = f
  BY <1>1, <1>2 DEF IInv, DirsOK, SealedAs
<1> HIDE DEF f
<1>5. job'.stage = "sealed" /\ job'.id = job.id /\ job'.res = job.res
  BY <1>1, <1>2 DEF Stage, JobNames
<1>6. Waiting(f, job.params)
  BY <1>2, <1>3, SummaryWaits
<1> QED
  BY <1>3, <1>4, <1>5, <1>6 DEF OnTheWay, Working, Files

LEMMA AbortOnTheWay ==
  ASSUME IInv, ResultIsOfJob, Started, AbortTrial
  PROVE  OnTheWay
<1> DEFINE f == Ensured(Saved(Files, job.res), job.res)
<1>1. job.stage \in {"unsafe", "cancelled"} /\ dirs' = [dirs EXCEPT ![job.id] = SealedAs(f)]
  BY DEF AbortTrial
<1>2. job' = NoJob
  BY DEF AbortTrial, Stop
<1>3. /\ job.id \in TrialIds
      /\ job.res.params = job.params /\ job.res.error = "none"
  BY <1>1, ResultInHand DEF HasResult
<1>4. f.made /\ f.summary = job.res
  BY DEF Ensured
<1>5. dirs'[job.id].files = f
  BY <1>1, <1>3 DEF IInv, DirsOK, SealedAs
<1> HIDE DEF f
<1>6. Waiting(f, job.params)
  BY <1>3, <1>4, SummaryWaits
<1> QED
  BY <1>2, <1>5, <1>6, ToNoJob

LEMMA JudgeOnTheWay ==
  ASSUME CollectNvml, IInv, ResultIsOfJob, Started, FinalizeJudge
  PROVE  OnTheWay
<1> DEFINE r == job.res
           reason == JudgeReason(r, Files)
           f == [Files EXCEPT !.status = "FAILED"]
           demoted == DemotedResult(r, Files)
<1>1. job.stage = "sealed"
  BY DEF FinalizeJudge
<1>2. /\ DOMAIN job = JobNames /\ job.id \in TrialIds /\ DOMAIN Files = FileNames
      /\ r.params = job.params /\ r.error = "none" /\ Sound(Files, r)
  BY <1>1, ResultInHand DEF HasResult
<1>3. Files.summary = r
  BY <1>1 DEF IInv, SealedOK, Files
<1>4. CASE reason = "none"
  <2>1. job' = NoJob /\ UNCHANGED dirs
    BY <1>4 DEF FinalizeJudge, Deliver
  <2>2. Waiting(dirs'[job.id].files, job.params)
    BY <2>1 DEF Started, Files
  <2> QED
    BY <2>1, <2>2, ToNoJob
<1>5. CASE reason # "none"
  <2>1. WriteTrial(f) /\ job' = [job EXCEPT !.res = demoted, !.stage = "demoted"]
    BY <1>5 DEF FinalizeJudge
  <2>2. dirs'[job.id].files = f
    BY <2>1, Written DEF Started
  <2>3. job'.stage = "demoted" /\ job'.id = job.id /\ job'.res = demoted
    BY <1>2, <2>1 DEF JobNames
  <2>4. reason # "inconsistent"
    BY <1>2, <1>3, JudgedSound
  <2>5. /\ demoted.status = "FAILED" /\ demoted.params = r.params
        /\ demoted.clean = r.clean /\ demoted.run = r.run /\ demoted.error = "none"
    <3>1. DOMAIN r = ResultFields
      BY DEF IInv, JobOK, ResultOK
    <3> QED
      BY <2>4, <3>1 DEF DemotedResult, ResultFields
  <2>6. /\ f.made = Files.made /\ f.params = Files.params /\ f.status = "FAILED"
        /\ f.cleanup = Files.cleanup /\ f.raw = Files.raw /\ f.summary = r
    BY <1>2, <1>3 DEF FileNames
  <2> HIDE DEF f, demoted, reason
  <2>7. Sound(f, demoted)
    <3>1. demoted # NoResult /\ ~Selectable(demoted)
      BY <2>5 DEF NoResult, Selectable
    <3>2. /\ f.made /\ f.params = demoted.params /\ f.status = demoted.status
          /\ demoted.clean # "unknown" => f.cleanup = demoted.clean
          /\ f.raw.evidence # "marker" => f.raw.run = demoted.run
      BY <1>2, <2>5, <2>6 DEF Sound
    <3> QED
      BY <2>5, <3>1, <3>2 DEF Sound
  <2>8. Waiting(f, job.params)
    <3>1. f.made
      BY <2>7 DEF Sound
    <3> QED
      BY <1>2, <2>6, <3>1, SummaryWaits
  <2> QED
    BY <2>2, <2>3, <2>7, <2>8 DEF OnTheWay, Working, Files
<1> QED
  BY <1>4, <1>5

LEMMA ResealOnTheWay ==
  ASSUME IInv, ResultIsOfJob, Started, FinalizeReseal
  PROVE  OnTheWay
<1> DEFINE f == Saved(Files, job.res)
<1>1. job.stage = "demoted" /\ dirs' = [dirs EXCEPT ![job.id] = SealedAs(f)]
  BY DEF FinalizeReseal
<1>2. job' = NoJob
  BY UncaughtJob DEF FinalizeReseal, Deliver
<1>3. /\ job.id \in TrialIds /\ DOMAIN Files = FileNames
      /\ job.res.params = job.params /\ job.res.error = "none"
  BY <1>1, ResultInHand DEF HasResult
<1>4. f.made /\ f.summary = job.res
  BY <1>3, SavedIs
<1>5. dirs'[job.id].files = f
  BY <1>1, <1>3 DEF IInv, DirsOK, SealedAs
<1> HIDE DEF f
<1>6. Waiting(f, job.params)
  BY <1>3, <1>4, SummaryWaits
<1> QED
  BY <1>2, <1>5, <1>6, ToNoJob

LEMMA EvaluationOnTheWay ==
  ASSUME CollectNvml, IInv, ResultIsOfJob, Started, Next, "raised" \notin slips'
  PROVE  OnTheWay
<1>1. Evaluates
  BY EvaluationSteps DEF Started
<1>2. CASE Crash
  <2>1. job' = NoJob /\ UNCHANGED dirs
    BY <1>2 DEF Crash, Stop, disk
  <2> QED
    BY <2>1, ToNoJob DEF Started, Files
<1> QED
  BY <1>1, <1>2, LoadOnTheWay, OpenOnTheWay, MeasureOnTheWay, SaveOnTheWay,
     AbortOnTheWay, SealOnTheWay, JudgeOnTheWay, ResealOnTheWay DEF Evaluates

-----------------------------------------------------------------------------
(* A trial is delivered *)

\* However the evaluation of a trial that is not in the log ends, it tells what
\* a later boot will read in its directory.
TellsSettled ==
  \E r : /\ Deliver(r, ToldStatus(r)) /\ r.params = job.params
         /\ Settled(pc, RowFor(job.id, job.params, r), dirs'[job.id])

LEMMA ToldRow ==
  ASSUME NEW r
  PROVE  Row(r, ToldStatus(r)) = RowFor(job.id, job.params, r)
BY DEF Row, RowFor

LEMMA LoadSettles ==
  ASSUME CollectNvml, IInv, Started, LoadCached, Replayable(dirs[job.id]), UNCHANGED dirs,
         Files.summary.params = job.params, pc # "capacity",
         Deliver(Files.summary, ToldStatus(Files.summary))
  PROVE  TellsSettled
<1> DEFINE d == dirs[job.id]
           r == d.files.summary
<1>1. r # NoResult /\ Replayable(d)
  BY DEF Replayable
<1>2. d.files.made /\ r.error = "none"
  BY <1>1 DEF Started, Waiting, Files
<1>3. DirectoryOK(d, runs)
  BY InJob DEF Started, IInv, DirsOK
<1>4. /\ d = SealedAs(d.files) /\ Sound(d.files, r)
      /\ Selectable(r) => FilesAvailable(d.files)
  BY <1>1, <1>2, <1>3, ReplayableIsSound
<1>5. r.params = job.params /\ Deliver(r, ToldStatus(r)) /\ dirs'[job.id] = d
  BY DEF Files
<1> HIDE DEF d, r
<1>6. d.files.summary = r
  BY DEF r
<1>7. pc = "capacity" /\ r.status = "COMPLETE" => r.evidence = "full"
  OBVIOUS
<1>8. Settled(pc, RowFor(job.id, r.params, r), SealedAs(d.files))
  BY <1>4, <1>6, <1>7, SoundIsSettled
<1> QED
  BY <1>4, <1>5, <1>8 DEF TellsSettled

LEMMA JudgeSettles ==
  ASSUME CollectNvml, IInv, ResultIsOfJob, Started, FinalizeJudge, UNCHANGED dirs,
         JudgeReason(job.res, Files) = "none", Deliver(job.res, ToldStatus(job.res))
  PROVE  TellsSettled
<1> DEFINE d == dirs[job.id]
           r == job.res
<1>1. job.stage = "sealed"
  BY DEF FinalizeJudge
<1>2. r.params = job.params /\ Sound(Files, r) /\ DirectoryOK(d, runs)
  BY <1>1, ResultInHand DEF HasResult
<1>3. Files.summary = r /\ d = SealedAs(Files)
  BY <1>1, <1>2 DEF IInv, SealedOK, Files, DirectoryOK, SealedAs
<1>4. r.status = "COMPLETE" => r.evidence = "full" /\ (Selectable(r) => FilesAvailable(Files))
  BY <1>2, <1>3, JudgedSound
<1>5. Selectable(r) => FilesAvailable(Files)
  BY <1>4 DEF Selectable
<1>6. dirs'[job.id] = d
  OBVIOUS
<1> HIDE DEF d, r
<1>7. pc = "capacity" /\ r.status = "COMPLETE" => r.evidence = "full"
  BY <1>4
<1>8. Settled(pc, RowFor(job.id, r.params, r), SealedAs(Files))
  BY <1>2, <1>3, <1>5, <1>7, SoundIsSettled
<1>9. Deliver(r, ToldStatus(r))
  BY DEF r
<1> QED
  BY <1>2, <1>3, <1>6, <1>8, <1>9 DEF TellsSettled

LEMMA ResealIsSound ==
  ASSUME CollectNvml, IInv, ResultIsOfJob, Started, job.stage = "demoted"
  PROVE  LET f == Saved(Files, job.res) IN
         /\ ValidCached(SealedAs(f)) /\ ToldStatus(job.res) = "FAILED"
         /\ job.res.params = job.params
         /\ \A id : Settled(pc, RowFor(id, job.params, job.res), SealedAs(f))
<1> DEFINE f == Saved(Files, job.res)
           r == job.res
<1>1. /\ r.params = job.params /\ Sound(Files, r) /\ DOMAIN Files = FileNames
  BY ResultInHand DEF HasResult
<1>2. r.status = "FAILED"
  BY DEF IInv, JobOK
<1>3. Sound(f, r) /\ f.summary = r
  BY <1>1, SavedIs
<1>4. ToldStatus(r) = "FAILED" /\ ~Selectable(r) /\ r.status # "COMPLETE"
  BY <1>2 DEF ToldStatus, Selectable
<1> HIDE DEF f, r
<1>5. \A id : Settled(pc, RowFor(id, r.params, r), SealedAs(f))
  BY <1>3, <1>4, SoundIsSettled
<1>6. ValidCached(SealedAs(f))
  BY <1>5 DEF Settled, Replayable
<1> QED
  BY <1>1, <1>4, <1>5, <1>6 DEF f, r

LEMMA DeliveryIsSettled ==
  ASSUME CollectNvml, IInv, ResultIsOfJob, Started, Next, Delivers, "raised" \notin slips'
  PROVE  TellsSettled
<1>1. ~RunRaises /\ ~FinalizerRaises
  BY DEF RunRaises, FinalizerRaises
<1>2. CASE /\ LoadCached /\ Replayable(dirs[job.id]) /\ UNCHANGED dirs
           /\ Files.summary.params = job.params /\ pc # "capacity"
           /\ Deliver(Files.summary, ToldStatus(Files.summary))
  BY <1>2, LoadSettles
<1>3. CASE /\ FinalizeJudge /\ JudgeReason(job.res, Files) = "none" /\ UNCHANGED dirs
           /\ Deliver(job.res, ToldStatus(job.res))
  BY <1>3, JudgeSettles
<1>4. CASE /\ FinalizeReseal
           /\ dirs' = [dirs EXCEPT ![job.id] = SealedAs(Saved(Files, job.res))]
           /\ Deliver(job.res, "FAILED")
  <2>1. job.stage = "demoted"
    BY <1>4 DEF FinalizeReseal
  <2>2. /\ ToldStatus(job.res) = "FAILED" /\ job.res.params = job.params
        /\ Settled(pc, RowFor(job.id, job.params, job.res), SealedAs(Saved(Files, job.res)))
    BY <2>1, ResealIsSound
  <2>3. dirs'[job.id] = SealedAs(Saved(Files, job.res))
    BY <1>4, InJob DEF Started, IInv, DirsOK
  <2> QED
    BY <1>4, <2>2, <2>3 DEF TellsSettled
<1>5. CASE /\ LoadCached \/ FinalizeReseal
           /\ LoadCached => Files.summary # NoResult /\ Files.summary.params # job.params
           /\ FinalizeReseal => ~ValidCached(SealedAs(Saved(Files, job.res)))
  <2>1. CASE LoadCached
    BY <1>5, <2>1 DEF Started, Waiting
  <2>2. CASE FinalizeReseal
    <3>1. job.stage = "demoted"
      BY <2>2 DEF FinalizeReseal
    <3> QED
      BY <1>5, <2>2, <3>1, ResealIsSound
  <2> QED
    BY <1>5, <2>1, <2>2
<1> QED
  BY <1>1, <1>2, <1>3, <1>4, <1>5, Deliveries

-----------------------------------------------------------------------------
(* A trial of the log, told again *)

InReplay(row) ==
  /\ job.stage # "none" /\ Replaying(row) /\ IsFor(row, job)
  /\ Settled(pc, row, dirs[job.id])

ReplayGoesOn(row) ==
  /\ Settled(pc, row, dirs'[job.id])
  /\ \/ told' = told /\ (job'.stage = "none" \/ Replaying(row)')
     \/ /\ UNCHANGED dirs
        /\ \E r : Deliver(r, ToldStatus(r)) /\ RowFor(job.id, job.params, r) = row

LEMMA RowOfResult ==
  ASSUME NEW row, InReplay(row)
  PROVE  RowFor(job.id, job.params, row.result) = row
BY DEF InReplay, IsFor, Settled

LEMMA LoadReplays ==
  ASSUME IInv, NEW row, InReplay(row), LoadCached
  PROVE  ReplayGoesOn(row)
<1> DEFINE d == dirs[job.id]
           r == row.result
<1>1. UNCHANGED dirs /\ job.stage = "ask"
  BY DEF LoadCached, disk
<1>2. /\ Settled(pc, row, d) /\ d.files.summary = r /\ Replayable(d)
      /\ r.params = job.params
  BY DEF InReplay, Settled, IsFor
<1>3. r # NoResult
  BY <1>2 DEF Replayable
<1>4. \/ pc = "capacity" /\ job' = [job EXCEPT !.stage = "returned", !.res = r]
         /\ told' = told /\ pc' = pc
      \/ Deliver(r, ToldStatus(r))
  BY <1>2, <1>3 DEF LoadCached
<1>5. CASE /\ pc = "capacity" /\ job' = [job EXCEPT !.stage = "returned", !.res = r]
           /\ told' = told /\ pc' = pc
  <2>1. DOMAIN job = JobNames
    BY DEF IInv, JobOK, JobNames
  <2>2. job'.stage = "returned" /\ job'.res = r
    BY <1>5, <2>1 DEF JobNames
  <2>3. Replaying(row)'
    BY <1>5, <2>2 DEF Replaying
  <2> QED
    BY <1>1, <1>2, <1>5, <2>3 DEF ReplayGoesOn
<1>6. CASE Deliver(r, ToldStatus(r))
  <2>1. RowFor(job.id, job.params, r) = row
    BY RowOfResult
  <2> QED
    BY <1>1, <1>2, <1>6, <2>1 DEF ReplayGoesOn
<1> QED
  BY <1>4, <1>5, <1>6

LEMMA SealReplays ==
  ASSUME CollectNvml, IInv, NEW row, InReplay(row), FinalizeSeal
  PROVE  ReplayGoesOn(row)
<1> DEFINE d == dirs[job.id]
           e == SealedAs(Ensured(d.files, row.result))
<1>1. job.stage = "returned" /\ Stage("sealed") /\ job.id \in TrialIds
  BY InJob DEF FinalizeSeal, InReplay
<1>2. pc = "capacity" /\ job.res = row.result
  BY <1>1 DEF InReplay, Replaying
<1>3. dirs' = [dirs EXCEPT ![job.id] = e]
  BY <1>2 DEF FinalizeSeal, Files
<1>4. DirectoryOK(d, runs) /\ Settled(pc, row, d)
  BY <1>1 DEF IInv, DirsOK, InReplay
<1>5. Settled(pc, row, e)
  BY <1>4, SettledAgain
<1> HIDE DEF e
<1>6. dirs'[job.id] = e
  BY <1>1, <1>3 DEF IInv, DirsOK
<1>7. DOMAIN job = JobNames
  BY DEF IInv, JobOK, JobNames
<1>8. job'.stage = "sealed" /\ job'.res = job.res /\ pc' = pc /\ told' = told
  BY <1>1, <1>7 DEF Stage, JobNames
<1>9. Replaying(row)'
  BY <1>2, <1>8 DEF Replaying
<1> QED
  BY <1>5, <1>6, <1>8, <1>9 DEF ReplayGoesOn

LEMMA JudgeReplays ==
  ASSUME IInv, NEW row, InReplay(row), FinalizeJudge
  PROVE  ReplayGoesOn(row)
<1> DEFINE d == dirs[job.id]
<1>1. job.stage = "sealed"
  BY DEF FinalizeJudge
<1>2. pc = "capacity" /\ job.res = row.result /\ Settled(pc, row, d)
  BY <1>1 DEF InReplay, Replaying
<1>3. job.res.status = "COMPLETE" => job.res.evidence = "full"
  BY <1>2 DEF Settled
<1>4. StrictError(Files) = "none"
  BY <1>2 DEF Settled, Replayable, ValidCached, Files
<1>5. JudgeReason(job.res, Files) = "none"
  BY <1>3, <1>4 DEF JudgeReason, TelemetrySuffices
<1>6. Deliver(job.res, ToldStatus(job.res)) /\ UNCHANGED dirs
  BY <1>5 DEF FinalizeJudge
<1>7. RowFor(job.id, job.params, job.res) = row
  BY <1>2, RowOfResult
<1> QED
  BY <1>2, <1>6, <1>7 DEF ReplayGoesOn

LEMMA ReplayStep ==
  ASSUME CollectNvml, IInv, Next, "raised" \notin slips', NEW row, InReplay(row)
  PROVE  ReplayGoesOn(row)
<1>1. Evaluates
  BY EvaluationSteps DEF InReplay
<1>2. job.stage \in {"ask", "returned", "sealed"}
  BY DEF InReplay, Replaying
<1>3. ~(OpenTrial \/ Measure \/ Timeout \/ SaveSummary \/ AbortTrial \/ FinalizeReseal)
  BY <1>2 DEF OpenTrial, Measure, MeasureTrial, Timeout, SaveSummary, AbortTrial,
              FinalizeReseal
<1>4. CASE Crash
  <2>1. job' = NoJob /\ UNCHANGED dirs /\ told' = told
    BY <1>4 DEF Crash, Stop, disk
  <2> QED
    BY <2>1, NoJobOK DEF ReplayGoesOn, InReplay
<1> QED
  BY <1>1, <1>3, <1>4, LoadReplays, SealReplays, JudgeReplays DEF Evaluates

-----------------------------------------------------------------------------
(* Writing again what is there changes nothing *)

IsRecord(f) == f = [x \in DOMAIN f |-> f[x]]
FilesAreRecords == \A id \in TrialIds : IsRecord(dirs[id].files)

LEMMA WritersGiveRecords ==
  ASSUME NEW f, NEW r
  PROVE  /\ IsRecord(Opened(f, r)) /\ IsRecord(Recorded(f, r)) /\ IsRecord(Saved(f, r))
         /\ IsRecord(Ensured(f, r))
         /\ IsRecord([f EXCEPT !.made = TRUE]) /\ IsRecord([f EXCEPT !.status = "FAILED"])
<1>1. IsRecord(Opened(f, r))
  BY DEF IsRecord, Opened
<1>2. IsRecord(Recorded(f, r))
  BY DEF IsRecord, Recorded
<1>3. IsRecord(Saved(f, r))
  BY DEF IsRecord, Saved
<1>4. IsRecord(Ensured(f, r))
  BY DEF IsRecord, Ensured
<1>5. IsRecord([f EXCEPT !.made = TRUE]) /\ IsRecord([f EXCEPT !.status = "FAILED"])
  BY DEF IsRecord
<1> QED
  BY <1>1, <1>2, <1>3, <1>4, <1>5

LEMMA RecordWritten ==
  ASSUME IInv, FilesAreRecords, NEW id \in TrialIds, NEW f, IsRecord(f),
         \/ dirs' = [dirs EXCEPT ![id].files = f]
         \/ dirs' = [dirs EXCEPT ![id] = SealedAs(f)]
  PROVE  FilesAreRecords'
<1> SUFFICES ASSUME NEW x \in TrialIds
             PROVE  IsRecord(dirs'[x].files)
  BY DEF FilesAreRecords
<1>1. DOMAIN dirs = TrialIds /\ DOMAIN dirs[id] = {"files", "seal"}
  BY DEF IInv, DirsOK, DirectoryOK
<1>2. CASE x # id
  <2>1. dirs'[x] = dirs[x]
    BY <1>1, <1>2
  <2> QED
    BY <2>1 DEF FilesAreRecords
<1>3. CASE x = id
  <2>1. CASE dirs' = [dirs EXCEPT ![id].files = f]
    BY <1>1, <1>3, <2>1
  <2>2. CASE dirs' = [dirs EXCEPT ![id] = SealedAs(f)]
    BY <1>1, <1>3, <2>2 DEF SealedAs
  <2> QED
    BY <2>1, <2>2
<1> QED
  BY <1>2, <1>3

LEMMA RecordsStep ==
  ASSUME IInv, FilesAreRecords, Next
  PROVE  FilesAreRecords'
<1>1. CASE UNCHANGED dirs
  BY <1>1 DEF FilesAreRecords
<1>2. CASE AskCapacity
  <2>1. PICK id : id = job'.id
    OBVIOUS
  <2>2. id \in TrialIds
    BY <1>2, <2>1, AskCapacityEffect
  <2>3. dirs' = [dirs EXCEPT ![id].files = [dirs[id].files EXCEPT !.made = TRUE]]
    BY <1>2, <2>1 DEF AskCapacity
  <2> QED
    BY <2>2, <2>3, RecordWritten, WritersGiveRecords
<1>3. CASE OpenTrial
  BY <1>3, InJob, RecordWritten, WritersGiveRecords DEF OpenTrial, WriteTrial
<1>4. CASE Measure \/ Timeout
  <2>1. PICK f : IsRecord(f) /\ WriteTrial(f)
    BY <1>4, WritersGiveRecords DEF Measure, MeasureTrial, Timeout
  <2>2. job.id \in TrialIds
    BY <1>4, InJob, MeasureEffect
  <2> QED
    BY <2>1, <2>2, RecordWritten DEF WriteTrial
<1>5. CASE SaveSummary
  BY <1>5, InJob, RecordWritten, WritersGiveRecords DEF SaveSummary, WriteTrial
<1>6. CASE AbortTrial
  BY <1>6, InJob, RecordWritten, WritersGiveRecords DEF AbortTrial
<1>7. CASE RunRaises
  <2>1. PICK f : IsRecord(f) /\ dirs' = [dirs EXCEPT ![job.id].files = f]
    BY <1>7, WritersGiveRecords DEF RunRaises, WriteTrial
  <2>2. job.id \in TrialIds
    BY <1>7, InJob DEF RunRaises
  <2> QED
    BY <2>1, <2>2, RecordWritten
<1>8. CASE FinalizeSeal
  BY <1>8, InJob, RecordWritten, WritersGiveRecords DEF FinalizeSeal
<1>9. CASE FinalizeJudge
  <2>1. CASE UNCHANGED dirs
    BY <1>1, <2>1
  <2>2. CASE WriteTrial([Files EXCEPT !.status = "FAILED"])
    BY <1>9, <2>2, InJob, RecordWritten, WritersGiveRecords DEF FinalizeJudge, WriteTrial
  <2> QED
    BY <1>9, <2>1, <2>2 DEF FinalizeJudge
<1>10. CASE FinalizeReseal
  BY <1>10, InJob, RecordWritten, WritersGiveRecords DEF FinalizeReseal
<1>11. Quiet \/ Failing => UNCHANGED dirs
  BY QuietKeeps, FailingKeeps
<1> QED
  BY <1>1, <1>2, <1>3, <1>4, <1>5, <1>6, <1>7, <1>8, <1>9, <1>10, <1>11, NextSplit
     DEF Writing

\* The sweep finds the directory of a settled trial as it was.
LEMMA MadeAgain ==
  ASSUME IInv, FilesAreRecords, NEW id \in TrialIds, dirs[id].files.made,
         dirs' = [dirs EXCEPT ![id].files.made = TRUE]
  PROVE  dirs' = dirs
<1> DEFINE f == dirs[id].files
<1>1. f = [x \in FileNames |-> f[x]] /\ f.made = TRUE
  BY DEF IInv, DirsOK, DirectoryOK, FilesOK, FilesAreRecords, IsRecord
<1>2. [f EXCEPT !.made = TRUE] = f
  <2> HIDE DEF f
  <2>1. [f EXCEPT !.made = TRUE] = [x \in FileNames |-> IF x = "made" THEN TRUE ELSE f[x]]
    BY <1>1
  <2>2. \A x \in FileNames : (IF x = "made" THEN TRUE ELSE f[x]) = f[x]
    BY <1>1
  <2> QED
    BY <1>1, <2>1, <2>2
<1>3. dirs[id] = [files |-> f, seal |-> dirs[id].seal] /\ dirs = [x \in TrialIds |-> dirs[x]]
  BY DEF IInv, DirsOK, DirectoryOK
<1>4. dirs' = [dirs EXCEPT ![id] = [dirs[id] EXCEPT !.files = [f EXCEPT !.made = TRUE]]]
  OBVIOUS
<1>5. [dirs[id] EXCEPT !.files = f] = dirs[id]
  BY <1>3
<1>6. dirs' = [dirs EXCEPT ![id] = dirs[id]]
  BY <1>2, <1>4, <1>5
<1> QED
  BY <1>3, <1>6

-----------------------------------------------------------------------------
(* A step that tells nothing *)

LEMMA PastMovesOn ==
  ASSUME Next
  PROVE  Boot \/ past' = past
<1>1. CASE Quiet /\ ~Boot
  BY <1>1 DEF Quiet, CreateRoot, SaveManifest, SaveInputs, Reopen, RefuseRoot,
     RefuseIdentity, AskSearch, Exhausted, AskRepeat, EndPhase, LoadCached, Report,
     WriteSummary, WriteViews, RefuseAttestation, SealExperiment, history
<1>2. CASE Writing
  BY <1>2 DEF Writing, AskCapacity, OpenTrial, Measure, MeasureTrial, Timeout, SaveSummary,
     AbortTrial, RunRaises, FinalizeSeal, FinalizeJudge, FinalizeReseal, history
<1>3. CASE Failing
  BY <1>3 DEF Failing, FinalizerRaises, Crash
<1> QED
  BY <1>1, <1>2, <1>3, NextSplit

\* An evaluation that ends without a row ends the process.
LEMMA EndsWithoutRow ==
  ASSUME IInv, Next, "raised" \notin slips', job.stage # "none", job'.stage = "none",
         told' = told
  PROVE  pc' = "off"
<1>1. \A r, status : ~Deliver(r, status)
  <2> SUFFICES ASSUME NEW r, NEW status, Deliver(r, status)
               PROVE  FALSE
    OBVIOUS
  <2>1. Len(told'[pc]) = Len(told[pc]) + 1 /\ pc \in Phases
    BY DeliveredRow
  <2>2. Len(told[pc]) \in Nat
    BY <2>1, LogIsSeq DEF IInv
  <2> QED
    BY <2>1, <2>2
<1>2. \A s : s # "none" => ~Stage(s)
  <2> SUFFICES ASSUME NEW s, s # "none", Stage(s)
               PROVE  FALSE
    OBVIOUS
  <2>1. DOMAIN job = JobNames
    BY DEF IInv, JobOK, JobNames
  <2> QED
    BY <2>1 DEF Stage, JobNames
<1>3. \A s, x : s # "none" => job' # [job EXCEPT !.res = x, !.stage = s]
                              /\ job' # [job EXCEPT !.stage = s, !.res = x]
  <2> SUFFICES ASSUME NEW s, NEW x, s # "none",
                      \/ job' = [job EXCEPT !.res = x, !.stage = s]
                      \/ job' = [job EXCEPT !.stage = s, !.res = x]
               PROVE  FALSE
    OBVIOUS
  <2>1. DOMAIN job = JobNames
    BY DEF IInv, JobOK, JobNames
  <2> QED
    BY <2>1 DEF JobNames
<1>4. Evaluates
  BY EvaluationSteps
<1>5. ~(OpenTrial \/ SaveSummary \/ FinalizeSeal)
  BY <1>2 DEF OpenTrial, SaveSummary, FinalizeSeal
<1>6. ~(Measure \/ Timeout \/ FinalizeJudge)
  BY <1>1, <1>3 DEF Measure, MeasureTrial, Timeout, FinalizeJudge
<1>7. Uncaught => pc' = "off"
  BY <1>1 DEF Uncaught, DeliverException, Stop
<1>8. CASE LoadCached
  BY <1>1, <1>2, <1>3, <1>7, <1>8 DEF LoadCached
<1>9. CASE FinalizeReseal
  BY <1>1, <1>7, <1>9 DEF FinalizeReseal
<1>10. CASE AbortTrial \/ Crash
  BY <1>10 DEF AbortTrial, Crash, Stop
<1> QED
  BY <1>4, <1>5, <1>6, <1>8, <1>9, <1>10 DEF Evaluates

-----------------------------------------------------------------------------
\* The log a boot is in, between two steps of it.
InLog(L, left) ==
  /\ CollectNvml /\ IInv /\ FreshOK /\ LInv /\ FilesAreRecords /\ LogOK(L, left)
  /\ "raised" \notin slips'

\* The row the boot is about to tell again.
LEMMA ReplayInHand ==
  ASSUME NEW L, NEW left, InLog(L, left), job.stage # "none", Replays(L), NEW row,
         row = L[pc][Len(told[pc]) + 1]
  PROVE  InReplay(row) /\ Logged(L, job.id)
<1>1. IInv /\ LogOK(L, left) /\ JobIsNext
  BY DEF InLog, LInv
<1>2. /\ pc \in Phases /\ Len(told[pc]) \in Nat /\ Len(L[pc]) \in Nat
      /\ IsFor(row, job)
  BY <1>1, JobInLog
<1>3. Len(told[pc]) + 1 \in 1..Len(L[pc])
  BY <1>2 DEF Replays
<1>4. Settled(pc, row, dirs[row.id])
  BY <1>1, <1>2, <1>3 DEF LogOK, AllSettled
<1>5. Replaying(row)
  BY <1>1 DEF LogOK, InHandOK
<1> QED
  BY <1>2, <1>3, <1>4, <1>5 DEF InReplay, IsFor, Logged

LEMMA AtFront ==
  ASSUME NEW L, NEW left, InLog(L, left), job.stage # "none", ~Replays(L)
  PROVE  /\ Started /\ ~Logged(L, job.id)
         /\ Front(L, left, pc) /\ IsFor(Due(L, left, pc), job) /\ pc \in Phases
<1>1. IInv /\ LogOK(L, left) /\ JobIsNext /\ LInv
  BY DEF InLog, LInv
<1>2. Front(L, left, pc) /\ IsFor(Due(L, left, pc), job) /\ pc \in Phases
  BY <1>1, JobInLog
<1>3. Working
  BY <1>1 DEF LogOK, InHandOK
<1> QED
  BY <1>1, <1>2, <1>3, FrontIsNew, FrontWaits DEF Started

\* What the sweep is about to ask for.
LEMMA SweepAsks ==
  ASSUME NEW L, NEW left, InLog(L, left), AskCapacity
  PROVE  \/ dirs' = dirs
         \/ /\ Front(L, left, "capacity") /\ IsFor(Due(L, left, "capacity"), job')
            /\ ~Logged(L, job'.id)
            /\ Waiting(dirs'[job'.id].files, job'.params)
<1>1. IInv /\ LogOK(L, left) /\ ToldOK /\ RowsOK /\ FilesAreRecords
  BY DEF InLog, IInv
<1>2. NextJob("capacity") /\ dirs' = [dirs EXCEPT ![job'.id].files.made = TRUE]
  BY DEF AskCapacity
<1>3. /\ pc = "capacity" /\ job = NoJob /\ job'.id \in TrialIds
      /\ job'.id[1] = "capacity"
      /\ FirstJob(Left("capacity")) \in Left("capacity")
      /\ IsFor(FirstJob(Left("capacity")), job')
  BY <1>1, <1>2, NextJobIs DEF IsFor
<1>4. pc \in Phases /\ pc \in Later /\ job.stage = "none"
  BY <1>3, NoJobOK DEF Phases, Later
<1>5. OpenNow = Left("capacity") /\ NextNow = FirstJob(Left("capacity"))
  BY <1>3 DEF OpenNow, NextNow
<1>6. /\ Len(told[pc]) \in Nat /\ Len(L[pc]) \in Nat
      /\ Replays(L) => OpenNow # {} /\ IsFor(L[pc][Len(told[pc]) + 1], NextNow)
      /\ ~Replays(L) => /\ told[pc] = L[pc]
                        /\ Open(L, left, pc) = OpenNow
                        /\ Due(L, left, pc) = NextNow
  BY <1>1, <1>4, NextInLog
<1>7. CASE Replays(L)
  <2> DEFINE row == L[pc][Len(told[pc]) + 1]
  <2>1. Len(told[pc]) + 1 \in 1..Len(L[pc])
    BY <1>6, <1>7 DEF Replays
  <2>2. Settled(pc, row, dirs[row.id])
    BY <1>1, <1>4, <2>1 DEF LogOK, AllSettled
  <2>3. row.id = job'.id
    BY <1>3, <1>5, <1>6, <1>7 DEF IsFor
  <2>4. dirs[job'.id].files.made
    BY <2>2, <2>3 DEF Settled
  <2>5. PICK id : id = job'.id
    OBVIOUS
  <2>6. id \in TrialIds /\ dirs[id].files.made /\ dirs' = [dirs EXCEPT ![id].files.made = TRUE]
    BY <1>2, <1>3, <2>4, <2>5
  <2>7. dirs' = dirs
    BY <1>1, <2>6, MadeAgain
  <2> QED
    BY <2>7
<1>8. CASE ~Replays(L)
  <2>1. \A q \in Before["capacity"] : Open(L, left, q) = {}
    <3>1. \A q \in Before["capacity"] : q \in Phases /\ "capacity" \in After[q]
      BY DEF Before, Phases
    <3>2. Position(L, left)
      BY <1>1 DEF LogOK
    <3> QED
      BY <1>3, <3>1, <3>2, PastIsTold
  <2>2. Front(L, left, "capacity")
    BY <1>3, <1>5, <1>6, <1>8, <2>1 DEF Front
  <2>3. IsFor(Due(L, left, "capacity"), job')
    BY <1>3, <1>5, <1>6, <1>8
  <2>4. ~Logged(L, job'.id)
    <3> SUFFICES ASSUME NEW q \in Phases, NEW i \in 1..Len(L[q]), L[q][i].id = job'.id
                 PROVE  FALSE
      BY DEF Logged
    <3>1. L[q][i].id[1] = q
      BY <1>1, InTheLog
    <3>2. q = pc /\ told[q] = L[q]
      BY <1>3, <1>6, <1>8, <3>1
    <3>3. i \in 1..Len(told[q]) /\ told[q][i].id = FirstJob(Left("capacity")).id
      BY <1>3, <3>2 DEF IsFor
    <3> QED
      BY <1>1, <1>3, <1>4, <3>3, LeftIsNew
  <2>5. Waiting(dirs[job'.id].files, job'.params)
    <3>1. CASE ~Touched(dirs[job'.id].files)
      BY <3>1 DEF Touched, Waiting
    <3>2. CASE Touched(dirs[job'.id].files)
      <4>1. PICK p \in Phases : /\ Front(L, left, p) /\ job'.id = Due(L, left, p).id
                                /\ Waiting(dirs[job'.id].files, Due(L, left, p).params)
        BY <1>1, <1>3, <2>4, <3>2 DEF LogOK, AllKnown
      <4>2. p = "capacity"
        BY <2>2, <4>1, OneFront DEF Phases
      <4> QED
        BY <2>3, <4>1, <4>2 DEF IsFor
    <3> QED
      BY <3>1, <3>2
  <2>6. dirs'[job'.id].files.made /\ dirs'[job'.id].files.summary = dirs[job'.id].files.summary
    <3>1. PICK id : id = job'.id
      OBVIOUS
    <3>2. dirs' = [dirs EXCEPT ![id].files.made = TRUE] /\ id \in TrialIds
      BY <1>2, <1>3, <3>1
    <3>3. DOMAIN dirs = TrialIds /\ DOMAIN dirs[id] = {"files", "seal"}
          /\ DOMAIN dirs[id].files = FileNames
      BY <1>1, <3>2 DEF IInv, DirsOK, DirectoryOK, FilesOK
    <3>4. dirs'[id].files = [dirs[id].files EXCEPT !.made = TRUE]
      BY <3>2, <3>3
    <3>5. dirs'[id].files.made /\ dirs'[id].files.summary = dirs[id].files.summary
      BY <3>3, <3>4 DEF FileNames
    <3> QED
      BY <3>1, <3>5
  <2>7. Waiting(dirs'[job'.id].files, job'.params)
    BY <2>5, <2>6 DEF Waiting
  <2> QED
    BY <2>2, <2>3, <2>4, <2>7
<1> QED
  BY <1>7, <1>8

\* A directory that is not of the log may change.
LEMMA NewDirsMove ==
  ASSUME NEW L, NEW left, InLog(L, left), NEW id \in TrialIds, Elsewhere(id),
         ~Logged(L, id), NEW p \in Phases, Front(L, left, p),
         id = Due(L, left, p).id, Waiting(dirs'[id].files, Due(L, left, p).params)
  PROVE  AllSettled(L)' /\ AllKnown(L, left)'
<1>1. Shape(L) /\ AllSettled(L) /\ AllKnown(L, left)
  BY DEF InLog, LogOK
<1>2. AllSettled(L)'
  <2> SUFFICES ASSUME NEW q \in Phases, NEW i \in 1..Len(L[q])
               PROVE  Settled(q, L[q][i], dirs'[L[q][i].id])
    BY DEF AllSettled
  <2>1. L[q][i].id # id /\ L[q][i].id \in TrialIds
    BY <1>1 DEF Logged, Shape
  <2> QED
    BY <1>1, <2>1 DEF Elsewhere, AllSettled
<1>3. AllKnown(L, left)'
  <2> SUFFICES ASSUME NEW x \in TrialIds, Touched(dirs'[x].files)
               PROVE  \/ Logged(L, x)
                      \/ \E q \in Phases :
                           /\ Front(L, left, q) /\ x = Due(L, left, q).id
                           /\ Waiting(dirs'[x].files, Due(L, left, q).params)
    BY DEF AllKnown
  <2>1. CASE x = id
    BY <2>1
  <2>2. CASE x # id
    <3>1. dirs'[x] = dirs[x]
      BY <2>2 DEF Elsewhere
    <3> QED
      BY <1>1, <3>1 DEF AllKnown
  <2> QED
    BY <2>1, <2>2
<1> QED
  BY <1>2, <1>3

LEMMA LoggedDirsMove ==
  ASSUME NEW L, NEW left, InLog(L, left), NEW id \in TrialIds, Elsewhere(id),
         Logged(L, id),
         \A p \in Phases : \A i \in 1..Len(L[p]) :
           L[p][i].id = id => Settled(p, L[p][i], dirs'[id])
  PROVE  AllSettled(L)' /\ AllKnown(L, left)'
<1>1. Shape(L) /\ AllSettled(L) /\ AllKnown(L, left)
  BY DEF InLog, LogOK
<1>2. AllSettled(L)'
  <2> SUFFICES ASSUME NEW q \in Phases, NEW i \in 1..Len(L[q])
               PROVE  Settled(q, L[q][i], dirs'[L[q][i].id])
    BY DEF AllSettled
  <2>1. L[q][i].id \in TrialIds
    BY <1>1 DEF Shape
  <2>2. CASE L[q][i].id # id
    BY <1>1, <2>1, <2>2 DEF Elsewhere, AllSettled
  <2> QED
    BY <2>2
<1>3. AllKnown(L, left)'
  <2> SUFFICES ASSUME NEW x \in TrialIds, Touched(dirs'[x].files)
               PROVE  \/ Logged(L, x)
                      \/ \E q \in Phases :
                           /\ Front(L, left, q) /\ x = Due(L, left, q).id
                           /\ Waiting(dirs'[x].files, Due(L, left, q).params)
    BY DEF AllKnown
  <2>1. CASE x # id
    <3>1. dirs'[x] = dirs[x]
      BY <2>1 DEF Elsewhere
    <3> QED
      BY <1>1, <3>1 DEF AllKnown
  <2> QED
    BY <2>1
<1> QED
  BY <1>2, <1>3

LEMMA SameDirs ==
  ASSUME NEW L, NEW left, AllSettled(L), AllKnown(L, left), dirs' = dirs
  PROVE  AllSettled(L)' /\ AllKnown(L, left)'
BY DEF AllSettled, AllKnown

-----------------------------------------------------------------------------
LEMMA DirsGoOn ==
  ASSUME NEW L, NEW left, InLog(L, left), Next, told' = told
  PROVE  AllSettled(L)' /\ AllKnown(L, left)'
<1>1. IInv /\ LogOK(L, left) /\ Shape(L) /\ AllSettled(L) /\ AllKnown(L, left)
      /\ ResultIsOfJob /\ CollectNvml /\ "raised" \notin slips'
  BY DEF InLog, LogOK, LInv
<1>2. CASE dirs' = dirs
  BY <1>1, <1>2, SameDirs
<1>3. CASE AskCapacity /\ job'.id \in TrialIds /\ Elsewhere(job'.id) /\ dirs' # dirs
  <2>1. PICK id, params : id = job'.id /\ params = job'.params
    OBVIOUS
  <2>2. /\ Front(L, left, "capacity") /\ id = Due(L, left, "capacity").id
        /\ params = Due(L, left, "capacity").params
        /\ ~Logged(L, id) /\ Waiting(dirs'[id].files, params)
    BY <1>3, <2>1, SweepAsks DEF IsFor
  <2>3. id \in TrialIds /\ Elsewhere(id) /\ "capacity" \in Phases
    BY <1>3, <2>1 DEF Phases
  <2> QED
    BY <2>2, <2>3, NewDirsMove
<1>4. CASE job.stage # "none" /\ job.id \in TrialIds /\ Elsewhere(job.id)
  <2>1. PICK id : id = job.id
    OBVIOUS
  <2>2. CASE Replays(L)
    <3>1. PICK row : row = L[pc][Len(told[pc]) + 1]
      OBVIOUS
    <3>2. InReplay(row) /\ Logged(L, job.id)
      BY <1>4, <2>2, <3>1, ReplayInHand
    <3>3. ASSUME NEW p \in Phases, NEW i \in 1..Len(L[p]), L[p][i].id = id
          PROVE  Settled(p, L[p][i], dirs'[id])
      <4>1. PICK other : other = L[p][i]
        OBVIOUS
      <4>2. p = pc
        BY <1>1, <1>4, <2>1, <3>3 DEF Shape, IInv, JobOK
      <4>3. Settled(pc, other, dirs[job.id]) /\ other.id = job.id
        BY <1>1, <2>1, <3>3, <4>1, <4>2 DEF AllSettled
      <4>4. other.result = row.result
        BY <3>2, <4>3 DEF InReplay, Settled
      <4>5. other.params = job.params
        BY <3>2, <4>3, <4>4 DEF InReplay, Settled, IsFor
      <4>6. Replaying(other)
        BY <3>2, <4>4 DEF InReplay, Replaying
      <4>7. InReplay(other)
        BY <1>4, <4>3, <4>5, <4>6 DEF InReplay, IsFor
      <4>8. ReplayGoesOn(other)
        BY <1>1, <4>7, ReplayStep
      <4> QED
        BY <2>1, <4>1, <4>2, <4>8 DEF ReplayGoesOn
    <3>4. id \in TrialIds /\ Elsewhere(id) /\ Logged(L, id)
      BY <1>4, <2>1, <3>2
    <3> QED
      BY <3>3, <3>4, LoggedDirsMove
  <2>3. CASE ~Replays(L)
    <3>1. /\ Started /\ ~Logged(L, id) /\ pc \in Phases
          /\ Front(L, left, pc) /\ IsFor(Due(L, left, pc), job)
      BY <1>4, <2>1, <2>3, AtFront
    <3>2. OnTheWay
      BY <1>1, <3>1, EvaluationOnTheWay
    <3>3. PICK p \in Phases : p = pc
      BY <3>1
    <3>4. /\ Front(L, left, p) /\ id = Due(L, left, p).id
          /\ Waiting(dirs'[id].files, Due(L, left, p).params)
      BY <2>1, <3>1, <3>2, <3>3 DEF OnTheWay, IsFor
    <3>5. id \in TrialIds /\ Elsewhere(id)
      BY <1>4, <2>1
    <3> QED
      BY <3>1, <3>4, <3>5, NewDirsMove
  <2> QED
    BY <2>2, <2>3
<1> QED
  BY <1>1, <1>2, <1>3, <1>4, DirsMove

\* A phase ends when its log has been told.
LEMMA EndedIsTold ==
  ASSUME NEW L, NEW left, InLog(L, left), EndPhase
  PROVE  told[pc] = L[pc] /\ Open(L, left, pc) = {}
<1>1. IInv /\ LogOK(L, left) /\ ToldOK
  BY DEF InLog, IInv
<1>2. pc \in Phases /\ job.stage = "none"
  BY NoJobOK DEF EndPhase
<1>3. OpenNow = {}
  BY <1>2 DEF EndPhase, OpenNow
<1> QED
  BY <1>1, <1>2, <1>3, NextInLog

LEMMA PastGoesOn ==
  ASSUME NEW L, NEW left, InLog(L, left), Next, told' = told, NEW p \in Phases, Past(p)'
  PROVE  told[p] = L[p] /\ Open(L, left, p) = {}
<1>1. IInv /\ Position(L, left)
  BY DEF InLog, LogOK
<1>2. CASE Past(p)
  BY <1>1, <1>2 DEF Position
<1>3. CASE EndPhase /\ pc = p
  BY <1>3, EndedIsTold
<1> QED
  BY <1>1, <1>2, <1>3, PastMoves

LEMMA RoundGoesOn ==
  ASSUME NEW L, NEW left, InLog(L, left), Next, told' = told, ~Boot, pc' = "search"
  PROVE  round' = IF job'.stage = "none" THEN left[Len(told["search"])]
                  ELSE Round(told["search"], left[Len(told["search"])])
<1>1. IInv /\ Position(L, left) /\ Generated(L, left) /\ FreshOK
  BY DEF InLog, LogOK
<1>2. CASE pc # "search"
  <2>1. (SaveInputs \/ Reopen) /\ pc \in Starting
    BY <1>1, <1>2, PhaseMoves DEF NextPhase, Phases, IInv, Starting
  <2>2. round' = round /\ job' = job /\ told = Nothing /\ round = {}
    BY <1>1, <2>1 DEF SaveInputs, Reopen, FreshOK
  <2>3. job.stage = "none"
    BY <1>1, <2>1 DEF IInv, JobOK, Starting, Phases
  <2>4. Len(told["search"]) = 0
    BY <2>2, NothingIsEmpty DEF Phases
  <2>5. left[0] = {}
    BY <1>1 DEF Generated
  <2>6. job'.stage = "none" /\ round' = {}
    BY <2>2, <2>3
  <2> QED
    BY <2>4, <2>5, <2>6
<1>3. CASE pc = "search"
  <2>1. PICK now : now = left[Len(told["search"])]
    OBVIOUS
  <2>2. round = IF job.stage = "none" THEN now ELSE Round(told["search"], now)
    BY <1>1, <1>3, <2>1 DEF Position
  <2>3. CASE job.stage # "none" /\ job'.stage # "none"
    BY <1>1, <2>2, <2>3, <2>1, InHand
  <2>4. CASE job.stage # "none" /\ job'.stage = "none"
    <3>1. pc' = "off"
      BY <1>1, <2>4, EndsWithoutRow DEF InLog
    <3> QED
      BY <3>1
  <2>5. CASE job.stage = "none" /\ Asks
    <3>1. round' = Round(told["search"], round) /\ job'.stage = "ask"
      BY <1>1, <1>3, <2>5, Asked
    <3> QED
      BY <2>2, <2>5, <2>1, <3>1
  <2>6. CASE job.stage = "none" /\ ~Asks
    <3>1. job'.stage = "none"
      BY <1>1, <2>6, JobMoves DEF IInv
    <3>2. ~Delivers
      BY <2>6 DEF Delivers
    <3>3. round' = round
      BY <2>6, <3>2, ToldCases DEF Asks
    <3> QED
      BY <2>2, <2>6, <2>1, <3>1, <3>3
  <2> QED
    BY <2>3, <2>4, <2>5, <2>6
<1> QED
  BY <1>2, <1>3

LEMMA InHandGoesOn ==
  ASSUME NEW L, NEW left, InLog(L, left), Next, told' = told, ~Boot
  PROVE  InHandOK(L)'
<1>1. IInv /\ ResultIsOfJob /\ CollectNvml /\ "raised" \notin slips'
  BY DEF InLog, LInv
<1>2. CASE job'.stage = "none"
  BY <1>2 DEF InHandOK
<1>3. CASE Asks
  <2>1. job'.stage = "ask"
    BY <1>1, <1>3, Asked
  <2> QED
    BY <2>1 DEF InHandOK, Replaying, Working
<1>4. CASE job'.stage # "none" /\ job.stage # "none"
  <2>1. job'.id = job.id /\ pc' = pc /\ pc \in Phases
    BY <1>1, <1>4, InHand
  <2>2. CASE Replays(L)
    <3>1. PICK row : row = L[pc][Len(told[pc]) + 1]
      OBVIOUS
    <3>2. InReplay(row)
      BY <1>4, <2>2, <3>1, ReplayInHand
    <3>3. ReplayGoesOn(row)
      BY <1>1, <3>2, ReplayStep
    <3>4. \A r, s : Deliver(r, s) => job'.stage = "none"
      BY NoJobOK DEF Deliver
    <3>5. Replaying(row)'
      BY <1>4, <3>3, <3>4 DEF ReplayGoesOn
    <3>6. row = L[pc'][Len(told'[pc']) + 1]
      BY <2>1, <3>1
    <3>7. Replaying(L[pc][Len(told[pc]) + 1])'
      BY <3>5, <3>6 DEF Replaying
    <3>8. Replays(L)'
      BY <2>1, <2>2 DEF Replays
    <3> QED
      BY <3>7, <3>8 DEF InHandOK
  <2>3. CASE ~Replays(L)
    <3>1. Started
      BY <1>4, <2>3, AtFront
    <3>2. Working'
      BY <1>1, <1>4, <3>1, EvaluationOnTheWay DEF OnTheWay
    <3>3. ~Replays(L)'
      BY <2>1, <2>3 DEF Replays
    <3> QED
      BY <3>2, <3>3 DEF InHandOK
  <2> QED
    BY <2>2, <2>3
<1> QED
  BY <1>1, <1>2, <1>3, <1>4, JobMoves DEF IInv

LEMMA NothingMoreTold ==
  ASSUME NEW L, NEW left, InLog(L, left), Next, told' = told, ~Boot
  PROVE  LogOK(L, left)'
<1>1. LogOK(L, left) /\ past' = past
  BY PastMovesOn DEF InLog
<1>2. Shape(L) /\ Generated(L, left) /\ Ordered(L, left)
      /\ TellsPart(L, told) /\ TellsPart(L, past)
  BY <1>1 DEF LogOK
<1>3. Shape(L)' /\ Generated(L, left)' /\ Ordered(L, left)'
  BY <1>2 DEF Shape, Generated, Ordered
<1>4. TellsPart(L, told)' /\ TellsPart(L, past)'
  BY <1>1, <1>2 DEF TellsPart
<1>5. AllSettled(L)' /\ AllKnown(L, left)'
  BY DirsGoOn
<1>6. Position(L, left)'
  <2>1. ASSUME NEW p \in Phases, Past(p)'
        PROVE  told'[p] = L[p] /\ Open(L, left, p) = {}
    BY <2>1, PastGoesOn
  <2> QED
    BY <2>1, RoundGoesOn DEF Position
<1>7. InHandOK(L)'
  BY InHandGoesOn
<1> QED
  BY <1>3, <1>4, <1>5, <1>6, <1>7 DEF LogOK

-----------------------------------------------------------------------------
(* A step that tells a trial *)

\* What a delivery leaves behind.
LEMMA DeliveryIs ==
  ASSUME IInv, Next, job.stage # "none", NEW r, Deliver(r, ToldStatus(r))
  PROVE  /\ pc \in Phases /\ pc' = pc /\ verdict' = verdict /\ past' = past
         /\ job'.stage = "none"
         /\ round' = IF pc = "search" THEN round \ {job.id[2]} ELSE round
         /\ told'[pc] = Append(told[pc], RowFor(job.id, job.params, r))
         /\ \A p \in Phases : p # pc => told'[p] = told[p]
         /\ IsSeq(told[pc]) /\ Len(told[pc]) \in Nat
         /\ Len(told'[pc]) = Len(told[pc]) + 1
<1>1. /\ pc \in Phases /\ told'[pc] = Append(told[pc], Row(r, ToldStatus(r)))
      /\ \A p \in Phases : p # pc => told'[p] = told[p]
      /\ Len(told'[pc]) = Len(told[pc]) + 1
  BY DeliveredRow
<1>2. IsSeq(told[pc]) /\ Len(told[pc]) \in Nat
  BY <1>1, LogIsSeq DEF IInv, ToldOK
<1>3. pc' = pc /\ verdict' = verdict /\ job'.stage = "none"
      /\ round' = IF pc = "search" THEN round \ {job.id[2]} ELSE round
  BY NoJobOK DEF Deliver
<1>4. past' = past
  <2>1. ~Boot
    BY <1>1 DEF Boot, Phases
  <2> QED
    BY <2>1, PastMovesOn
<1> QED
  BY <1>1, <1>2, <1>3, <1>4, ToldRow

\* Whoever is past a phase does not tell its trials any more.
LEMMA PastStands ==
  ASSUME pc \in Phases, pc' = pc, verdict' = verdict, NEW p \in Phases, Past(p)'
  PROVE  Past(p) /\ p # pc /\ (p = "search" => pc \in Later)
<1>1. pc \in After[p]
  BY DEF Past, Done, Phases
<1> QED
  BY <1>1, AfterIs DEF Past, Phases, Later, After, Ending

LEMMA ToldAgain ==
  ASSUME NEW L, NEW left, InLog(L, left), Next, Delivers, Replays(L)
  PROVE  LogOK(L, left)'
<1>1. /\ IInv /\ LogOK(L, left) /\ Shape(L) /\ Generated(L, left) /\ Ordered(L, left)
      /\ TellsPart(L, told) /\ TellsPart(L, past) /\ Position(L, left)
      /\ AllSettled(L) /\ AllKnown(L, left)
      /\ CollectNvml /\ "raised" \notin slips' /\ JobIsNext /\ ToldOK
  BY DEF InLog, LogOK, LInv, IInv
<1>2. job.stage # "none"
  BY DEF Delivers
<1>3. PICK row : row = L[pc][Len(told[pc]) + 1]
  OBVIOUS
<1>4. InReplay(row)
  BY <1>2, <1>3, ReplayInHand
<1>5. ReplayGoesOn(row)
  BY <1>1, <1>4, ReplayStep
<1>6. told' # told
  <2>1. PICK r, status : Deliver(r, status)
    BY DEF Delivers
  <2>2. /\ pc \in Phases /\ Len(told'[pc]) = Len(told[pc]) + 1 /\ Len(told[pc]) \in Nat
    BY <1>1, <1>2, <2>1, DeliveredRow, LogIsSeq
  <2> QED
    BY <2>2
<1>7. PICK r : /\ UNCHANGED dirs /\ Deliver(r, ToldStatus(r))
               /\ RowFor(job.id, job.params, r) = row
  BY <1>5, <1>6 DEF ReplayGoesOn
<1>8. /\ pc \in Phases /\ pc' = pc /\ verdict' = verdict /\ past' = past
      /\ job'.stage = "none"
      /\ round' = IF pc = "search" THEN round \ {job.id[2]} ELSE round
      /\ told'[pc] = Append(told[pc], row)
      /\ \A p \in Phases : p # pc => told'[p] = told[p]
      /\ Len(told[pc]) \in Nat /\ Len(told'[pc]) = Len(told[pc]) + 1
  BY <1>1, <1>2, <1>7, DeliveryIs
<1>9. PICK n, s : n = Len(told[pc]) /\ s = L[pc]
  OBVIOUS
<1>10. /\ IsSeq(s) /\ n \in Nat /\ Len(s) \in Nat /\ n < Len(s) /\ n \in 0..Len(s)
       /\ told[pc] = Cut(s, n) /\ row = s[n + 1]
  BY <1>1, <1>3, <1>8, <1>9, InTheLog DEF Replays
<1>11. told'[pc] = Cut(s, n + 1) /\ Len(told'[pc]) = n + 1 /\ n + 1 <= Len(s)
  <2>1. Append(Cut(s, n), s[n + 1]) = Cut(s, n + 1)
    BY <1>10, AppendToCut
  <2>2. told'[pc] = Append(Cut(s, n), s[n + 1])
    BY <1>8, <1>10
  <2>3. Len(told'[pc]) = n + 1
    BY <1>8, <1>9
  <2>4. n + 1 <= Len(s)
    BY <1>10
  <2> QED
    BY <2>1, <2>2, <2>3, <2>4
<1>12. TellsPart(L, told)'
  <2> SUFFICES ASSUME NEW p \in Phases
               PROVE  Len(told'[p]) \in 0..Len(L[p]) /\ told'[p] = Cut(L[p], Len(told'[p]))
    BY DEF TellsPart
  <2>1. CASE p = pc
    <3>1. n + 1 \in 0..Len(s)
      BY <1>10
    <3>2. L[p] = s /\ told'[p] = Cut(s, n + 1) /\ Len(told'[p]) = n + 1
      BY <1>9, <1>11, <2>1
    <3> QED
      BY <3>1, <3>2
  <2>2. CASE p # pc
    BY <1>1, <1>8, <2>2 DEF TellsPart
  <2> QED
    BY <2>1, <2>2
<1>13. Position(L, left)'
  <2>1. ASSUME NEW p \in Phases, Past(p)'
        PROVE  told'[p] = L[p] /\ Open(L, left, p) = {}
    <3>1. Past(p) /\ p # pc
      BY <1>8, <2>1, PastStands
    <3> QED
      BY <1>1, <1>8, <2>1, <3>1 DEF Position
  <2>2. ASSUME pc' = "search"
        PROVE  round' = left[Len(told'["search"])]
    <3>1. pc = "search" /\ s = L["search"] /\ n = Len(told["search"])
      BY <1>8, <1>9, <2>2
    <3>2. round = Round(told["search"], left[n])
      BY <1>1, <1>2, <3>1 DEF Position
    <3>3. n + 1 \in 1..Len(L["search"]) /\ (n + 1) - 1 = n
      BY <1>10, <3>1
    <3>4. left[n + 1] = Round(Cut(L["search"], (n + 1) - 1), left[(n + 1) - 1])
                          \ {L["search"][n + 1].id[2]}
      BY <1>1, <3>3 DEF Generated
    <3>5. left[n + 1] = round \ {row.id[2]}
      BY <1>10, <3>1, <3>2, <3>3, <3>4
    <3>6. row.id = job.id
      BY <1>4 DEF InReplay, IsFor
    <3>7. Len(told'["search"]) = n + 1
      BY <1>11, <3>1
    <3> QED
      BY <1>8, <3>1, <3>5, <3>6, <3>7
  <2> QED
    BY <1>8, <2>1, <2>2 DEF Position
<1>14. Shape(L)' /\ Generated(L, left)' /\ Ordered(L, left)'
  BY <1>1 DEF Shape, Generated, Ordered
<1>15. AllSettled(L)' /\ AllKnown(L, left)'
  BY <1>1, <1>7, SameDirs
<1>16. TellsPart(L, past)'
  BY <1>1, <1>8 DEF TellsPart
<1>17. InHandOK(L)'
  BY <1>8 DEF InHandOK
<1> QED
  BY <1>12, <1>13, <1>14, <1>15, <1>16, <1>17 DEF LogOK

LEMMA BootedAgain ==
  ASSUME NEW L, NEW left, InLog(L, left), Boot
  PROVE  LogOK(L, left)'
<1>1. /\ IInv /\ Shape(L) /\ Generated(L, left) /\ Ordered(L, left)
      /\ TellsPart(L, told) /\ AllSettled(L) /\ AllKnown(L, left)
  BY DEF InLog, LogOK
<1>2. /\ pc' = "init" /\ past' = told /\ told' = Nothing /\ job' = job
      /\ dirs' = dirs /\ pc = "off"
  BY DEF Boot, disk
<1>3. job'.stage = "none"
  BY <1>1, <1>2 DEF IInv, JobOK, Phases
<1>4. TellsPart(L, told)'
  <2> SUFFICES ASSUME NEW p \in Phases
               PROVE  Len(Nothing[p]) \in 0..Len(L[p]) /\ Nothing[p] = Cut(L[p], Len(Nothing[p]))
    BY <1>2 DEF TellsPart
  <2>1. Nothing[p] = <<>> /\ Len(Nothing[p]) = 0 /\ Len(L[p]) \in Nat
    BY <1>1, NothingIsEmpty, AppendIs DEF Shape
  <2>2. Cut(L[p], 0) = <<>>
    BY DEF Cut
  <2> QED
    BY <2>1, <2>2
<1>5. TellsPart(L, past)'
  BY <1>1, <1>2 DEF TellsPart
<1>6. Position(L, left)'
  <2>1. \A p \in Phases : ~Past(p)'
    BY <1>2 DEF Past, Done, After, Phases, Ending
  <2> QED
    BY <1>2, <2>1 DEF Position
<1>7. Shape(L)' /\ Generated(L, left)' /\ Ordered(L, left)'
  BY <1>1 DEF Shape, Generated, Ordered
<1>8. AllSettled(L)' /\ AllKnown(L, left)'
  BY <1>1, <1>2, SameDirs
<1>9. InHandOK(L)'
  BY <1>3 DEF InHandOK
<1> QED
  BY <1>4, <1>5, <1>6, <1>7, <1>8, <1>9 DEF LogOK

\* The row of a new trial is settled, and the log with it is one the boot has told.
GrownLog(L, row) == Grown(L, pc, row)
GrownLeft(L, left, row) == IF pc = "search" THEN LeftAfter(L, left, row) ELSE left

LEMMA LogGrows ==
  ASSUME NEW L, NEW left, Shape(L), Generated(L, left), Ordered(L, left), NEW row,
         pc \in Phases, Front(L, left, pc), IsFor(row, Due(L, left, pc)),
         row.id \in TrialIds, row.id[1] = pc
  PROVE  LET M == GrownLog(L, row)
             now == GrownLeft(L, left, row)
         IN  /\ Shape(M) /\ Generated(M, now) /\ Ordered(M, now)
             /\ M[pc] = Append(L[pc], row) /\ \A q \in Phases : q # pc => M[q] = L[q]
             /\ pc = "search" =>
                  now[Len(L["search"]) + 1] = Open(L, left, "search") \ {row.id[2]}
             /\ pc \in Later => \A q \in Phases : q # pc => Open(M, now, q) = Open(L, left, q)
<1> DEFINE M == GrownLog(L, row)
           now == GrownLeft(L, left, row)
<1>1. Shape(M)
  BY ShapeGrows DEF GrownLog
<1>2. M[pc] = Append(L[pc], row) /\ \A q \in Phases : q # pc => M[q] = L[q]
  BY GrownIs DEF GrownLog
<1>3. Open(L, left, pc) # {}
  BY DEF Front
<1>4. CASE pc = "search"
  <2>1. M = Grown(L, "search", row) /\ now = LeftAfter(L, left, row)
    BY <1>4 DEF GrownLog, GrownLeft
  <2>2. Open(L, left, "search") # {} /\ IsFor(row, Due(L, left, "search"))
    BY <1>3, <1>4
  <2>3. /\ Generated(M, now) /\ Ordered(M, now)
        /\ now[Len(L["search"]) + 1] = Open(L, left, "search") \ {row.id[2]}
    BY <2>1, <2>2, SearchGrows
  <2>4. pc \notin Later
    BY <1>4 DEF Later
  <2> HIDE DEF M, now
  <2> QED
    BY <1>1, <1>2, <2>3, <2>4 DEF M, now
<1>5. CASE pc # "search"
  <2>1. M = Grown(L, pc, row) /\ now = left
    BY <1>5 DEF GrownLog, GrownLeft
  <2>2. pc \in Later
    BY <1>5 DEF Phases, Later
  <2>3. /\ Generated(M, now) /\ Ordered(M, now)
        /\ \A q \in Phases : q # pc => Open(M, now, q) = Open(L, left, q)
    BY <2>1, <2>2, LaterGrows
  <2> HIDE DEF M, now
  <2> QED
    BY <1>1, <1>2, <1>5, <2>3 DEF M, now
<1> QED
  BY <1>4, <1>5

LEMMA ToldNew ==
  ASSUME NEW L, NEW left, InLog(L, left), Next, Delivers, ~Replays(L)
  PROVE  \E M, now : LogOK(M, now)'
<1>1. /\ IInv /\ LogOK(L, left) /\ Shape(L) /\ Generated(L, left) /\ Ordered(L, left)
      /\ TellsPart(L, told) /\ TellsPart(L, past) /\ Position(L, left)
      /\ AllSettled(L) /\ AllKnown(L, left) /\ ResultIsOfJob
      /\ CollectNvml /\ "raised" \notin slips' /\ JobIsNext /\ ToldOK
  BY DEF InLog, LogOK, LInv, IInv
<1>2. job.stage # "none" /\ job.id \in TrialIds /\ job.id[1] = pc
  BY <1>1 DEF Delivers, IInv, JobOK
<1>3. /\ Started /\ ~Logged(L, job.id)
      /\ Front(L, left, pc) /\ IsFor(Due(L, left, pc), job) /\ pc \in Phases
  BY <1>2, AtFront
<1>4. told[pc] = L[pc] /\ (pc = "search" => round = Open(L, left, "search"))
  BY <1>1, <1>2, JobInLog
<1>5. PICK r : /\ Deliver(r, ToldStatus(r)) /\ r.params = job.params
               /\ Settled(pc, RowFor(job.id, job.params, r), dirs'[job.id])
  BY <1>1, <1>3, DeliveryIsSettled DEF TellsSettled
<1>6. PICK row : row = RowFor(job.id, job.params, r)
  OBVIOUS
<1>7. row.id = job.id /\ row.params = job.params
  BY <1>6 DEF RowFor
<1>8. /\ pc' = pc /\ verdict' = verdict /\ past' = past
      /\ job'.stage = "none"
      /\ round' = IF pc = "search" THEN round \ {job.id[2]} ELSE round
      /\ told'[pc] = Append(told[pc], row)
      /\ \A p \in Phases : p # pc => told'[p] = told[p]
      /\ Len(told[pc]) \in Nat /\ Len(told'[pc]) = Len(told[pc]) + 1
  BY <1>1, <1>2, <1>5, <1>6, DeliveryIs
<1>9. IsFor(row, Due(L, left, pc)) /\ row.id \in TrialIds /\ row.id[1] = pc
  BY <1>2, <1>3, <1>7 DEF IsFor
<1>10. PICK M, now : M = GrownLog(L, row) /\ now = GrownLeft(L, left, row)
  OBVIOUS
<1>11. /\ Shape(M) /\ Generated(M, now) /\ Ordered(M, now)
       /\ M[pc] = Append(L[pc], row) /\ \A q \in Phases : q # pc => M[q] = L[q]
       /\ pc = "search" =>
            now[Len(L["search"]) + 1] = Open(L, left, "search") \ {row.id[2]}
       /\ pc \in Later => \A q \in Phases : q # pc => Open(M, now, q) = Open(L, left, q)
  BY <1>1, <1>3, <1>9, <1>10, LogGrows
<1>12. /\ IsSeq(L[pc]) /\ Len(L[pc]) \in Nat /\ Len(M[pc]) = Len(L[pc]) + 1
       /\ M[pc][Len(L[pc]) + 1] = row /\ \A i \in 1..Len(L[pc]) : M[pc][i] = L[pc][i]
       /\ IsSeq(M[pc])
  BY <1>1, <1>3, <1>11, AppendIs DEF Shape
<1>13. Elsewhere(job.id)
  <2>1. ~AskCapacity
    BY <1>2, NoJobOK DEF AskCapacity, NextJob
  <2>2. UNCHANGED dirs \/ Elsewhere(job.id)
    BY <1>1, <2>1, DirsMove
  <2> QED
    BY <2>2 DEF Elsewhere
\* Its directory is settled, the others have not changed.
<1>14. AllSettled(M)'
  <2> SUFFICES ASSUME NEW q \in Phases, NEW i \in 1..Len(M[q])
               PROVE  Settled(q, M[q][i], dirs'[M[q][i].id])
    BY DEF AllSettled
  <2>1. ASSUME i \in 1..Len(L[q]), M[q][i] = L[q][i]
        PROVE  Settled(q, M[q][i], dirs'[M[q][i].id])
    <3>1. L[q][i].id # job.id /\ L[q][i].id \in TrialIds
      BY <1>1, <1>3, <2>1 DEF Logged, Shape
    <3> QED
      BY <1>1, <1>13, <2>1, <3>1 DEF Elsewhere, AllSettled
  <2>2. CASE q # pc
    BY <1>11, <2>1, <2>2
  <2>3. CASE q = pc /\ i = Len(L[pc]) + 1
    BY <1>5, <1>6, <1>7, <1>12, <2>3
  <2>4. CASE q = pc /\ i # Len(L[pc]) + 1
    <3>1. i \in 1..Len(L[pc])
      BY <1>12, <2>4
    <3> QED
      BY <1>12, <2>1, <2>4, <3>1
  <2> QED
    BY <2>2, <2>3, <2>4
<1>15. ASSUME NEW x, Logged(L, x) PROVE Logged(M, x)
  <2>1. PICK q \in Phases : \E i \in 1..Len(L[q]) : L[q][i].id = x
    BY <1>15 DEF Logged
  <2>2. PICK i \in 1..Len(L[q]) : L[q][i].id = x
    BY <2>1
  <2>3. i \in 1..Len(M[q]) /\ M[q][i] = L[q][i]
    BY <1>11, <1>12, <2>2
  <2> QED
    BY <2>2, <2>3 DEF Logged
<1>16. Logged(M, job.id)
  <2>1. Len(L[pc]) + 1 \in 1..Len(M[pc])
    BY <1>12
  <2> QED
    BY <1>3, <1>7, <1>12, <2>1 DEF Logged
<1>17. AllKnown(M, now)'
  <2> SUFFICES ASSUME NEW x \in TrialIds, Touched(dirs'[x].files)
               PROVE  Logged(M, x)
    BY DEF AllKnown
  <2>1. CASE x = job.id
    BY <1>16, <2>1
  <2>2. CASE x # job.id
    <3>1. dirs'[x] = dirs[x]
      BY <1>13, <2>2 DEF Elsewhere
    <3>2. \A p \in Phases : Front(L, left, p) => x # Due(L, left, p).id
      BY <1>3, <2>2, OneFront DEF IsFor
    <3>3. Logged(L, x)
      BY <1>1, <3>1, <3>2 DEF AllKnown
    <3> QED
      BY <1>15, <3>3
  <2> QED
    BY <2>1, <2>2
<1>18. TellsPart(M, told)'
  <2> SUFFICES ASSUME NEW p \in Phases
               PROVE  Len(told'[p]) \in 0..Len(M[p]) /\ told'[p] = Cut(M[p], Len(told'[p]))
    BY DEF TellsPart
  <2>1. CASE p = pc
    <3>1. told'[pc] = M[pc] /\ Len(M[pc]) \in Nat
      BY <1>4, <1>8, <1>11, <1>12
    <3>2. PICK t : t = M[pc]
      OBVIOUS
    <3>3. IsSeq(t) /\ Len(t) \in 0..Len(t)
      BY <1>12, <3>1, <3>2
    <3>4. Cut(t, Len(t)) = t
      BY <3>3, CutIs
    <3> QED
      BY <2>1, <3>1, <3>2, <3>3, <3>4
  <2>2. CASE p # pc
    BY <1>1, <1>8, <1>11, <2>2 DEF TellsPart
  <2> QED
    BY <2>1, <2>2
<1>19. TellsPart(M, past)'
  <2> SUFFICES ASSUME NEW p \in Phases
               PROVE  Len(past[p]) \in 0..Len(M[p]) /\ past[p] = Cut(M[p], Len(past[p]))
    BY <1>8 DEF TellsPart
  <2>1. Len(past[p]) \in 0..Len(L[p]) /\ past[p] = Cut(L[p], Len(past[p]))
    BY <1>1 DEF TellsPart
  <2>2. CASE p = pc
    <3>1. Cut(M[pc], Len(past[pc])) = Cut(L[pc], Len(past[pc]))
      <4>1. PICK k : k = Len(past[pc])
        OBVIOUS
      <4>2. k \in 0..Len(L[pc]) 
        BY <2>1, <2>2, <4>1
      <4>3. \A i \in 1..k : M[pc][i] = L[pc][i]
        BY <1>12, <4>2
      <4>4. Cut(M[pc], k) = Cut(L[pc], k)
        BY <4>3 DEF Cut
      <4> QED
        BY <4>1, <4>4
    <3> QED
      BY <1>12, <2>1, <2>2, <3>1
  <2>3. CASE p # pc
    BY <1>11, <2>1, <2>3
  <2> QED
    BY <2>2, <2>3
<1>20. Position(M, now)'
  <2>1. ASSUME NEW p \in Phases, Past(p)'
        PROVE  told'[p] = M[p] /\ Open(M, now, p) = {}
    <3>1. Past(p) /\ p # pc /\ (p = "search" => pc \in Later)
      BY <1>3, <1>8, <2>1, PastStands
    <3>2. told[p] = L[p] /\ Open(L, left, p) = {}
      BY <1>1, <3>1 DEF Position
    <3>3. pc \in Later
      BY <1>3, <3>1 DEF Past, After, Phases, Later, Done, Ending
    <3> QED
      BY <1>8, <1>11, <3>1, <3>2, <3>3
  <2>2. ASSUME pc' = "search"
        PROVE  round' = now[Len(told'["search"])]
    <3>1. pc = "search"
      BY <1>8, <2>2
    <3>2. Len(told'["search"]) = Len(L["search"]) + 1
      BY <1>4, <1>8, <3>1
    <3>3. round' = Open(L, left, "search") \ {row.id[2]}
      BY <1>4, <1>7, <1>8, <3>1
    <3> QED
      BY <1>11, <3>1, <3>2, <3>3
  <2> QED
    BY <1>8, <2>1, <2>2 DEF Position
<1>21. Shape(M)' /\ Generated(M, now)' /\ Ordered(M, now)'
  BY <1>11 DEF Shape, Generated, Ordered
<1>22. InHandOK(M)'
  BY <1>8 DEF InHandOK
<1>23. LogOK(M, now)'
  BY <1>14, <1>17, <1>18, <1>19, <1>20, <1>21, <1>22 DEF LogOK
<1> QED
  BY <1>23

-----------------------------------------------------------------------------
(* There is one log *)

LEMMA LogStep ==
  ASSUME IInv, FreshOK, LInv, FilesAreRecords, OneLog, Next
  PROVE  OneLog'
<1> SUFFICES ASSUME CollectNvml, "raised" \notin slips'
             PROVE  \E M, now : LogOK(M, now)'
  BY DEF OneLog
<1>1. "raised" \notin slips
  BY SlipsGrow
<1>2. PICK L, left : LogOK(L, left)
  BY <1>1 DEF OneLog
<1>3. InLog(L, left)
  BY <1>2 DEF InLog
<1>4. CASE Boot
  BY <1>3, <1>4, BootedAgain
<1>5. CASE Delivers
  <2>1. CASE Replays(L)
    BY <1>3, <1>5, <2>1, ToldAgain
  <2>2. CASE ~Replays(L)
    BY <1>3, <1>5, <2>2, ToldNew
  <2> QED
    BY <2>1, <2>2
<1>6. CASE ~Boot /\ ~Delivers
  <2>1. told' = told
    BY <1>6, ToldCases
  <2> QED
    BY <1>3, <1>6, <2>1, NothingMoreTold
<1> QED
  BY <1>4, <1>5, <1>6

LEMMA NoLogYet ==
  ASSUME Init
  PROVE  OneLog /\ FilesAreRecords
<1>1. \A p \in Phases : Nothing[p] = <<>> /\ Len(Nothing[p]) = 0 /\ IsSeq(Nothing[p])
  BY NothingIsEmpty, EmptyLog
<1>2. \A id \in TrialIds : dirs[id].files = EmptyFiles
  BY DEF Init, EmptyDirectory
<1>3. IsRecord(EmptyFiles) /\ ~Touched(EmptyFiles)
  BY DEF IsRecord, EmptyFiles, Touched
<1>4. FilesAreRecords
  BY <1>2, <1>3 DEF FilesAreRecords
<1> DEFINE left == [k \in {0} |-> {}]
<1>5. left[0] = {}
  OBVIOUS
<1> HIDE DEF left
<1>6. Shape(Nothing) /\ AllSettled(Nothing)
  BY <1>1 DEF Shape, AllSettled
<1>7. Generated(Nothing, left) /\ Ordered(Nothing, left)
  <2>1. "search" \in Phases /\ Later \subseteq Phases
    BY DEF Phases, Later
  <2> QED
    BY <1>1, <1>5, <2>1 DEF Generated, Ordered
<1>8. AllKnown(Nothing, left)
  BY <1>2, <1>3 DEF AllKnown
<1>9. TellsPart(Nothing, Nothing)
  <2>1. \A p \in Phases : Cut(Nothing[p], 0) = <<>>
    BY DEF Cut
  <2> QED
    BY <1>1, <2>1 DEF TellsPart
<1>10. told = Nothing /\ past = Nothing /\ pc = "off" /\ verdict = "none" /\ job.stage = "none"
  BY NoJobOK DEF Init
<1>11. Position(Nothing, left) /\ InHandOK(Nothing)
  BY <1>10 DEF Position, InHandOK, Past, Done, After, Phases, Ending
<1>12. LogOK(Nothing, left)
  BY <1>6, <1>7, <1>8, <1>9, <1>10, <1>11 DEF LogOK
<1> QED
  BY <1>4, <1>12 DEF OneLog

LEMMA LogStutter ==
  ASSUME OneLog, FilesAreRecords, UNCHANGED vars
  PROVE  OneLog' /\ FilesAreRecords'
<1>1. UNCHANGED <<pc, verdict, told, past, round, job, dirs, slips>>
  BY DEF vars, process, disk, history
<1>2. FilesAreRecords'
  BY <1>1 DEF FilesAreRecords
<1> SUFFICES ASSUME CollectNvml, "raised" \notin slips
             PROVE  \E L, left : LogOK(L, left)'
  BY <1>1, <1>2 DEF OneLog
<1>3. PICK L, left : LogOK(L, left)
  BY DEF OneLog
<1>4. Shape(L)' /\ Generated(L, left)' /\ Ordered(L, left)'
  BY <1>3 DEF LogOK, Shape, Generated, Ordered
<1>5. AllSettled(L)' /\ AllKnown(L, left)'
  BY <1>1, <1>3, SameDirs DEF LogOK
<1>6. TellsPart(L, told)' /\ TellsPart(L, past)'
  BY <1>1, <1>3 DEF LogOK, TellsPart
<1>7. Position(L, left)'
  BY <1>1, <1>3 DEF LogOK, Position, Past, Done
<1>8. InHandOK(L)'
  BY <1>1, <1>3 DEF LogOK, InHandOK, Replays, Replaying, Working, Files
<1> QED
  BY <1>4, <1>5, <1>6, <1>7, <1>8 DEF LogOK

LEMMA OneLogInvariant == Spec => [](OneLog /\ FilesAreRecords)
<1>1. Init => OneLog /\ FilesAreRecords
  BY NoLogYet
<1>2. IInv /\ BInv /\ LInv /\ OneLog /\ FilesAreRecords /\ [Next]_vars
        => (OneLog /\ FilesAreRecords)'
  BY LogStep, RecordsStep, LogStutter DEF BInv
<1> QED
  BY <1>1, <1>2, Invariant, BudgetInvariant, LogInvariant, PTL DEF Spec

\* A resume is deterministic (run_trial's files, the seal, _load_cached_trial):
\* as long as no write raised, two boots tell the same trials with the same
\* results in the same order, as far as both got, wherever the first was cut off
\* and whatever its trials were.  Without NVML the validator counts samples that
\* no row holds, and a measured trial is run again.
THEOREM ResumesAreFaithful ==
  ASSUME CollectNvml
  PROVE  Spec => []ReplayIsFaithful
<1>1. OneLog => ReplayIsFaithful
  <2> SUFFICES ASSUME OneLog, "raised" \notin slips, NEW p \in Phases
               PROVE  SamePrefix(told[p], past[p])
    BY DEF ReplayIsFaithful
  <2>1. PICK L, left : LogOK(L, left)
    BY DEF OneLog
  <2>2. PICK n, k : n = Len(told[p]) /\ k = Len(past[p])
    OBVIOUS
  <2>3. told[p] = Cut(L[p], n) /\ past[p] = Cut(L[p], k)
    BY <2>1, <2>2 DEF LogOK, TellsPart
  <2> QED
    BY <2>3 DEF SamePrefix, Cut
<1> QED
  BY <1>1, OneLogInvariant, PTL

-----------------------------------------------------------------------------
(* Everything on the disk was told *)

\* Whoever is past the phases has told every trial there is, as it is there.
LEMMA EverythingTold ==
  ASSUME CollectNvml, OneLog, "raised" \notin slips, \A p \in Phases : Past(p)
  PROVE  /\ \A id \in Existing : \E p \in Phases : \E i \in 1..Len(told[p]) :
              told[p][i].id = id /\ Settled(p, told[p][i], dirs[id])
         /\ \A p \in Phases : \A i \in 1..Len(told[p]) :
              told[p][i].id \in Existing
<1>1. PICK L, left : LogOK(L, left)
  BY DEF OneLog
<1>2. \A p \in Phases : told[p] = L[p] /\ Open(L, left, p) = {}
  BY <1>1 DEF LogOK, Position
<1>3. ASSUME NEW id \in Existing
      PROVE  \E p \in Phases : \E i \in 1..Len(told[p]) :
               told[p][i].id = id /\ Settled(p, told[p][i], dirs[id])
  <2>1. id \in TrialIds /\ Touched(dirs[id].files)
    BY DEF Existing, Touched
  <2>2. \A p \in Phases : ~Front(L, left, p)
    BY <1>2 DEF Front
  <2>3. Logged(L, id)
    BY <1>1, <2>1, <2>2 DEF LogOK, AllKnown
  <2>4. PICK p \in Phases : \E i \in 1..Len(L[p]) : L[p][i].id = id
    BY <2>3 DEF Logged
  <2>5. PICK i \in 1..Len(L[p]) : L[p][i].id = id
    BY <2>4
  <2>6. Settled(p, L[p][i], dirs[id])
    BY <1>1, <2>5 DEF LogOK, AllSettled
  <2> QED
    BY <1>2, <2>5, <2>6
<1>4. ASSUME NEW p \in Phases, NEW i \in 1..Len(told[p])
      PROVE  told[p][i].id \in Existing
  <2>1. told[p] = L[p]
    BY <1>2
  <2>2. L[p][i].id \in TrialIds /\ Settled(p, L[p][i], dirs[L[p][i].id])
    BY <1>1, <2>1 DEF LogOK, Shape, AllSettled
  <2> QED
    BY <2>1, <2>2 DEF Settled, Existing
<1> QED
  BY <1>3, <1>4

LEMMA RowsAre ==
  ASSUME ToldOK
  PROVE  \A row : row \in Rows <=> \E p \in Phases : \E i \in 1..Len(told[p]) : row = told[p][i]
<1>1. \A row : row \in Rows <=> \E p \in Phases : row \in RowsOf(told[p])
  BY DEF Rows
<1> SUFFICES ASSUME NEW row
             PROVE  row \in Rows <=> \E p \in Phases : \E i \in 1..Len(told[p]) : row = told[p][i]
  OBVIOUS
<1>2. ASSUME NEW p \in Phases
      PROVE  row \in RowsOf(told[p]) <=> \E i \in 1..Len(told[p]) : row = told[p][i]
  BY LogIsSeq
<1> QED
  BY <1>1, <1>2

\* An attested root tells one story: its seal fits, its tables, its summary and
\* its warnings are those of the boot that wrote them, and a trial counts as
\* measured in them exactly when its sealed directory says so, with the same
\* result, whatever earlier boots left behind.
THEOREM StoryIsAttested ==
  ASSUME CollectNvml
  PROVE  Spec => []AttestedTellsOneStory
<1>1. IInv /\ LInv /\ RInv /\ OneLog => AttestedTellsOneStory
  <2> SUFFICES ASSUME IInv, LInv, RInv, OneLog, Done
               PROVE  AttestedTellsOneStory
    BY DEF AttestedTellsOneStory, Done
  <2>1. \A p \in Phases : Past(p)
    BY DEF Past
  <2>2. RootIntact /\ root.files.summary.told = told /\ root.files.manifest.warnings = notes
    BY DEF RInv, Reported
  <2>3. \A p \in Phases : root.files.tables[p] = told[p]
    BY <2>1 DEF RInv, PhasesDone
  <2>4. ASSUME NEW row \in Rows, row.status = "COMPLETE"
        PROVE  dirs[row.id].files.summary = row.result /\ ValidCached(dirs[row.id])
    <3>1. PICK p \in Phases : \E i \in 1..Len(told[p]) : row = told[p][i]
      BY RowsAre DEF IInv
    <3>2. Measured(row, dirs[row.id])
      BY <2>4, <3>1 DEF LInv, RowsMeasured
    <3> QED
      BY <3>2 DEF Measured
  <2>5. ASSUME "raised" \notin slips, NEW id \in Existing,
               Selectable(dirs[id].files.summary)
        PROVE  \E row \in Rows : row.id = id /\ row.status = "COMPLETE"
    <3>1. PICK p \in Phases : \E i \in 1..Len(told[p]) :
            told[p][i].id = id /\ Settled(p, told[p][i], dirs[id])
      BY <2>1, <2>5, EverythingTold
    <3>2. PICK i \in 1..Len(told[p]) :
            told[p][i].id = id /\ Settled(p, told[p][i], dirs[id])
      BY <3>1
    <3>3. told[p][i].status = ToldStatus(told[p][i].result)
      BY <3>2 DEF Settled, RowFor
    <3>4. told[p][i].status = "COMPLETE"
      BY <2>5, <3>2, <3>3 DEF Settled, ToldStatus
    <3>5. told[p][i] \in Rows
      BY RowsAre DEF IInv
    <3> QED
      BY <3>2, <3>4, <3>5
  <2>6. TellsOneStory(Rows)
    BY <2>4, <2>5 DEF TellsOneStory
  <2> QED
    BY <2>2, <2>3, <2>6 DEF AttestedTellsOneStory
<1> QED
  BY <1>1, Invariant, LogInvariant, RootInvariant, OneLogInvariant, PTL

-----------------------------------------------------------------------------
(* What an attestation asks for *)

PcOK == pc \in {"off"} \cup Starting \cup Phases \cup Ending

\* A root with a manifest has its inputs, unless the crash between the two is
\* recorded.
InputsOK ==
  "uninitialised" \notin slips =>
    /\ pc \in Phases \cup Ending => root.files.inputs
    /\ pc \in {"off", "init"} /\ root.files.manifest.saved => root.files.inputs

SummaryOK ==
  pc = "attest" => root.files.summary.saved /\ root.files.summary.warnings = notes

AInv == PcOK /\ InputsOK /\ SummaryOK /\ AttestationBlockers

LEMMA InputsMove ==
  ASSUME RootOK, Next
  PROVE  /\ root.files.inputs => root'.files.inputs
         /\ SaveInputs => root'.files.inputs
         /\ root'.files.manifest.saved => root.files.manifest.saved \/ SaveManifest
<1>1. CASE ~WritesRoot
  BY <1>1, RootKept DEF WritesRoot
<1>2. CASE CreateRoot
  BY <1>2 DEF CreateRoot, Write, RootOK, RootFiles, SaveInputs
<1>3. CASE SaveManifest
  BY <1>3 DEF SaveManifest, Write, RootOK, RootFiles, SaveInputs
<1>4. CASE SaveInputs
  BY <1>4 DEF SaveInputs, Write, RootOK, RootFiles
<1>5. CASE EndPhase
  BY <1>5 DEF EndPhase, Write, RootOK, RootFiles, SaveInputs, Phases
<1>6. CASE Report
  <2>1. root' = [root EXCEPT !.files =
                  [root.files EXCEPT !.report = Best, !.manifest.warnings = notes]]
    BY <1>6 DEF Report, Write
  <2>2. pc # "inputs"
    BY <1>6 DEF Report
  <2> HIDE DEF Best
  <2> QED
    BY <2>1, <2>2 DEF RootOK, RootFiles, SaveInputs
<1>7. CASE WriteSummary
  <2>1. PICK s : root' = [root EXCEPT !.files = [root.files EXCEPT !.summary = s]]
    BY <1>7 DEF WriteSummary, Write
  <2>2. pc # "inputs"
    BY <1>7 DEF WriteSummary
  <2> QED
    BY <2>1, <2>2 DEF RootOK, RootFiles, SaveInputs
<1>8. CASE WriteViews
  <2>1. PICK s : root' = [root EXCEPT !.files = [root.files EXCEPT !.views = s]]
    BY <1>8 DEF WriteViews, Write
  <2>2. pc # "inputs"
    BY <1>8 DEF WriteViews
  <2> QED
    BY <2>1, <2>2 DEF RootOK, RootFiles, SaveInputs
<1>9. CASE SealExperiment
  BY <1>9 DEF SealExperiment, RootOK, RootFiles, SaveInputs
<1>10. CASE AbortTrial
  <2>1. root' = root \/ root' = [root EXCEPT !.files = [root.files EXCEPT !.failure = TRUE]]
    BY <1>10 DEF AbortTrial, Write
  <2>2. ~SaveInputs
    BY <1>10 DEF AbortTrial, SaveInputs, Stop
  <2> QED
    BY <2>1, <2>2 DEF RootOK, RootFiles
<1> QED
  BY <1>1, <1>2, <1>3, <1>4, <1>5, <1>6, <1>7, <1>8, <1>9, <1>10 DEF WritesRoot

\* Between the manifest and the inputs a boot only ends by a crash.
LEMMA InitialisationEnds ==
  ASSUME JobOK, Next, pc \in {"manifest", "inputs"}, pc' = "off"
  PROVE  Crash
<1>1. job.stage = "none"
  BY DEF JobOK, Phases
<1> QED
  BY <1>1 DEF Next, Step, Boot, CreateRoot, SaveManifest, SaveInputs, Reopen, RefuseRoot,
     RefuseIdentity, AskSearch, Exhausted, AskRepeat, AskCapacity, NextJob, EndPhase,
     LoadCached, OpenTrial, Measure, MeasureTrial, Timeout, SaveSummary, AbortTrial,
     RunRaises, FinalizeSeal, FinalizeJudge, FinalizeReseal, FinalizerRaises,
     Report, WriteSummary, WriteViews, RefuseAttestation, SealExperiment, Phases

LEMMA PcStep ==
  ASSUME IInv, PcOK, Next
  PROVE  PcOK'
BY PhaseMoves DEF IInv, PcOK, Starting, Phases, Ending, NextPhase

LEMMA InputsStep ==
  ASSUME IInv, RootOK, PcOK, InputsOK, Next
  PROVE  InputsOK'
<1> SUFFICES ASSUME "uninitialised" \notin slips'
             PROVE  /\ pc' \in Phases \cup Ending => root'.files.inputs
                    /\ pc' \in {"off", "init"} /\ root'.files.manifest.saved
                         => root'.files.inputs
  BY DEF InputsOK
<1>1. "uninitialised" \notin slips
  BY SlipsGrow
<1>2. pc \in Phases \cup Ending => root.files.inputs
  BY <1>1 DEF InputsOK
<1>3. pc \in {"off", "init"} /\ root.files.manifest.saved => root.files.inputs
  BY <1>1 DEF InputsOK
<1>4. pc' \in Phases \cup Ending => root'.files.inputs
  <2>1. ASSUME Reopen PROVE root.files.inputs
    BY <1>3, <2>1 DEF Reopen
  <2>2. pc' \in Phases \cup Ending => SaveInputs \/ root.files.inputs
    BY <1>2, <2>1, PhaseMoves DEF IInv, Phases, Ending, NextPhase
  <2> QED
    BY <2>2, InputsMove
<1>5. ASSUME pc' \in {"off", "init"}, root'.files.manifest.saved
      PROVE  root'.files.inputs
  <2>1. CASE pc \in Phases \cup Ending
    BY <1>2, <2>1, InputsMove
  <2>2. CASE pc \in {"off", "init"}
    <3>1. ~SaveManifest
      BY <2>2 DEF SaveManifest
    <3> QED
      BY <1>3, <1>5, <2>2, <3>1, InputsMove
  <2>3. CASE pc \in {"manifest", "inputs"}
    <3>1. pc' = "off"
      BY <1>5, <2>3, PhaseMoves DEF IInv, Phases
    <3>2. Crash
      BY <2>3, <3>1, InitialisationEnds DEF IInv
    <3> QED
      BY <2>3, <3>2 DEF Crash
  <2> QED
    BY <2>1, <2>2, <2>3 DEF PcOK, Starting
<1> QED
  BY <1>4, <1>5

LEMMA SummaryStep ==
  ASSUME IInv, RootOK, SummaryOK, Next
  PROVE  SummaryOK'
<1> SUFFICES ASSUME pc' = "attest"
             PROVE  root'.files.summary.saved /\ root'.files.summary.warnings = notes'
  BY DEF SummaryOK
<1>1. WriteSummary \/ pc = "attest"
  BY PhaseMoves DEF IInv, Phases, NextPhase
<1>2. CASE WriteSummary
  <2>1. notes' = notes
    BY <1>2 DEF WriteSummary
  <2> QED
    BY <1>2, <2>1, RootWrites DEF WritesRoot
<1>3. CASE pc = "attest"
  BY <1>3, EndMoves DEF IInv, Ending, Report, WriteSummary, WriteViews,
     RefuseAttestation, SealExperiment, Crash, Stop
<1> QED
  BY <1>1, <1>2, <1>3

LEMMA VerdictMoves ==
  ASSUME Next, verdict' = "unattested"
  PROVE  verdict = "unattested" \/ RefuseAttestation
BY DEF Next, Step, Boot, CreateRoot, SaveManifest, SaveInputs, Reopen, RefuseRoot,
     RefuseIdentity, AskSearch, Exhausted, AskRepeat, AskCapacity, NextJob, EndPhase,
     LoadCached, OpenTrial, Measure, MeasureTrial, Timeout, SaveSummary, AbortTrial,
     RunRaises, FinalizeSeal, FinalizeJudge, FinalizeReseal, FinalizerRaises,
     Report, WriteSummary, WriteViews, SealExperiment, Crash,
     Stop, Stage, Deliver, DeliverException, Uncaught, history

\* Nothing that is on the disk keeps the attestation from succeeding.
LEMMA AttestationSucceeds ==
  ASSUME CollectNvml, IInv, RInv, OneLog, InputsOK, SummaryOK, pc = "attest",
         "raised" \notin slips, "uninitialised" \notin slips
  PROVE  Attestable
<1>1. \A p \in Phases : Past(p)
  BY DEF Past, After, Phases, Ending
<1>2. Preflight
  BY DEF Preflight, InputsOK, SummaryOK, Ending
<1>3. RootAgrees
  BY DEF RootAgrees, SummaryOK, RInv, Reported
<1>4. TrialsValidate
  <2> SUFFICES ASSUME NEW id \in Existing
               PROVE  dirs[id].files.summary # NoResult /\ ValidCached(dirs[id])
    BY DEF TrialsValidate
  <2>1. \E p \in Phases : \E i \in 1..Len(told[p]) : Settled(p, told[p][i], dirs[id])
    BY <1>1, EverythingTold
  <2> QED
    BY <2>1 DEF Settled, Replayable
<1>5. CapacityAgrees
  <2>1. DOMAIN told["capacity"] = 1..Len(told["capacity"])
    BY LogIsSeq DEF IInv, Phases
  <2>2. ASSUME NEW id \in Existing, id[1] = "capacity"
        PROVE  \E i \in 1..Len(told["capacity"]) : told["capacity"][i].id = id
    <3>1. PICK p \in Phases : \E i \in 1..Len(told[p]) : told[p][i].id = id
      BY <1>1, <2>2, EverythingTold
    <3>2. p = "capacity"
      BY <2>2, <3>1 DEF IInv, RowsOK, RowOK
    <3> QED
      BY <3>1, <3>2
  <2>3. ASSUME NEW i \in 1..Len(told["capacity"])
        PROVE  told["capacity"][i].id \in Existing /\ told["capacity"][i].id[1] = "capacity"
    <3>1. "capacity" \in Phases
      BY DEF Phases
    <3>2. told["capacity"][i].id \in Existing
      BY <1>1, <3>1, EverythingTold
    <3> QED
      BY <3>1, <3>2 DEF IInv, RowsOK, RowOK
  <2> QED
    BY <2>1, <2>2, <2>3 DEF CapacityAgrees
<1> QED
  BY <1>2, <1>3, <1>4, <1>5 DEF Attestable

LEMMA BlockersStep ==
  ASSUME CollectNvml, IInv, RInv, OneLog, AInv, Next
  PROVE  AttestationBlockers'
<1> SUFFICES ASSUME verdict' = "unattested"
             PROVE  slips' \cap {"raised", "uninitialised"} # {}
  BY DEF AttestationBlockers
<1>1. slips \subseteq slips'
  BY SlipsGrow
<1>2. slips \cap {"raised", "uninitialised"} # {}
  <2>1. CASE verdict = "unattested"
    BY <2>1 DEF AInv, AttestationBlockers
  <2>2. CASE RefuseAttestation
    BY <2>2, AttestationSucceeds DEF RefuseAttestation, AInv
  <2> QED
    BY <2>1, <2>2, VerdictMoves
<1> QED
  BY <1>1, <1>2

\* Only two accidents make an experiment unattestable: a write that raised, which
\* leaves a directory that no boot comes back to, and a crash before the inputs
\* were saved.  Neither a crash later on, nor a timeout, nor an unsafe cleanup,
\* nor any outcome of a trial does (_preflight_experiment_inputs, the validation
\* of every directory under trials/, _capacity_rate_semantics).
THEOREM OnlySlipsBlock ==
  ASSUME CollectNvml
  PROVE  Spec => []AttestationBlockers
<1>1. Init => AInv
  BY DEF Init, AInv, PcOK, InputsOK, SummaryOK, AttestationBlockers, Phases, Ending,
     EmptyRoot, NoManifest
<1>2. IInv /\ RInv /\ OneLog /\ AInv /\ [Next]_vars => AInv'
  <2>1. ASSUME IInv, RInv, OneLog, AInv, Next
        PROVE  AInv'
    BY <2>1, PcStep, InputsStep, SummaryStep, BlockersStep DEF AInv, RInv
  <2>2. ASSUME AInv, UNCHANGED vars
        PROVE  AInv'
    <3>1. UNCHANGED <<pc, verdict, root, notes, slips>>
      BY <2>2 DEF vars, process, disk, history
    <3> QED
      BY <2>2, <3>1 DEF AInv, PcOK, InputsOK, SummaryOK, AttestationBlockers
  <2> QED
    BY <2>1, <2>2
<1>3. AInv => AttestationBlockers
  BY DEF AInv
<1> QED
  BY <1>1, <1>2, <1>3, Invariant, RootInvariant, OneLogInvariant, PTL DEF Spec

=============================================================================
