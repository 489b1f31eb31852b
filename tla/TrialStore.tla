----------------------------- MODULE TrialStore -----------------------------
(***************************************************************************)
(* One trial directory of experiment/artifacts.py: the files the controller*)
(* writes, the markers and the checksums ensure_trial_artifacts adds, and  *)
(* what the validators accept.                                             *)
(*                                                                         *)
(* A checksum is modelled as a copy: the seal is the value of the files    *)
(* when artifact-integrity.json was written, so a seal fits exactly the    *)
(* directory it was computed from.  The raw files are one value, tagged    *)
(* with the run that measured them and with what they hold:                *)
(*   absent   the files are not there                                      *)
(*   marker   rows that say "available": false                             *)
(*   dark     requests were measured, and no scrape of the engine succeeded*)
(*   gaps     requests and some telemetry, with coverage or fields missing *)
(*   full     everything a selectable trial needs                          *)
(***************************************************************************)
EXTENDS Naturals, Sequences

CONSTANT CollectNvml   \* telemetry.collect_nvml of the configuration

ASSUME CollectNvmlAssumption == CollectNvml \in BOOLEAN

NoParams == <<>>
NoRaw == [run |-> 0, evidence |-> "absent"]

\* What the controller returns and summary.json holds.  clean is
\* cleanup_status: "yes", "no", or "unknown" when there is none.
NoResult == [status |-> "none", params |-> NoParams, run |-> 0, value |-> 0,
             evidence |-> "absent", clean |-> "unknown", reason |-> "none",
             error |-> "none"]

EmptyFiles ==
  [made |-> FALSE, params |-> NoParams, status |-> "absent",
   cleanup |-> "absent", raw |-> NoRaw, summary |-> NoResult, missing |-> FALSE]

EmptyDirectory == [files |-> EmptyFiles, seal |-> EmptyFiles]

Selectable(r) == r.status = "COMPLETE" /\ r.clean = "yes"

-----------------------------------------------------------------------------
(* The validators *)

\* validate_trial_integrity: the checksums fit every file, and none is new.
Intact(d) == d.seal # EmptyFiles /\ d.seal = d.files

\* With telemetry.collect_nvml off the result counts no GPU sample, and
\* nvml.jsonl holds the one row that says so.
CountsDisagree(r) == ~CollectNvml /\ r.evidence \in {"dark", "gaps", "full"}

\* The message of the first check of _validate_cached_trial_strict to fail.
StrictError(f) ==
  IF f.params # f.summary.params THEN "params"
  ELSE IF f.status # f.summary.status THEN "status"
  ELSE IF f.summary.clean # "unknown" /\ f.cleanup # f.summary.clean THEN "cleanup"
  ELSE IF f.raw.evidence # "marker" /\ f.raw.run # f.summary.run THEN "client"
  ELSE IF f.raw.evidence = "marker" /\ Selectable(f.summary) THEN "raw"
  ELSE IF CountsDisagree(f.summary) THEN "counts"
  ELSE "none"

\* validate_cached_trial: a recorded inconsistency must reproduce exactly.
ValidCached(d) ==
  /\ Intact(d)
  /\ StrictError(d.files) = d.files.summary.error

\* validate_trial_artifacts with require_available: a selectable trial needs
\* a measured row in every file; whether the rows suffice is not asked.
FilesAvailable(f) == f.raw.evidence \in {"gaps", "full"}

Replayable_Measured(d) ==
  d.files.summary # NoResult /\ ValidCached(d) /\ FilesAvailable(d.files)

\* The conditions under which _load_cached_trial replays a summary.
Replayable(d) ==
  /\ d.files.summary # NoResult
  /\ ValidCached(d)
  /\ Selectable(d.files.summary) => FilesAvailable(d.files)

JudgeReason_FilesOnly(r, f) ==
  IF r.status = "COMPLETE" /\ r.evidence = "dark" THEN "unavailable" ELSE "none"

\* _telemetry_evidence_errors finds nothing: enough scrapes, enough of them
\* successful, every gauge, counter delta and GPU field there.
TelemetrySuffices(r) == r.evidence = "full"

\* Why _finalize_trial_artifacts turns a COMPLETE result into FAILED.  The
\* branch for an unverified cleanup is dead: the server calls a cleanup clean
\* only when the group, the port and the GPU all are.
JudgeReason(r, f) ==
  IF r.status # "COMPLETE" THEN "none"
  ELSE IF ~TelemetrySuffices(r) THEN "unavailable"
  ELSE IF StrictError(f) # "none" THEN "inconsistent"
  ELSE "none"

-----------------------------------------------------------------------------
(* The writers *)

\* run_trial begins: trial_dir, params.json, the first status.json.
Opened(f, p) == [f EXCEPT !.made = TRUE, !.params = p, !.status = "open"]

\* The terminal transition, then cleanup.json and the raw files.
Recorded(f, r) ==
  [f EXCEPT !.status = r.status, !.cleanup = r.clean,
            !.raw = [run |-> r.run, evidence |-> r.evidence]]

Saved(f, r) == [f EXCEPT !.made = TRUE, !.summary = r]

Incomplete(f) ==
  \/ f.params = NoParams \/ "absent" \in {f.status, f.cleanup}
  \/ f.raw.evidence = "absent"

\* ensure_trial_artifacts: a marker for each file that is not there, the
\* summary and artifact-status.json.
Ensured(f, r) ==
  [made |-> TRUE,
   params |-> IF f.params = NoParams THEN r.params ELSE f.params,
   status |-> IF f.status = "absent" THEN r.status ELSE f.status,
   cleanup |-> IF f.cleanup = "absent" THEN r.clean ELSE f.cleanup,
   raw |-> IF f.raw.evidence = "absent" THEN [run |-> 0, evidence |-> "marker"]
           ELSE f.raw,
   summary |-> r,
   missing |-> Incomplete(f)]

SealedAs(f) == [files |-> f, seal |-> f]

\* The FAILED result of the finalizer; an inconsistency keeps its message.
DemotedResult(r, f) ==
  LET reason == JudgeReason(r, f) IN
  [r EXCEPT !.status = "FAILED", !.reason = reason,
            !.error = IF reason = "inconsistent" THEN StrictError(f) ELSE "none"]

=============================================================================
