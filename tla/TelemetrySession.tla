-------------------------- MODULE TelemetrySession --------------------------
(***************************************************************************)
(* TelemetrySession of profiling/session.py: one start, any number of stop *)
(* calls, the sampling task between them, and the JSONL file the frames    *)
(* are written to.                                                         *)
(*                                                                         *)
(* Each stop call runs _stop_impl in a task of its own under asyncio.shield*)
(* and, if its caller is cancelled, waits for that task; a second          *)
(* cancellation of the caller then reaches the task.  Every await ends: the*)
(* requests for /metrics and the closing of the HTTP client have timeouts. *)
(* What a frame holds is left out; what matters is its kind, its order and *)
(* whether it is in the file.                                              *)
(***************************************************************************)
EXTENDS Naturals, Sequences

CONSTANTS
  Stoppers,     \* the calls of stop: try body, finally block, __aexit__
  DiskFaults,   \* whether opening and writing the JSONL file may raise
  MaxCancels,   \* bound: cancellations of the callers, all together
  MaxPeriodic   \* bound: frames the sampling loop collects

ASSUME ConstantsAssumption ==
  /\ "start" \notin Stoppers /\ "none" \notin Stoppers
  /\ DiskFaults \in BOOLEAN
  /\ MaxCancels \in Nat /\ MaxPeriodic \in Nat

VARIABLES
  state,    \* _state
  lock,     \* who holds _lifecycle_lock: a stop call, "start" or "none"
  start,    \* where the call of start is
  sampler,  \* where the task cross-layer-telemetry is
  call,     \* call[c]: where the caller of stop is
  cleanup,  \* cleanup[c]: where the _stop_impl task of that call is
  frames,   \* the kinds of the frames collected
  file,     \* those of them that telemetry.jsonl holds
  writer,   \* "closed", "open", "lost" (set to None) or "torn" (close raised)
  open,     \* which of the NVML handle and the HTTP client are open
  errors,   \* what the list of errors mentions
  result,   \* {} or the singleton of the frames the result was built from
  cancels   \* how many cancellations there were

control == <<lock, start, sampler, call, cleanup>>
data == <<frames, file, writer, open, errors, result>>
vars == <<state, control, data, cancels>>

Idle == "idle"
Sources == {"nvml", "prometheus"}
Holding == {"joining", "sampling", "closing"}   \* inside the lock
Ended == {"returned", "raised", "cancelled"}
Kinds == {"baseline", "periodic", "final"}

TypeOK ==
  /\ state \in {"created", "running", "stopping", "stopped"}
  /\ lock \in Stoppers \cup {"start", "none"}
  /\ start \in {Idle, "baseline", "rollback", "returned", "raised"}
  /\ sampler \in {"none", "waiting", "collecting", "cancelled", "ended"}
  /\ call \in [Stoppers -> {Idle, "shielded", "draining"} \cup Ended]
  /\ cleanup \in [Stoppers -> {Idle, "locking"} \cup Holding \cup Ended]
  /\ frames \in Seq(Kinds) /\ file \in Seq(Kinds)
  /\ writer \in {"closed", "open", "lost", "torn"}
  /\ open \subseteq Sources
  /\ errors \subseteq {"write", "loop", "final"}
  /\ result \in SUBSET Seq(Kinds)
  /\ cancels \in 0..MaxCancels

Init ==
  /\ state = "created" /\ lock = "none"
  /\ start = Idle /\ sampler = "none"
  /\ call = [c \in Stoppers |-> Idle]
  /\ cleanup = [c \in Stoppers |-> Idle]
  /\ frames = <<>> /\ file = <<>>
  /\ writer = "closed" /\ open = {}
  /\ errors = {} /\ result = {}
  /\ cancels = 0

-----------------------------------------------------------------------------
(* Frames.                                                                 *)

\* JSONLWriter.open, with which every write begins: a file that is not open, as
\* after a close that raised, is opened again, in mode "w".
Reopened == IF writer = "open" THEN file ELSE <<>>

\* The write failed; the writer is closed and forgotten.
GiveUpWriter ==
  /\ DiskFaults /\ writer # "lost"
  /\ file' = Reopened /\ writer' = "lost"
  /\ errors' = errors \cup {"write"}

\* _collect_frame once the engine answered, when it returns.
FrameCollected(kind) ==
  /\ frames' = Append(frames, kind)
  /\ \/ /\ writer # "lost"
        /\ file' = Append(Reopened, kind) /\ writer' = "open"
        /\ UNCHANGED errors
     \/ writer = "lost" /\ UNCHANGED <<file, writer, errors>>
     \/ GiveUpWriter

\* And when it raises: the write failed, and so did closing the file after it.
\* failure is what the caller of _collect_frame notes.
FrameRaises(kind, failure) ==
  /\ DiskFaults /\ writer # "lost"
  /\ frames' = Append(frames, kind)
  /\ file' = Reopened /\ writer' = "torn"
  /\ errors' = errors \cup {"write", failure}

-----------------------------------------------------------------------------
(* start.                                                                  *)

StartFails ==
  /\ start = Idle /\ lock = "none" /\ state = "created"
  /\ DiskFaults
  /\ start' = "raised"
  /\ UNCHANGED <<state, lock, sampler, call, cleanup, data, cancels>>

StartOpens ==
  /\ start = Idle /\ lock = "none" /\ state = "created"
  /\ start' = "baseline" /\ lock' = "start" /\ state' = "running"
  /\ writer' = "open" /\ open' = Sources
  /\ UNCHANGED <<sampler, call, cleanup, frames, file, errors, result, cancels>>

StartReturns ==
  /\ start = "baseline"
  /\ FrameCollected("baseline")
  /\ sampler' = "waiting"
  /\ start' = "returned" /\ lock' = "none"
  /\ UNCHANGED <<state, call, cleanup, open, result, cancels>>

\* Transactional start: the baseline sample raised or was cancelled.
StartRollsBack ==
  /\ start = "baseline"
  /\ \/ FrameRaises("baseline", "write") /\ UNCHANGED cancels
     \/ /\ cancels < MaxCancels /\ cancels' = cancels + 1
        /\ UNCHANGED <<frames, file, writer, errors>>
  /\ start' = "rollback" /\ open' = open \ {"nvml"}
  /\ UNCHANGED <<state, lock, sampler, call, cleanup, result>>

RolledBack_KeepsClient ==
  /\ start = "rollback"
  /\ state' = "stopped"
  /\ start' = "raised" /\ lock' = "none"
  /\ UNCHANGED open /\ writer' = IF writer = "lost" THEN "lost" ELSE "closed"
  /\ UNCHANGED <<sampler, call, cleanup, frames, file, errors, result, cancels>>

RolledBack ==
  /\ start = "rollback"
  /\ state' = "stopped"
  /\ start' = "raised" /\ lock' = "none"
  /\ open' = {} /\ writer' = IF writer = "lost" THEN "lost" ELSE "closed"
  /\ UNCHANGED <<sampler, call, cleanup, frames, file, errors, result, cancels>>

\* The rollback is cancelled while it closes the HTTP client: "running" stays.
RollbackCancelled ==
  /\ start = "rollback"
  /\ cancels < MaxCancels /\ cancels' = cancels + 1
  /\ start' = "raised" /\ lock' = "none"
  /\ UNCHANGED <<state, sampler, call, cleanup, data>>

-----------------------------------------------------------------------------
(* _sampling_loop.                                                         *)

Tick ==
  /\ sampler = "waiting"
  /\ Len(frames) <= MaxPeriodic
  /\ sampler' = "collecting" /\ open' = Sources
  /\ UNCHANGED <<state, lock, start, call, cleanup, frames, file, writer,
                 errors, result, cancels>>

Sampled ==
  /\ sampler = "collecting"
  /\ FrameCollected("periodic")
  /\ sampler' = "waiting"
  /\ UNCHANGED <<state, lock, start, call, cleanup, open, result, cancels>>

LoopFails ==
  /\ sampler = "collecting"
  /\ FrameRaises("periodic", "loop")
  /\ sampler' = "ended"
  /\ UNCHANGED <<state, lock, start, call, cleanup, open, result, cancels>>

\* The cancellation from _stop_impl lands in the loop, which drops the sample
\* it was collecting.
LoopEnds ==
  /\ sampler = "cancelled"
  /\ sampler' = "ended"
  /\ UNCHANGED <<state, lock, start, call, cleanup, data, cancels>>

-----------------------------------------------------------------------------
(* stop: the caller c.                                                     *)

CallStop(c) ==
  /\ call[c] = Idle /\ start # Idle
  /\ call' = [call EXCEPT ![c] = "shielded"]
  /\ cleanup' = [cleanup EXCEPT ![c] = "locking"]
  /\ UNCHANGED <<state, lock, start, sampler, data, cancels>>

Return(c) ==
  /\ call[c] = "shielded" /\ cleanup[c] \in Ended
  /\ call' = [call EXCEPT ![c] = cleanup[c]]
  /\ UNCHANGED <<state, lock, start, sampler, cleanup, data, cancels>>

Drain_WithoutShield(c) ==
  /\ call[c] = "shielded"
  /\ cancels < MaxCancels /\ cancels' = cancels + 1
  /\ call' = [call EXCEPT ![c] = "draining"]
  /\ cleanup' = [cleanup EXCEPT ![c] = IF @ = "locking" THEN "cancelled" ELSE @]
  /\ UNCHANGED <<state, lock, start, sampler, data>>

\* The caller is cancelled and waits for the shielded task.
Drain(c) ==
  /\ call[c] = "shielded"
  /\ cancels < MaxCancels /\ cancels' = cancels + 1
  /\ call' = [call EXCEPT ![c] = "draining"]
  /\ UNCHANGED <<state, lock, start, sampler, cleanup, data>>

\* An exception of _stop_impl replaces the cancellation.
Drained(c) ==
  /\ call[c] = "draining" /\ cleanup[c] \in Ended
  /\ call' = [call EXCEPT ![c] = IF cleanup[c] = "raised" THEN "raised"
                                                          ELSE "cancelled"]
  /\ UNCHANGED <<state, lock, start, sampler, cleanup, data, cancels>>

-----------------------------------------------------------------------------
(* stop: the task running _stop_impl for c.                                *)

\* Enter the lock and find nothing to stop.  After a rolled back start there
\* is no result to return, and the assertion fails.
StopRefused(c) ==
  /\ cleanup[c] = "locking" /\ lock = "none"
  /\ \/ /\ state = "created" \/ (state = "stopped" /\ result = {})
        /\ cleanup' = [cleanup EXCEPT ![c] = "raised"]
     \/ /\ state = "stopped" /\ result # {}
        /\ cleanup' = [cleanup EXCEPT ![c] = "returned"]
  /\ UNCHANGED <<state, lock, start, sampler, call, data, cancels>>

StopBegins_WithoutJoin(c) ==
  /\ cleanup[c] = "locking" /\ lock = "none"
  /\ state \in {"running", "stopping"}
  /\ lock' = c /\ state' = "stopping"
  /\ cleanup' = [cleanup EXCEPT ![c] = "sampling"]
  /\ open' = Sources
  /\ UNCHANGED <<start, sampler, call, frames, file, writer, errors, result,
                 cancels>>

\* The sampling task is told to end, and awaited if it has not.
StopBegins(c) ==
  /\ cleanup[c] = "locking" /\ lock = "none"
  /\ state \in {"running", "stopping"}
  /\ lock' = c /\ state' = "stopping"
  /\ \/ /\ sampler \in {"waiting", "collecting"}
        /\ sampler' = "cancelled"
        /\ cleanup' = [cleanup EXCEPT ![c] = "joining"]
        /\ UNCHANGED open
     \/ /\ sampler \in {"none", "ended"}
        /\ cleanup' = [cleanup EXCEPT ![c] = "sampling"]
        /\ open' = Sources
        /\ UNCHANGED sampler
  /\ UNCHANGED <<start, call, frames, file, writer, errors, result, cancels>>

Joined(c) ==
  /\ cleanup[c] = "joining" /\ sampler = "ended"
  /\ cleanup' = [cleanup EXCEPT ![c] = "sampling"]
  /\ open' = Sources
  /\ UNCHANGED <<state, lock, start, sampler, call, frames, file, writer,
                 errors, result, cancels>>

\* The final sample, then nvml.close.
FinalSample(c) ==
  /\ cleanup[c] = "sampling"
  /\ FrameCollected("final") \/ FrameRaises("final", "final")
  /\ cleanup' = [cleanup EXCEPT ![c] = "closing"]
  /\ open' = open \ {"nvml"}
  /\ UNCHANGED <<state, lock, start, sampler, call, result, cancels>>

\* The HTTP client and the writer are closed and the result is built.
StopReturns(c) ==
  /\ cleanup[c] = "closing"
  /\ state' = "stopped" /\ lock' = "none"
  /\ open' = {} /\ writer' = IF writer = "lost" THEN "lost" ELSE "closed"
  /\ result' = {frames}
  /\ cleanup' = [cleanup EXCEPT ![c] = "returned"]
  /\ UNCHANGED <<start, sampler, call, frames, file, errors, cancels>>

StopCancelled_KeepsLock(c) ==
  /\ call[c] = "draining" /\ cleanup[c] = "closing"
  /\ cancels < MaxCancels /\ cancels' = cancels + 1
  /\ cleanup' = [cleanup EXCEPT ![c] = "cancelled"]
  /\ UNCHANGED <<state, lock, start, sampler, call, data>>
\* The caller is cancelled again and takes the task with it: outside the lock
\* it just ends; while it waits for the sampler the cancellation is swallowed;
\* the final sample is given up; the closing is left half done.
StopCancelled(c) ==
  /\ call[c] = "draining" /\ cleanup[c] \in {"locking"} \cup Holding
  /\ cancels < MaxCancels /\ cancels' = cancels + 1
  /\ \/ /\ cleanup[c] = "locking"
        /\ cleanup' = [cleanup EXCEPT ![c] = "cancelled"]
        /\ UNCHANGED <<lock, open, errors>>
     \/ /\ cleanup[c] = "joining"
        /\ UNCHANGED <<cleanup, lock, open, errors>>
     \/ /\ cleanup[c] = "sampling"
        /\ cleanup' = [cleanup EXCEPT ![c] = "closing"]
        /\ open' = open \ {"nvml"}
        /\ errors' = errors \cup {"final"}
        /\ UNCHANGED lock
     \/ /\ cleanup[c] = "closing"
        /\ cleanup' = [cleanup EXCEPT ![c] = "cancelled"]
        /\ lock' = "none"
        /\ UNCHANGED <<open, errors>>
  /\ UNCHANGED <<state, start, sampler, call, frames, file, writer, result>>

-----------------------------------------------------------------------------
Stop(c) ==
  \/ CallStop(c) \/ Return(c) \/ Drain(c) \/ Drained(c)
  \/ StopRefused(c) \/ StopBegins(c) \/ Joined(c) \/ FinalSample(c)
  \/ StopReturns(c) \/ StopCancelled(c)

\* Everybody has what it asked for.
Terminated ==
  /\ start \in {"returned", "raised"}
  /\ \A c \in Stoppers : call[c] \in Ended
  /\ UNCHANGED vars

Next ==
  \/ StartFails \/ StartOpens \/ StartReturns \/ StartRollsBack
  \/ RolledBack \/ RollbackCancelled
  \/ Tick \/ Sampled \/ LoopFails \/ LoopEnds
  \/ \E c \in Stoppers : Stop(c)
  \/ Terminated

\* Every await ends by itself: requests and closing have timeouts, the sampling
\* task answers its cancellation.
Fairness ==
  /\ WF_vars(StartReturns) /\ WF_vars(RolledBack) /\ WF_vars(LoopEnds)
  /\ \A c \in Stoppers :
       /\ WF_vars(Return(c)) /\ WF_vars(Drained(c))
       /\ WF_vars(StopRefused(c)) /\ WF_vars(StopBegins(c))
       /\ WF_vars(Joined(c)) /\ WF_vars(FinalSample(c))
       /\ WF_vars(StopReturns(c))

Spec == Init /\ [][Next]_vars /\ Fairness

-----------------------------------------------------------------------------
(* The inductive invariant.                                                *)

Finals == {i \in 1..Len(frames) : frames[i] = "final"}

\* One of start and the _stop_impl tasks is inside the lock: the holder.
LockInv ==
  /\ start \in {"baseline", "rollback"} <=> lock = "start"
  /\ \A c \in Stoppers : cleanup[c] \in Holding <=> lock = c

CallInv ==
  \A c \in Stoppers :
    /\ call[c] = Idle <=> cleanup[c] = Idle
    /\ call[c] \in Ended => cleanup[c] \in Ended
    /\ call[c] = "returned" => cleanup[c] = "returned"
    /\ cleanup[c] = "returned" => state = "stopped" /\ result # {}

\* What the state says of start, the sampling task and the lock.
StateInv ==
  /\ start = Idle => state = "created"
  /\ start = "returned" => state # "created"
  /\ lock = "start" => state = "running" /\ sampler = "none"
  /\ state = "created" => sampler = "none" /\ open = {}
  /\ sampler \in {"waiting", "collecting"} => state = "running"
  /\ sampler = "cancelled" => \E c \in Stoppers : cleanup[c] = "joining"
  /\ \A c \in Stoppers :
       /\ cleanup[c] \in Holding => state = "stopping"
       /\ cleanup[c] = "joining" => sampler \in {"cancelled", "ended"}
       /\ cleanup[c] \in {"sampling", "closing"} => sampler \in {"none", "ended"}
       /\ cleanup[c] = "closing" => Finals # {} \/ "final" \in errors
  /\ start \in {Idle, "baseline"} => frames = <<>> /\ file = <<>> /\ errors = {}

ResultInv ==
  /\ state = "stopped" => open = {} /\ writer # "open"
  /\ result # {} => /\ state = "stopped" /\ result = {frames}
                    /\ Finals # {} \/ "final" \in errors
  /\ Finals # {} => state \in {"stopping", "stopped"}

FileInv ==
  /\ "write" \notin errors =>
       /\ file = frames
       /\ writer \in {"open", "closed"}
  /\ writer = "closed" => state \in {"created", "stopped"}

IInv == TypeOK /\ LockInv /\ CallInv /\ StateInv /\ ResultInv /\ FileInv

-----------------------------------------------------------------------------
(* Properties.                                                             *)

\* A stopped session samples no more and holds no NVML handle, HTTP client or
\* file, also when it was stopped by a start that was rolled back.
StoppedIsClosed ==
  state = "stopped" =>
    open = {} /\ writer # "open" /\ sampler \in {"none", "ended"}

\* The result every stop returns is built from all the frames there are: none
\* is collected after it.
ResultIsComplete == result # {} => state = "stopped" /\ result = {frames}

\* A stop that returns does so with a final sample, or with an error saying
\* why there is none.
ReturnHasFinal ==
  \A c \in Stoppers :
    call[c] = "returned" => Finals # {} \/ "final" \in errors

\* telemetry.jsonl holds exactly the frames of the session, unless the errors
\* say that a write failed.
FileAgrees == "write" \notin errors => file = frames

\* session.py:299-301: a cancelled stop still takes the final sample and closes
\* the resources before the cancellation is re-raised.
CancelledStopCompletes ==
  \A c \in Stoppers :
    call[c] = "cancelled" => state = "stopped" /\ open = {} /\ Finals # {}

\* So it does for the first cancellation, whichever caller of stop it hits and
\* whatever the other caller does in the meantime.
FirstCancelCompletes == cancels <= 1 => CancelledStopCompletes

\* timeseries.py:214: what was written stays in the file.
PartialRunsRetainData ==
  [][Len(file) <= Len(file') /\ SubSeq(file', 1, Len(file)) = file]_vars

\* Every stop ends, whoever is cancelled while it holds the lock.
StopsEnd ==
  \A c \in Stoppers : call[c] # Idle ~> call[c] \in Ended

\* The frames and the result are those of the window promised to readers.
Window == INSTANCE TelemetryWindow
ImplementsWindow == Window!Spec

=============================================================================
