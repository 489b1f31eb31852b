---------------------------- MODULE ManagedServer ----------------------------
(***************************************************************************)
(* ManagedVLLMServer of runtime/server.py: start, wait_ready and any number*)
(* of stop calls, against the operating system.  The server's processes    *)
(* fork, leave the process group, take the GPU and the port, and exit on   *)
(* their own between any two reads of /proc, NVML or the port; so do the   *)
(* other tenants of the machine.                                           *)
(*                                                                         *)
(* Deadlines are nondeterministic: any round of a waiting loop may be the  *)
(* last.  Signals reach every member of the group; a process sent SIGKILL  *)
(* does nothing more than exit.  SIGTERM may be ignored.                   *)
(***************************************************************************)
EXTENDS Naturals, FiniteSets

CONSTANTS
  Leader,      \* the process started by Popen: its PID is the group's ID
  Workers,     \* what it forks, directly or not
  Foreign,     \* another tenant of the GPU and of the port
  Stoppers,    \* the calls of stop
  LateForks,   \* whether group members still fork once stop was called
  NvmlFaults,  \* whether reading the compute PIDs may fail
  Procfs,      \* whether there is a /proc to list the group from
  MaxCancels   \* bound: _stop_impl tasks cancelled (callers cancelled twice)

Own == {Leader} \cup Workers
NoOne == "noone"

ASSUME ConstantsAssumption ==
  /\ Leader \notin Workers /\ Foreign \notin Own /\ NoOne \notin Own \cup {Foreign}
  /\ NoOne \notin Stoppers
  /\ LateForks \in BOOLEAN /\ NvmlFaults \in BOOLEAN /\ Procfs \in BOOLEAN
  /\ MaxCancels \in Nat

VARIABLES
  \* the machine: the processes ever forked; those alive in the group, and
  \* alive outside it; those sent SIGKILL; whether the leader is a zombie
  born, group, stray, doomed, zombie,
  gpu,        \* the compute PIDs NVML lists
  portOwner,  \* who is bound to the port
  \* ManagedVLLMServer: the caller of start and wait_ready; the compute PIDs
  \* before the launch, and whether reading them failed; the PIDs to wait for;
  \* ready; cleanup_status: its verdict; the holder of _cleanup_lock
  user, baseline, baselineError, tracked, ready, verdict, lock,
  \* the locals of the _stop_impl inside the lock: which part it is in, the
  \* PIDs listed, the group members and the state of the port it last saw,
  \* the first reading of the compute PIDs
  step, listed, members, portSeen, gpuErrorBefore,
  call,       \* call[c]: where the stop call c is
  signals,    \* history: the signals the group was sent
  cancels     \* how many _stop_impl tasks were cancelled

machine == <<born, group, stray, doomed, zombie, gpu, portOwner>>
server == <<user, baseline, baselineError, tracked, ready, verdict, lock>>
locals == <<step, listed, members, portSeen, gpuErrorBefore>>
vars == <<machine, server, locals, call, signals, cancels>>

Alive == group \cup stray
Free == Alive \ doomed   \* alive and able to act
Idle == "idle"
Steps == {"none", "list", "before", "listTerm", "term", "sleepTerm", "listKill",
          "kill", "sleepKill", "compute", "sleepCompute"}
Ended == {"returned", "cancelled"}

MachineOK ==
  /\ born \subseteq Own /\ group \subseteq born /\ stray \subseteq born
  /\ doomed \subseteq born
  /\ gpu \subseteq Own \cup {Foreign}
  /\ portOwner \in Own \cup {Foreign, NoOne}
  /\ signals \subseteq {"TERM", "KILL"}

ServerOK ==
  /\ user \in {Idle, "baseline", "spawn", "started", "failed", "poll", "get",
               "sleep", "ready", "notReady", "abandoned"}
  /\ baseline \subseteq Own \cup {Foreign}
  /\ tracked \subseteq Own \cup {Foreign}
  /\ verdict \in {"none", "clean", "unclean"}
  /\ step \in Steps
  /\ listed \subseteq Own /\ members \subseteq Own
  /\ portSeen \in {"free", "taken"}

FlagsOK == {zombie, baselineError, ready, gpuErrorBefore} \subseteq BOOLEAN

CallsOK ==
  /\ lock \in Stoppers \cup {NoOne}
  /\ call \in [Stoppers -> {Idle, "locking", "inside"} \cup Ended]
  /\ cancels \in 0..MaxCancels

TypeOK == MachineOK /\ ServerOK /\ FlagsOK /\ CallsOK

Init ==
  /\ born = {} /\ group = {} /\ stray = {} /\ doomed = {} /\ zombie = FALSE
  /\ gpu \in {{}, {Foreign}} /\ portOwner \in {NoOne, Foreign}
  /\ user = Idle
  /\ baseline = {} /\ baselineError = FALSE /\ tracked = {}
  /\ ready = FALSE /\ verdict = "none" /\ lock = NoOne
  /\ step = "none" /\ listed = {} /\ members = {}
  /\ portSeen = "taken" /\ gpuErrorBefore = FALSE
  /\ call = [c \in Stoppers |-> Idle]
  /\ signals = {} /\ cancels = 0

-----------------------------------------------------------------------------
(* The machine.                                                            *)

Stopping == \E c \in Stoppers : call[c] # Idle

\* A child is born into its parent's group.
Fork(p, q) ==
  /\ p \in Free /\ q \in Workers \ born
  /\ LateForks \/ ~Stopping
  /\ born' = born \cup {q}
  /\ IF p \in group THEN group' = group \cup {q} /\ UNCHANGED stray
                    ELSE stray' = stray \cup {q} /\ UNCHANGED group
  /\ UNCHANGED <<doomed, zombie, gpu, portOwner>>

\* setsid: a child leaves the group for good.
Detach(q) ==
  /\ q \in (group \cap Workers) \ doomed
  /\ group' = group \ {q} /\ stray' = stray \cup {q}
  /\ UNCHANGED <<born, doomed, zombie, gpu, portOwner>>

UseGpu(q) ==
  /\ q \in Free
  /\ gpu' = gpu \cup {q}
  /\ UNCHANGED <<born, group, stray, doomed, zombie, portOwner>>

BindPort(q) ==
  /\ q \in group \ doomed /\ portOwner = NoOne
  /\ portOwner' = q
  /\ UNCHANGED <<born, group, stray, doomed, zombie, gpu>>

\* The driver lists a process until it has torn down its contexts.
Exit(q) ==
  /\ q \in Alive
  /\ group' = group \ {q} /\ stray' = stray \ {q} /\ doomed' = doomed \ {q}
  /\ zombie' = (zombie \/ q = Leader)
  /\ portOwner' = IF portOwner = q THEN NoOne ELSE portOwner
  /\ UNCHANGED <<born, gpu>>

GpuFreed(q) ==
  /\ q \in gpu \cap Own /\ q \notin Alive
  /\ gpu' = gpu \ {q}
  /\ UNCHANGED <<born, group, stray, doomed, zombie, portOwner>>

ForeignGpu ==
  /\ gpu' = IF Foreign \in gpu THEN gpu \ {Foreign} ELSE gpu \cup {Foreign}
  /\ UNCHANGED <<born, group, stray, doomed, zombie, portOwner>>

ForeignPort ==
  /\ portOwner \in {NoOne, Foreign}
  /\ portOwner' = IF portOwner = NoOne THEN Foreign ELSE NoOne
  /\ UNCHANGED <<born, group, stray, doomed, zombie, gpu>>

Machine ==
  /\ \/ \E p \in Own, q \in Workers : Fork(p, q)
     \/ \E q \in Own : Detach(q) \/ UseGpu(q) \/ BindPort(q) \/ Exit(q) \/ GpuFreed(q)
     \/ ForeignGpu \/ ForeignPort
  /\ UNCHANGED <<server, locals, call, signals, cancels>>

-----------------------------------------------------------------------------
(* start and wait_ready.                                                   *)

\* The port is taken, or the trial directory cannot be written.
StartRefused ==
  /\ user = Idle
  /\ user' = "failed"
  /\ UNCHANGED <<machine, baseline, baselineError, tracked, ready, verdict, lock,
                 locals, call, signals, cancels>>

StartChecksPort ==
  /\ user = Idle /\ portOwner = NoOne
  /\ user' = "baseline"
  /\ UNCHANGED <<machine, baseline, baselineError, tracked, ready, verdict, lock,
                 locals, call, signals, cancels>>

StartReadsBaseline ==
  /\ user = "baseline"
  /\ \/ baseline' = gpu /\ UNCHANGED baselineError
     \/ NvmlFaults /\ baselineError' = TRUE /\ UNCHANGED baseline
  /\ user' = "spawn"
  /\ UNCHANGED <<machine, tracked, ready, verdict, lock, locals, call, signals,
                 cancels>>

\* Popen, in a new session, or Popen raising.
Spawn ==
  /\ user = "spawn"
  /\ \/ /\ user' = "started"
        /\ born' = {Leader} /\ group' = {Leader}
        /\ verdict' = "none" /\ tracked' = {} /\ ready' = FALSE
     \/ user' = "failed" /\ UNCHANGED <<born, group, verdict, tracked, ready>>
  /\ UNCHANGED <<stray, doomed, zombie, gpu, portOwner, baseline, baselineError,
                 lock, locals, call, signals, cancels>>

WaitReady ==
  /\ user \in {"started", "sleep"}
  /\ user' = "poll"
  /\ UNCHANGED <<machine, baseline, baselineError, tracked, ready, verdict, lock,
                 locals, call, signals, cancels>>

\* process.poll() also reaps the leader.
Poll ==
  /\ user = "poll"
  /\ IF Leader \in group THEN user' = "get" /\ UNCHANGED zombie
                         ELSE user' = "notReady" /\ zombie' = FALSE
  /\ UNCHANGED <<born, group, stray, doomed, gpu, portOwner, baseline,
                 baselineError, tracked, ready, verdict, lock, locals, call,
                 signals, cancels>>

\* Somebody listens on the port and answers 200; or nobody does yet.
Get ==
  /\ user = "get"
  /\ \/ /\ portOwner # NoOne
        /\ ready' = TRUE /\ user' = "ready"
     \/ user' \in {"sleep", "notReady"} /\ UNCHANGED ready
  /\ UNCHANGED <<machine, baseline, baselineError, tracked, verdict, lock, locals,
                 call, signals, cancels>>

\* The caller is cancelled while it waits.
AbandonReady ==
  /\ user \in {"get", "sleep"}
  /\ user' = "abandoned"
  /\ UNCHANGED <<machine, baseline, baselineError, tracked, ready, verdict, lock,
                 locals, call, signals, cancels>>

-----------------------------------------------------------------------------
(* stop.                                                                   *)

Over == {"failed", "ready", "notReady", "abandoned"}
HasGroup == Leader \in born   \* process_group_id is not None

CallStop(c) ==
  /\ call[c] = Idle /\ user \in Over
  /\ call' = [call EXCEPT ![c] = "locking"]
  /\ UNCHANGED <<machine, server, locals, signals, cancels>>

\* A verified cleanup is returned again.
StopCached(c) ==
  /\ call[c] = "locking" /\ lock = NoOne
  /\ verdict = "clean"
  /\ call' = [call EXCEPT ![c] = "returned"]
  /\ UNCHANGED <<machine, server, locals, signals, cancels>>

StopEnters_Always(c) ==
  /\ call[c] = "locking" /\ lock = NoOne
  /\ call' = [call EXCEPT ![c] = "inside"]
  /\ lock' = c /\ ready' = FALSE
  /\ step' = "list"
  /\ UNCHANGED <<machine, user, baseline, baselineError, tracked, verdict,
                 listed, members, portSeen, gpuErrorBefore, signals, cancels>>

StopEnters(c) ==
  /\ call[c] = "locking" /\ lock = NoOne
  /\ verdict # "clean"
  /\ call' = [call EXCEPT ![c] = "inside"]
  /\ lock' = c /\ ready' = FALSE
  /\ step' = "list"
  /\ UNCHANGED <<machine, user, baseline, baselineError, tracked, verdict,
                 listed, members, portSeen, gpuErrorBefore, signals, cancels>>

\* The PIDs in /proc, read before the group of any of them.
List ==
  /\ \/ step = "list" /\ step' = "before"
     \/ step = "listTerm" /\ step' = "term"
     \/ step = "listKill" /\ step' = "kill"
  /\ listed' = Alive
  /\ UNCHANGED <<machine, server, members, portSeen, gpuErrorBefore, call, signals,
                 cancels>>

GroupSeen_LeaderOnly == IF zombie THEN {} ELSE group \cap {Leader}

\* _process_group_alive: without /proc, a zombie leader counts as alive.
GroupSeen ==
  IF ~HasGroup THEN {}
  ELSE IF Procfs THEN listed \cap group
  ELSE group \cup (IF zombie THEN {Leader} ELSE {})

\* Before the first signal: who is there, which compute PIDs are new; SIGTERM.
Survey ==
  /\ step = "before"
  /\ members' = GroupSeen
  /\ \/ /\ tracked' = tracked \cup (gpu \ baseline) \cup (members' \cap gpu)
        /\ gpuErrorBefore' = FALSE
     \/ NvmlFaults /\ gpuErrorBefore' = TRUE /\ UNCHANGED tracked
  /\ signals' = IF members' # {} THEN signals \cup {"TERM"} ELSE signals
  /\ step' = "listTerm" /\ listed' = {}
  /\ UNCHANGED <<machine, user, baseline, baselineError, ready, verdict, lock,
                 portSeen, call, cancels>>

Look == /\ members' = GroupSeen /\ listed' = {}
        /\ portSeen' = IF portOwner = NoOne THEN "free" ELSE "taken"

Released == members' = {} /\ portSeen' = "free"

\* _wait_until_released after SIGTERM and after SIGKILL: another round.
LookAgain ==
  /\ \/ step = "term" /\ step' = "sleepTerm"
     \/ step = "kill" /\ step' = "sleepKill"
  /\ Look /\ ~Released
  /\ UNCHANGED <<machine, server, gpuErrorBefore, call, signals, cancels>>

\* What is left of the group at the deadline is sent SIGKILL.
LeaveTerm ==
  /\ step = "term"
  /\ Look
  /\ \/ Released /\ step' = "compute" /\ UNCHANGED <<doomed, signals>>
     \/ /\ ~Released /\ step' = "listKill"
        /\ IF members' # {}
             THEN doomed' = doomed \cup group /\ signals' = signals \cup {"KILL"}
             ELSE UNCHANGED <<doomed, signals>>
  /\ UNCHANGED <<born, group, stray, zombie, gpu, portOwner, server,
                 gpuErrorBefore, call, cancels>>

LeaveKill ==
  /\ step = "kill"
  /\ Look
  /\ step' = "compute"
  /\ UNCHANGED <<machine, server, gpuErrorBefore, call, signals, cancels>>

\* asyncio.sleep between two rounds of a loop.
Resume ==
  /\ \/ step = "sleepTerm" /\ step' = "listTerm"
     \/ step = "sleepKill" /\ step' = "listKill"
     \/ step = "sleepCompute" /\ step' = "compute"
  /\ UNCHANGED <<machine, server, listed, members, portSeen, gpuErrorBefore, call,
                 signals, cancels>>

Residual == (tracked \cap gpu) \cup (gpu \ baseline) \cup (members \cap gpu)

\* The locals die with the call.
ForgetLocals ==
  /\ step' = "none" /\ listed' = {} /\ members' = {} /\ portSeen' = "taken"
  /\ gpuErrorBefore' = FALSE

Verdict_GpuUnknown(error) ==
  IF members = {} /\ portSeen = "free" /\ (error \/ Residual = {})
  THEN "clean" ELSE "unclean"

\* clean: the group empty, the port free, and no compute PID left, as far as
\* all three readings of NVML succeeded.
Verdict(error) ==
  IF /\ members = {} /\ portSeen = "free"
     /\ ~baselineError /\ ~gpuErrorBefore /\ ~error
     /\ Residual = {}
  THEN "clean" ELSE "unclean"

\* The leader is polled, which reaps it; _wait_for_compute_release goes round
\* again or ends in the verdict.
ComputeAgain ==
  /\ step = "compute" /\ zombie' = FALSE
  /\ (tracked \cap gpu) \cup (gpu \ baseline) # {}
  /\ step' = "sleepCompute"
  /\ UNCHANGED <<born, group, stray, doomed, gpu, portOwner, server, listed,
                 members, portSeen, gpuErrorBefore, call, signals, cancels>>

Judge ==
  /\ step = "compute" /\ zombie' = FALSE
  /\ \E error \in IF NvmlFaults THEN BOOLEAN ELSE {FALSE} :
       verdict' = Verdict(error)
  /\ lock' = NoOne /\ ForgetLocals
  /\ call' = [call EXCEPT ![lock] = "returned"]
  /\ UNCHANGED <<born, group, stray, doomed, gpu, portOwner, user, baseline,
                 baselineError, tracked, ready, signals, cancels>>

StopCancelled_KeepsLock(c) ==
  /\ cancels < MaxCancels /\ cancels' = cancels + 1
  /\ lock = c /\ step \in {"sleepTerm", "sleepKill", "sleepCompute"}
  /\ ForgetLocals
  /\ call' = [call EXCEPT ![c] = "cancelled"]
  /\ UNCHANGED <<machine, server, signals>>

\* The _stop_impl task is cancelled at one of its awaits: no verdict.
StopCancelled(c) ==
  /\ cancels < MaxCancels /\ cancels' = cancels + 1
  /\ \/ call[c] = "locking" /\ UNCHANGED <<lock, locals>>
     \/ /\ lock = c /\ step \in {"sleepTerm", "sleepKill", "sleepCompute"}
        /\ lock' = NoOne /\ ForgetLocals
  /\ call' = [call EXCEPT ![c] = "cancelled"]
  /\ UNCHANGED <<machine, user, baseline, baselineError, tracked, ready, verdict,
                 signals>>

-----------------------------------------------------------------------------
Inside == List \/ Survey \/ LookAgain \/ LeaveTerm \/ LeaveKill \/ Resume
          \/ ComputeAgain \/ Judge

Next ==
  \/ Machine
  \/ StartRefused \/ StartChecksPort \/ StartReadsBaseline \/ Spawn
  \/ WaitReady \/ Poll \/ Get \/ AbandonReady
  \/ \E c \in Stoppers : CallStop(c) \/ StopCached(c) \/ StopEnters(c) \/ StopCancelled(c)
  \/ Inside

\* The event loop runs, and the waiting loops have deadlines: a loop entered
\* again and again is left.
Fairness ==
  /\ WF_vars(Inside)
  /\ SF_vars(LeaveTerm) /\ SF_vars(LeaveKill) /\ SF_vars(Judge)
  /\ \A c \in Stoppers : WF_vars(StopCached(c)) /\ WF_vars(StopEnters(c))

Spec == Init /\ [][Next]_vars /\ Fairness

-----------------------------------------------------------------------------
(* The inductive invariant.  ExactProbe: the group is read as it is, either*)
(* by killpg or because nobody forks between the listing and the reading.  *)

ExactProbe == ~Procfs \/ ~LateForks

BornInv ==
  /\ user \in {Idle, "baseline", "spawn"} => born = {}
  /\ born # {} => Leader \in born
  /\ gpu \cap Own \subseteq born
  /\ baseline \cap Own = {}
  /\ portOwner \in Own => portOwner \in Alive

\* Stopping only begins once start and wait_ready are over; inside the lock is
\* exactly its holder.
LockInv ==
  /\ \A c \in Stoppers : call[c] # Idle => user \in Over
  /\ \A c \in Stoppers : call[c] = "inside" <=> lock = c
  /\ step = "none" <=> lock = NoOne
  /\ verdict = "clean" => lock = NoOne
  /\ verdict # "none" => \E c \in Stoppers : call[c] # Idle

\* What _stop_impl has read of the group and of the port is still so.
ReadInv ==
  ExactProbe =>
    /\ Procfs /\ step \in {"before", "term", "kill"} => group \subseteq listed
    /\ /\ step \in {"compute", "sleepCompute"}
       /\ members = {} /\ portSeen = "free"
       => group = {} /\ portOwner \notin Own
    /\ verdict = "clean" => group = {} /\ portOwner \notin Own

IInv == TypeOK /\ BornInv /\ LockInv /\ ReadInv

-----------------------------------------------------------------------------
(* Properties.                                                             *)

\* server.py:99: a clean verdict is evidence that the server owns nothing any
\* more: no process of its group lives, and none will bind the port.
CleanIsReleased == verdict = "clean" => group = {} /\ portOwner \notin Own

\* A verdict is clean only if no process of the server, in the group or not,
\* is on the GPU at that moment, whoever else came and went meanwhile.
CleanSawGpuFree ==
  [][verdict' = "clean" /\ verdict # "clean" => gpu \cap Own = {}]_vars

\* Once verified, nothing is signalled or judged again by a second stop.
CleanIsFinal ==
  [][verdict = "clean" => verdict' = "clean" /\ signals' = signals]_vars

\* Every stop ends, whatever the processes do.
StopsEnd == \A c \in Stoppers : call[c] # Idle ~> call[c] \in Ended
=============================================================================
