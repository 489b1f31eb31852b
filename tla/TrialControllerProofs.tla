------------------------ MODULE TrialControllerProofs ------------------------
(***************************************************************************)
(* Theorems about TrialController, for every value of its constants.  The  *)
(* argument is one inductive invariant, IInv, whose parts are preserved by *)
(* lemmas of their own (one case per action of Next); the properties then  *)
(* follow from it.                                                         *)
(***************************************************************************)
EXTENDS TrialController, TLAPS

-----------------------------------------------------------------------------
(* Results.  The provers see a result through these facts only.            *)

\* A result built from legal parts is a TrialResult.
LEMMA ResultType ==
  ASSUME NEW s \in {"COMPLETE", "INFEASIBLE", "FAILED"},
         NEW c \in {"satisfied", "violated"}, NEW v \in Verdicts
  PROVE  Result(s, c, v) \in TrialResult
  BY DEF Result, TrialResult

\* The parts of a result are what it was built from.
LEMMA ResultFields ==
  ASSUME NEW s, NEW c, NEW v
  PROVE  /\ Result(s, c, v).status = s
         /\ Result(s, c, v).constraints = c
         /\ Result(s, c, v).cleanup = v
  BY DEF Result

\* A TrialResult has a terminal status, so it is not NoResult.
LEMMA ResultExists ==
  ASSUME NEW r \in TrialResult
  PROVE  /\ r # NoResult
         /\ r.status \in {"COMPLETE", "INFEASIBLE", "FAILED"}
         /\ r.constraints \in {"satisfied", "violated"}
         /\ r.cleanup \in Verdicts
  BY DEF Result, TrialResult, NoResult, None

\* The absent result has no status.
LEMMA NoResultFields == NoResult.status = None /\ NoResult.cleanup = None
  BY DEF NoResult, Result

-----------------------------------------------------------------------------
(* The parts of the invariant, one lemma each.                             *)

\* The sets of flags only ever hold known flags.
LEMMA FlagsStep == FlagsOK /\ [Next]_vars => FlagsOK'
  <1> SUFFICES ASSUME FlagsOK, [Next]_vars
               PROVE  FlagsOK'
    OBVIOUS
  <1> USE DEF FlagsOK
  <1>1. CASE Prepare
    BY <1>1 DEF Prepare, Transition, TransitionOr, Settle
  <1>2. CASE Launch
    BY <1>2 DEF Launch, Raise
  <1>3. CASE BecomeReady
    BY <1>3 DEF BecomeReady, Transition, TransitionOr, Raise, Resumes
  <1>4. CASE EnterWarmup
    BY <1>4 DEF EnterWarmup, Transition, TransitionOr, Raise
  <1>5. CASE FinishWarmup
    BY <1>5 DEF FinishWarmup, Transition, TransitionOr, Raise, Resumes
  <1>6. CASE EnterMeasure
    BY <1>6 DEF EnterMeasure
  <1>7. CASE StartTelemetry
    BY <1>7 DEF StartTelemetry, Raise, Resumes
  <1>8. CASE FinishBenchmark
    BY <1>8 DEF FinishBenchmark, Transition, TransitionOr, Raise, Resumes
  <1>9. CASE Collect
    BY <1>9 DEF Collect
  <1>10. CASE StopTelemetry
    BY <1>10 DEF StopTelemetry, Raise, Resumes
  <1>11. CASE Score
    BY <1>11 DEF Score, Raise, ServerAlive
  <1>12. CASE EnterStop
    BY <1>12 DEF EnterStop, Transition, TransitionOr
  <1>13. CASE ServerStopped
    BY <1>13 DEF ServerStopped, LeaveShield, Leftovers
  <1>14. CASE ServerStopRaises
    BY <1>14 DEF ServerStopRaises, LeaveShield, Leftovers, Raise
  <1>15. CASE ServerStopAbandoned
    BY <1>15 DEF ServerStopAbandoned, LeaveShield, Leftovers
  <1>16. CASE Conclude
    BY <1>16 DEF Conclude, Transition, TransitionOr
  <1>17. CASE HandleCancelled
    BY <1>17 DEF HandleCancelled, FailTrial, TransitionOr
  <1>18. CASE HandleException
    BY <1>18 DEF HandleException, FailTrial, TransitionOr
  <1>19. CASE EnterFinally
    BY <1>19 DEF EnterFinally, CleanUpServer
  <1>20. CASE TelemetryCleaned
    BY <1>20 DEF TelemetryCleaned, LeaveShield, LeaveShieldCarrying, CleanUpServer
  <1>21. CASE TelemetryCleanupAbandoned
    BY <1>21 DEF TelemetryCleanupAbandoned, LeaveShieldCarrying, CleanUpServer
  <1>22. CASE ServerCleaned
    BY <1>22 DEF ServerCleaned, LeaveShieldCarrying, Leftovers
  <1>23. CASE ServerCleanupFails
    BY <1>23 DEF ServerCleanupFails, LeaveShield, LeaveShieldCarrying, Leftovers
  <1>24. CASE Record
    BY <1>24 DEF Record, Settle
  <1>25. CASE Save
    BY <1>25 DEF Save, Settle, Unsafe
  <1>26. CASE Seal
    BY <1>26 DEF Seal, Settle
  <1>27. CASE InterruptWork
    BY <1>27 DEF InterruptWork, Interrupted
  <1>28. CASE InterruptTelemetryStart
    BY <1>28 DEF InterruptTelemetryStart, Interrupted
  <1>29. CASE InterruptTelemetryStop
    BY <1>29 DEF InterruptTelemetryStop, Interrupted
  <1>30. CASE DrainTelemetry
    BY <1>30 DEF DrainTelemetry, Resumes
  <1>31. CASE InterruptDrain
    BY <1>31 DEF InterruptDrain, Interrupted
  <1>32. CASE Cancel
    BY <1>32 DEF Cancel
  <1>33. CASE TearDown
    BY <1>33 DEF TearDown
  <1>34. CASE EngineExits
    BY <1>34 DEF EngineExits
  <1>35. CASE Done
    BY <1>35 DEF Done, vars
  <1>36. CASE UNCHANGED vars
    BY <1>36 DEF vars
  <1> QED
    BY <1>1, <1>2, <1>3, <1>4, <1>5, <1>6, <1>7, <1>8, <1>9, <1>10, <1>11,
       <1>12, <1>13, <1>14, <1>15, <1>16, <1>17, <1>18, <1>19, <1>20, <1>21,
       <1>22, <1>23, <1>24, <1>25, <1>26, <1>27, <1>28, <1>29, <1>30, <1>31,
       <1>32, <1>33, <1>34, <1>35, <1>36
    DEF Next, RunTrial, Environment

\* pc, the statuses, the verdicts, the engine and the session stay in their types.
LEMMA PhasesStep == PhasesOK /\ [Next]_vars => PhasesOK'
  <1> SUFFICES ASSUME PhasesOK, [Next]_vars
               PROVE  PhasesOK'
    OBVIOUS
  <1> USE DEF PhasesOK, Awaits, OpenAwaits, ShieldedAwaits, Segments, Verdicts, None,
             TrialStatus, Terminal, FAILURE_STATES
  <1>1. CASE Prepare
    BY <1>1 DEF Prepare, Transition, TransitionOr, Settle, fileVars
  <1>2. CASE Launch
    BY <1>2 DEF Launch, Raise, fileVars
  <1>3. CASE BecomeReady
    BY <1>3 DEF BecomeReady, Transition, TransitionOr, Raise, Resumes, fileVars
  <1>4. CASE EnterWarmup
    BY <1>4 DEF EnterWarmup, Transition, TransitionOr, Raise, fileVars
  <1>5. CASE FinishWarmup
    BY <1>5 DEF FinishWarmup, Transition, TransitionOr, Raise, Resumes, fileVars
  <1>6. CASE EnterMeasure
    BY <1>6 DEF EnterMeasure, fileVars
  <1>7. CASE StartTelemetry
    BY <1>7 DEF StartTelemetry, Raise, Resumes, fileVars
  <1>8. CASE FinishBenchmark
    BY <1>8 DEF FinishBenchmark, Transition, TransitionOr, Raise, Resumes, fileVars
  <1>9. CASE Collect
    BY <1>9 DEF Collect, fileVars
  <1>10. CASE StopTelemetry
    BY <1>10 DEF StopTelemetry, Raise, Resumes, fileVars
  <1>11. CASE Score
    BY <1>11 DEF Score, Raise, ServerAlive, fileVars
  <1>12. CASE EnterStop
    BY <1>12 DEF EnterStop, Transition, TransitionOr, fileVars
  <1>13. CASE ServerStopped
    BY <1>13 DEF ServerStopped, LeaveShield, Leftovers, fileVars
  <1>14. CASE ServerStopRaises
    BY <1>14 DEF ServerStopRaises, LeaveShield, Leftovers, Raise, fileVars
  <1>15. CASE ServerStopAbandoned
    BY <1>15 DEF ServerStopAbandoned, LeaveShield, Leftovers, fileVars
  <1>16. CASE Conclude
    BY <1>16 DEF Conclude, Transition, TransitionOr, fileVars
  <1>17. CASE HandleCancelled
    BY <1>17 DEF HandleCancelled, FailTrial, TransitionOr, fileVars
  <1>18. CASE HandleException
    BY <1>18 DEF HandleException, FailTrial, TransitionOr, fileVars
  <1>19. CASE EnterFinally
    BY <1>19 DEF EnterFinally, CleanUpServer, fileVars
  <1>20. CASE TelemetryCleaned
    BY <1>20 DEF TelemetryCleaned, LeaveShield, LeaveShieldCarrying,
       CleanUpServer, fileVars
  <1>21. CASE TelemetryCleanupAbandoned
    BY <1>21 DEF TelemetryCleanupAbandoned, LeaveShieldCarrying, CleanUpServer, fileVars
  <1>22. CASE ServerCleaned
    BY <1>22 DEF ServerCleaned, LeaveShieldCarrying, Leftovers, fileVars
  <1>23. CASE ServerCleanupFails
    BY <1>23 DEF ServerCleanupFails, LeaveShield, LeaveShieldCarrying,
       Leftovers, fileVars
  <1>24. CASE Record
    BY <1>24 DEF Record, Settle, fileVars
  <1>25. CASE Save
    BY <1>25 DEF Save, Settle, Unsafe, fileVars
  <1>26. CASE Seal
    BY <1>26 DEF Seal, Settle, fileVars
  <1>27. CASE InterruptWork
    BY <1>27 DEF InterruptWork, Interrupted, fileVars
  <1>28. CASE InterruptTelemetryStart
    BY <1>28 DEF InterruptTelemetryStart, Interrupted, fileVars
  <1>29. CASE InterruptTelemetryStop
    BY <1>29 DEF InterruptTelemetryStop, Interrupted, fileVars
  <1>30. CASE DrainTelemetry
    BY <1>30 DEF DrainTelemetry, Resumes, fileVars
  <1>31. CASE InterruptDrain
    BY <1>31 DEF InterruptDrain, Interrupted, fileVars
  <1>32. CASE Cancel
    BY <1>32 DEF Cancel, fileVars
  <1>33. CASE TearDown
    BY <1>33 DEF TearDown, fileVars
  <1>34. CASE EngineExits
    BY <1>34 DEF EngineExits, fileVars
  <1>35. CASE Done
    BY <1>35 DEF Done, vars, fileVars
  <1>36. CASE UNCHANGED vars
    BY <1>36 DEF vars, fileVars
  <1> QED
    BY <1>1, <1>2, <1>3, <1>4, <1>5, <1>6, <1>7, <1>8, <1>9, <1>10, <1>11,
       <1>12, <1>13, <1>14, <1>15, <1>16, <1>17, <1>18, <1>19, <1>20, <1>21,
       <1>22, <1>23, <1>24, <1>25, <1>26, <1>27, <1>28, <1>29, <1>30, <1>31,
       <1>32, <1>33, <1>34, <1>35, <1>36
    DEF Next, RunTrial, Environment

\* The counters stay in their ranges.
LEMMA CountersStep == CountersOK /\ [Next]_vars => CountersOK'
  <1> SUFFICES ASSUME CountersOK, [Next]_vars
               PROVE  CountersOK'
    OBVIOUS
  <1> USE ConstantsAssumption DEF CountersOK
  <1>1. CASE Prepare
    BY <1>1 DEF Prepare, Transition, TransitionOr, Settle
  <1>2. CASE Launch
    BY <1>2 DEF Launch, Raise
  <1>3. CASE BecomeReady
    BY <1>3 DEF BecomeReady, Transition, TransitionOr, Raise, Resumes
  <1>4. CASE EnterWarmup
    BY <1>4 DEF EnterWarmup, Transition, TransitionOr, Raise
  <1>5. CASE FinishWarmup
    BY <1>5 DEF FinishWarmup, Transition, TransitionOr, Raise, Resumes
  <1>6. CASE EnterMeasure
    BY <1>6 DEF EnterMeasure
  <1>7. CASE StartTelemetry
    BY <1>7 DEF StartTelemetry, Raise, Resumes
  <1>8. CASE FinishBenchmark
    BY <1>8 DEF FinishBenchmark, Transition, TransitionOr, Raise, Resumes
  <1>9. CASE Collect
    BY <1>9 DEF Collect
  <1>10. CASE StopTelemetry
    BY <1>10 DEF StopTelemetry, Raise, Resumes
  <1>11. CASE Score
    BY <1>11 DEF Score, Raise, ServerAlive
  <1>12. CASE EnterStop
    BY <1>12 DEF EnterStop, Transition, TransitionOr
  <1>13. CASE ServerStopped
    BY <1>13 DEF ServerStopped, LeaveShield, Leftovers
  <1>14. CASE ServerStopRaises
    BY <1>14 DEF ServerStopRaises, LeaveShield, Leftovers, Raise
  <1>15. CASE ServerStopAbandoned
    BY <1>15 DEF ServerStopAbandoned, LeaveShield, Leftovers
  <1>16. CASE Conclude
    BY <1>16 DEF Conclude, Transition, TransitionOr
  <1>17. CASE HandleCancelled
    BY <1>17 DEF HandleCancelled, FailTrial, TransitionOr
  <1>18. CASE HandleException
    BY <1>18 DEF HandleException, FailTrial, TransitionOr
  <1>19. CASE EnterFinally
    BY <1>19 DEF EnterFinally, CleanUpServer
  <1>20. CASE TelemetryCleaned
    BY <1>20 DEF TelemetryCleaned, LeaveShield, LeaveShieldCarrying, CleanUpServer
  <1>21. CASE TelemetryCleanupAbandoned
    BY <1>21 DEF TelemetryCleanupAbandoned, LeaveShieldCarrying, CleanUpServer
  <1>22. CASE ServerCleaned
    BY <1>22 DEF ServerCleaned, LeaveShieldCarrying, Leftovers
  <1>23. CASE ServerCleanupFails
    BY <1>23 DEF ServerCleanupFails, LeaveShield, LeaveShieldCarrying, Leftovers
  <1>24. CASE Record
    BY <1>24 DEF Record, Settle
  <1>25. CASE Save
    BY <1>25 DEF Save, Settle, Unsafe
  <1>26. CASE Seal
    BY <1>26 DEF Seal, Settle
  <1>27. CASE InterruptWork
    BY <1>27 DEF InterruptWork, Interrupted
  <1>28. CASE InterruptTelemetryStart
    BY <1>28 DEF InterruptTelemetryStart, Interrupted
  <1>29. CASE InterruptTelemetryStop
    BY <1>29 DEF InterruptTelemetryStop, Interrupted
  <1>30. CASE DrainTelemetry
    BY <1>30 DEF DrainTelemetry, Resumes
  <1>31. CASE InterruptDrain
    BY <1>31 DEF InterruptDrain, Interrupted
  <1>32. CASE Cancel
    BY <1>32 DEF Cancel
  <1>33. CASE TearDown
    BY <1>33 DEF TearDown
  <1>34. CASE EngineExits
    BY <1>34 DEF EngineExits
  <1>35. CASE Done
    BY <1>35 DEF Done, vars
  <1>36. CASE UNCHANGED vars
    BY <1>36 DEF vars
  <1> QED
    BY <1>1, <1>2, <1>3, <1>4, <1>5, <1>6, <1>7, <1>8, <1>9, <1>10, <1>11,
       <1>12, <1>13, <1>14, <1>15, <1>16, <1>17, <1>18, <1>19, <1>20, <1>21,
       <1>22, <1>23, <1>24, <1>25, <1>26, <1>27, <1>28, <1>29, <1>30, <1>31,
       <1>32, <1>33, <1>34, <1>35, <1>36
    DEF Next, RunTrial, Environment

\* The result and the saved summary stay well formed.
LEMMA ResultsStep == PhasesOK /\ ResultsOK /\ [Next]_vars => ResultsOK'
  <1> SUFFICES ASSUME PhasesOK, ResultsOK, [Next]_vars
               PROVE  ResultsOK'
    OBVIOUS
  <1> USE ResultType, ResultExists DEF PhasesOK, ResultsOK
  <1>1. CASE Prepare
    BY <1>1 DEF Prepare, Transition, TransitionOr, Settle, fileVars
  <1>2. CASE Launch
    BY <1>2 DEF Launch, Raise, fileVars
  <1>3. CASE BecomeReady
    BY <1>3 DEF BecomeReady, Transition, TransitionOr, Raise, Resumes, fileVars
  <1>4. CASE EnterWarmup
    BY <1>4 DEF EnterWarmup, Transition, TransitionOr, Raise, fileVars
  <1>5. CASE FinishWarmup
    BY <1>5 DEF FinishWarmup, Transition, TransitionOr, Raise, Resumes, fileVars
  <1>6. CASE EnterMeasure
    BY <1>6 DEF EnterMeasure, fileVars
  <1>7. CASE StartTelemetry
    BY <1>7 DEF StartTelemetry, Raise, Resumes, fileVars
  <1>8. CASE FinishBenchmark
    BY <1>8 DEF FinishBenchmark, Transition, TransitionOr, Raise, Resumes, fileVars
  <1>9. CASE Collect
    BY <1>9 DEF Collect, fileVars
  <1>10. CASE StopTelemetry
    BY <1>10 DEF StopTelemetry, Raise, Resumes, fileVars
  <1>11. CASE Score
    BY <1>11 DEF Score, Raise, ServerAlive, fileVars
  <1>12. CASE EnterStop
    BY <1>12 DEF EnterStop, Transition, TransitionOr, fileVars
  <1>13. CASE ServerStopped
    BY <1>13 DEF ServerStopped, LeaveShield, Leftovers, fileVars
  <1>14. CASE ServerStopRaises
    BY <1>14 DEF ServerStopRaises, LeaveShield, Leftovers, Raise, fileVars
  <1>15. CASE ServerStopAbandoned
    BY <1>15 DEF ServerStopAbandoned, LeaveShield, Leftovers, fileVars
  <1>16. CASE Conclude
    BY <1>16 DEF Conclude, Transition, TransitionOr, Constraints, fileVars
  <1>17. CASE HandleCancelled
    BY <1>17 DEF HandleCancelled, FailTrial, TransitionOr, FailedResult, fileVars
  <1>18. CASE HandleException
    BY <1>18 DEF HandleException, FailTrial, TransitionOr, FailedResult, fileVars
  <1>19. CASE EnterFinally
    BY <1>19 DEF EnterFinally, CleanUpServer, fileVars
  <1>20. CASE TelemetryCleaned
    BY <1>20 DEF TelemetryCleaned, LeaveShield, LeaveShieldCarrying,
       CleanUpServer, fileVars
  <1>21. CASE TelemetryCleanupAbandoned
    BY <1>21 DEF TelemetryCleanupAbandoned, LeaveShieldCarrying, CleanUpServer, fileVars
  <1>22. CASE ServerCleaned
    BY <1>22 DEF ServerCleaned, LeaveShieldCarrying, Leftovers, fileVars
  <1>23. CASE ServerCleanupFails
    BY <1>23 DEF ServerCleanupFails, LeaveShield, LeaveShieldCarrying,
       Leftovers, fileVars
  <1>24. CASE Record
    BY <1>24 DEF Record, Settle, fileVars
  <1>25. CASE Save
    BY <1>25 DEF Save, Settle, Unsafe, fileVars
  <1>26. CASE Seal
    BY <1>26 DEF Seal, Settle, fileVars
  <1>27. CASE InterruptWork
    BY <1>27 DEF InterruptWork, Interrupted, fileVars
  <1>28. CASE InterruptTelemetryStart
    BY <1>28 DEF InterruptTelemetryStart, Interrupted, fileVars
  <1>29. CASE InterruptTelemetryStop
    BY <1>29 DEF InterruptTelemetryStop, Interrupted, fileVars
  <1>30. CASE DrainTelemetry
    BY <1>30 DEF DrainTelemetry, Resumes, fileVars
  <1>31. CASE InterruptDrain
    BY <1>31 DEF InterruptDrain, Interrupted, fileVars
  <1>32. CASE Cancel
    BY <1>32 DEF Cancel, fileVars
  <1>33. CASE TearDown
    BY <1>33 DEF TearDown, fileVars
  <1>34. CASE EngineExits
    BY <1>34 DEF EngineExits, fileVars
  <1>35. CASE Done
    BY <1>35 DEF Done, vars, fileVars
  <1>36. CASE UNCHANGED vars
    BY <1>36 DEF vars, fileVars
  <1> QED
    BY <1>1, <1>2, <1>3, <1>4, <1>5, <1>6, <1>7, <1>8, <1>9, <1>10, <1>11,
       <1>12, <1>13, <1>14, <1>15, <1>16, <1>17, <1>18, <1>19, <1>20, <1>21,
       <1>22, <1>23, <1>24, <1>25, <1>26, <1>27, <1>28, <1>29, <1>30, <1>31,
       <1>32, <1>33, <1>34, <1>35, <1>36
    DEF Next, RunTrial, Environment

\* A clean verdict stays true: the engine never comes back.
LEMMA VerdictStep == VerdictInv /\ [Next]_vars => VerdictInv'
  <1> SUFFICES ASSUME VerdictInv, [Next]_vars
               PROVE  VerdictInv'
    OBVIOUS
  <1> USE DEF VerdictInv, ServerGone, None
  <1>1. CASE Prepare
    BY <1>1 DEF Prepare, Transition, TransitionOr, Settle
  <1>2. CASE Launch
    BY <1>2 DEF Launch, Raise
  <1>3. CASE BecomeReady
    BY <1>3 DEF BecomeReady, Transition, TransitionOr, Raise, Resumes
  <1>4. CASE EnterWarmup
    BY <1>4 DEF EnterWarmup, Transition, TransitionOr, Raise
  <1>5. CASE FinishWarmup
    BY <1>5 DEF FinishWarmup, Transition, TransitionOr, Raise, Resumes
  <1>6. CASE EnterMeasure
    BY <1>6 DEF EnterMeasure
  <1>7. CASE StartTelemetry
    BY <1>7 DEF StartTelemetry, Raise, Resumes
  <1>8. CASE FinishBenchmark
    BY <1>8 DEF FinishBenchmark, Transition, TransitionOr, Raise, Resumes
  <1>9. CASE Collect
    BY <1>9 DEF Collect
  <1>10. CASE StopTelemetry
    BY <1>10 DEF StopTelemetry, Raise, Resumes
  <1>11. CASE Score
    BY <1>11 DEF Score, Raise, ServerAlive
  <1>12. CASE EnterStop
    BY <1>12 DEF EnterStop, Transition, TransitionOr
  <1>13. CASE ServerStopped
    BY <1>13 DEF ServerStopped, LeaveShield, Leftovers
  <1>14. CASE ServerStopRaises
    BY <1>14 DEF ServerStopRaises, LeaveShield, Leftovers, Raise
  <1>15. CASE ServerStopAbandoned
    BY <1>15 DEF ServerStopAbandoned, LeaveShield, Leftovers
  <1>16. CASE Conclude
    BY <1>16 DEF Conclude, Transition, TransitionOr
  <1>17. CASE HandleCancelled
    BY <1>17 DEF HandleCancelled, FailTrial, TransitionOr
  <1>18. CASE HandleException
    BY <1>18 DEF HandleException, FailTrial, TransitionOr
  <1>19. CASE EnterFinally
    BY <1>19 DEF EnterFinally, CleanUpServer
  <1>20. CASE TelemetryCleaned
    BY <1>20 DEF TelemetryCleaned, LeaveShield, LeaveShieldCarrying, CleanUpServer
  <1>21. CASE TelemetryCleanupAbandoned
    BY <1>21 DEF TelemetryCleanupAbandoned, LeaveShieldCarrying, CleanUpServer
  <1>22. CASE ServerCleaned
    BY <1>22 DEF ServerCleaned, LeaveShieldCarrying, Leftovers
  <1>23. CASE ServerCleanupFails
    BY <1>23 DEF ServerCleanupFails, LeaveShield, LeaveShieldCarrying, Leftovers
  <1>24. CASE Record
    BY <1>24 DEF Record, Settle
  <1>25. CASE Save
    BY <1>25 DEF Save, Settle, Unsafe
  <1>26. CASE Seal
    BY <1>26 DEF Seal, Settle
  <1>27. CASE InterruptWork
    BY <1>27 DEF InterruptWork, Interrupted
  <1>28. CASE InterruptTelemetryStart
    BY <1>28 DEF InterruptTelemetryStart, Interrupted
  <1>29. CASE InterruptTelemetryStop
    BY <1>29 DEF InterruptTelemetryStop, Interrupted
  <1>30. CASE DrainTelemetry
    BY <1>30 DEF DrainTelemetry, Resumes
  <1>31. CASE InterruptDrain
    BY <1>31 DEF InterruptDrain, Interrupted
  <1>32. CASE Cancel
    BY <1>32 DEF Cancel
  <1>33. CASE TearDown
    BY <1>33 DEF TearDown
  <1>34. CASE EngineExits
    BY <1>34 DEF EngineExits
  <1>35. CASE Done
    BY <1>35 DEF Done, vars
  <1>36. CASE UNCHANGED vars
    BY <1>36 DEF vars
  <1> QED
    BY <1>1, <1>2, <1>3, <1>4, <1>5, <1>6, <1>7, <1>8, <1>9, <1>10, <1>11,
       <1>12, <1>13, <1>14, <1>15, <1>16, <1>17, <1>18, <1>19, <1>20, <1>21,
       <1>22, <1>23, <1>24, <1>25, <1>26, <1>27, <1>28, <1>29, <1>30, <1>31,
       <1>32, <1>33, <1>34, <1>35, <1>36
    DEF Next, RunTrial, Environment

\* What has been measured is never lost on the way to the verdict.
LEMMA EvidenceStep == VerdictInv /\ EvidenceInv /\ [Next]_vars => EvidenceInv'
  <1> SUFFICES ASSUME VerdictInv, EvidenceInv, [Next]_vars
               PROVE  EvidenceInv'
    OBVIOUS
  <1> USE DEF EvidenceInv, VerdictInv, Measured, BeforeScore, None
  <1>1. CASE Prepare
    BY <1>1 DEF Prepare, Transition, TransitionOr, Settle
  <1>2. CASE Launch
    BY <1>2 DEF Launch, Raise
  <1>3. CASE BecomeReady
    BY <1>3 DEF BecomeReady, Transition, TransitionOr, Raise, Resumes
  <1>4. CASE EnterWarmup
    BY <1>4 DEF EnterWarmup, Transition, TransitionOr, Raise
  <1>5. CASE FinishWarmup
    BY <1>5 DEF FinishWarmup, Transition, TransitionOr, Raise, Resumes
  <1>6. CASE EnterMeasure
    BY <1>6 DEF EnterMeasure
  <1>7. CASE StartTelemetry
    BY <1>7 DEF StartTelemetry, Raise, Resumes
  <1>8. CASE FinishBenchmark
    BY <1>8 DEF FinishBenchmark, Transition, TransitionOr, Raise, Resumes
  <1>9. CASE Collect
    BY <1>9 DEF Collect
  <1>10. CASE StopTelemetry
    BY <1>10 DEF StopTelemetry, Raise, Resumes
  <1>11. CASE Score
    BY <1>11 DEF Score, Raise, ServerAlive
  <1>12. CASE EnterStop
    BY <1>12 DEF EnterStop, Transition, TransitionOr
  <1>13. CASE ServerStopped
    BY <1>13 DEF ServerStopped, LeaveShield, Leftovers
  <1>14. CASE ServerStopRaises
    BY <1>14 DEF ServerStopRaises, LeaveShield, Leftovers, Raise
  <1>15. CASE ServerStopAbandoned
    BY <1>15 DEF ServerStopAbandoned, LeaveShield, Leftovers
  <1>16. CASE Conclude
    BY <1>16 DEF Conclude, Transition, TransitionOr
  <1>17. CASE HandleCancelled
    BY <1>17 DEF HandleCancelled, FailTrial, TransitionOr
  <1>18. CASE HandleException
    BY <1>18 DEF HandleException, FailTrial, TransitionOr
  <1>19. CASE EnterFinally
    BY <1>19 DEF EnterFinally, CleanUpServer
  <1>20. CASE TelemetryCleaned
    BY <1>20 DEF TelemetryCleaned, LeaveShield, LeaveShieldCarrying, CleanUpServer
  <1>21. CASE TelemetryCleanupAbandoned
    BY <1>21 DEF TelemetryCleanupAbandoned, LeaveShieldCarrying, CleanUpServer
  <1>22. CASE ServerCleaned
    BY <1>22 DEF ServerCleaned, LeaveShieldCarrying, Leftovers
  <1>23. CASE ServerCleanupFails
    BY <1>23 DEF ServerCleanupFails, LeaveShield, LeaveShieldCarrying, Leftovers
  <1>24. CASE Record
    BY <1>24 DEF Record, Settle
  <1>25. CASE Save
    BY <1>25 DEF Save, Settle, Unsafe
  <1>26. CASE Seal
    BY <1>26 DEF Seal, Settle
  <1>27. CASE InterruptWork
    BY <1>27 DEF InterruptWork, Interrupted
  <1>28. CASE InterruptTelemetryStart
    BY <1>28 DEF InterruptTelemetryStart, Interrupted
  <1>29. CASE InterruptTelemetryStop
    BY <1>29 DEF InterruptTelemetryStop, Interrupted
  <1>30. CASE DrainTelemetry
    BY <1>30 DEF DrainTelemetry, Resumes
  <1>31. CASE InterruptDrain
    BY <1>31 DEF InterruptDrain, Interrupted
  <1>32. CASE Cancel
    BY <1>32 DEF Cancel
  <1>33. CASE TearDown
    BY <1>33 DEF TearDown
  <1>34. CASE EngineExits
    BY <1>34 DEF EngineExits
  <1>35. CASE Done
    BY <1>35 DEF Done, vars
  <1>36. CASE UNCHANGED vars
    BY <1>36 DEF vars
  <1> QED
    BY <1>1, <1>2, <1>3, <1>4, <1>5, <1>6, <1>7, <1>8, <1>9, <1>10, <1>11,
       <1>12, <1>13, <1>14, <1>15, <1>16, <1>17, <1>18, <1>19, <1>20, <1>21,
       <1>22, <1>23, <1>24, <1>25, <1>26, <1>27, <1>28, <1>29, <1>30, <1>31,
       <1>32, <1>33, <1>34, <1>35, <1>36
    DEF Next, RunTrial, Environment

\* A result that is not FAILED stays backed by the evidence.
LEMMA ResultStep == TypeOK /\ ResultInv /\ VerdictInv /\ EvidenceInv /\ [Next]_vars => ResultInv'
  <1> SUFFICES ASSUME TypeOK, ResultInv, VerdictInv, EvidenceInv, [Next]_vars
               PROVE  ResultInv'
    OBVIOUS
  <1> USE ResultType, ResultFields, ResultExists, NoResultFields DEF ResultInv,
          EvidenceInv, VerdictInv, Measured, Constraints, None
  <1>1. CASE Prepare
    BY <1>1 DEF Prepare, Transition, TransitionOr, Settle, fileVars
  <1>2. CASE Launch
    BY <1>2 DEF Launch, Raise, fileVars
  <1>3. CASE BecomeReady
    BY <1>3 DEF BecomeReady, Transition, TransitionOr, Raise, Resumes, fileVars
  <1>4. CASE EnterWarmup
    BY <1>4 DEF EnterWarmup, Transition, TransitionOr, Raise, fileVars
  <1>5. CASE FinishWarmup
    BY <1>5 DEF FinishWarmup, Transition, TransitionOr, Raise, Resumes, fileVars
  <1>6. CASE EnterMeasure
    BY <1>6 DEF EnterMeasure, fileVars
  <1>7. CASE StartTelemetry
    BY <1>7 DEF StartTelemetry, Raise, Resumes, fileVars
  <1>8. CASE FinishBenchmark
    BY <1>8 DEF FinishBenchmark, Transition, TransitionOr, Raise, Resumes, fileVars
  <1>9. CASE Collect
    BY <1>9 DEF Collect, fileVars
  <1>10. CASE StopTelemetry
    BY <1>10 DEF StopTelemetry, Raise, Resumes, fileVars
  <1>11. CASE Score
    BY <1>11 DEF Score, Raise, ServerAlive, fileVars
  <1>12. CASE EnterStop
    BY <1>12 DEF EnterStop, Transition, TransitionOr, fileVars
  <1>13. CASE ServerStopped
    BY <1>13 DEF ServerStopped, LeaveShield, Leftovers, fileVars
  <1>14. CASE ServerStopRaises
    BY <1>14 DEF ServerStopRaises, LeaveShield, Leftovers, Raise, fileVars
  <1>15. CASE ServerStopAbandoned
    BY <1>15 DEF ServerStopAbandoned, LeaveShield, Leftovers, fileVars
  <1>16. CASE Conclude
    BY <1>16 DEF Conclude, Transition, TransitionOr, Constraints, fileVars
  <1>17. CASE HandleCancelled
    BY <1>17 DEF HandleCancelled, FailTrial, TransitionOr, FailedResult, fileVars
  <1>18. CASE HandleException
    BY <1>18 DEF HandleException, FailTrial, TransitionOr, FailedResult, fileVars
  <1>19. CASE EnterFinally
    BY <1>19 DEF EnterFinally, CleanUpServer, fileVars
  <1>20. CASE TelemetryCleaned
    BY <1>20 DEF TelemetryCleaned, LeaveShield, LeaveShieldCarrying,
       CleanUpServer, fileVars
  <1>21. CASE TelemetryCleanupAbandoned
    BY <1>21 DEF TelemetryCleanupAbandoned, LeaveShieldCarrying, CleanUpServer, fileVars
  <1>22. CASE ServerCleaned
    BY <1>22 DEF ServerCleaned, LeaveShieldCarrying, Leftovers, fileVars
  <1>23. CASE ServerCleanupFails
    BY <1>23 DEF ServerCleanupFails, LeaveShield, LeaveShieldCarrying,
       Leftovers, fileVars
  <1>24. CASE Record
    BY <1>24 DEF Record, Settle, fileVars
  <1>25. CASE Save
    BY <1>25 DEF Save, Settle, Unsafe, fileVars
  <1>26. CASE Seal
    BY <1>26 DEF Seal, Settle, fileVars
  <1>27. CASE InterruptWork
    BY <1>27 DEF InterruptWork, Interrupted, fileVars
  <1>28. CASE InterruptTelemetryStart
    BY <1>28 DEF InterruptTelemetryStart, Interrupted, fileVars
  <1>29. CASE InterruptTelemetryStop
    BY <1>29 DEF InterruptTelemetryStop, Interrupted, fileVars
  <1>30. CASE DrainTelemetry
    BY <1>30 DEF DrainTelemetry, Resumes, fileVars
  <1>31. CASE InterruptDrain
    BY <1>31 DEF InterruptDrain, Interrupted, fileVars
  <1>32. CASE Cancel
    BY <1>32 DEF Cancel, fileVars
  <1>33. CASE TearDown
    BY <1>33 DEF TearDown, fileVars
  <1>34. CASE EngineExits
    BY <1>34 DEF EngineExits, fileVars
  <1>35. CASE Done
    BY <1>35 DEF Done, vars, fileVars
  <1>36. CASE UNCHANGED vars
    BY <1>36 DEF vars, fileVars
  <1> QED
    BY <1>1, <1>2, <1>3, <1>4, <1>5, <1>6, <1>7, <1>8, <1>9, <1>10, <1>11,
       <1>12, <1>13, <1>14, <1>15, <1>16, <1>17, <1>18, <1>19, <1>20, <1>21,
       <1>22, <1>23, <1>24, <1>25, <1>26, <1>27, <1>28, <1>29, <1>30, <1>31,
       <1>32, <1>33, <1>34, <1>35, <1>36
    DEF Next, RunTrial, Environment

\* The session samples only between its start and its stop.
LEMMA TelemetryStep == TelemetryInv /\ ResultInv /\ [Next]_vars => TelemetryInv'
  <1> SUFFICES ASSUME TelemetryInv, ResultInv, [Next]_vars
               PROVE  TelemetryInv'
    OBVIOUS
  <1> USE ResultType, ResultFields, ResultExists, NoResultFields DEF TelemetryInv,
          ResultInv, None
  <1>1. CASE Prepare
    BY <1>1 DEF Prepare, Transition, TransitionOr, Settle
  <1>2. CASE Launch
    BY <1>2 DEF Launch, Raise
  <1>3. CASE BecomeReady
    BY <1>3 DEF BecomeReady, Transition, TransitionOr, Raise, Resumes
  <1>4. CASE EnterWarmup
    BY <1>4 DEF EnterWarmup, Transition, TransitionOr, Raise
  <1>5. CASE FinishWarmup
    BY <1>5 DEF FinishWarmup, Transition, TransitionOr, Raise, Resumes
  <1>6. CASE EnterMeasure
    BY <1>6 DEF EnterMeasure
  <1>7. CASE StartTelemetry
    BY <1>7 DEF StartTelemetry, Raise, Resumes
  <1>8. CASE FinishBenchmark
    BY <1>8 DEF FinishBenchmark, Transition, TransitionOr, Raise, Resumes
  <1>9. CASE Collect
    BY <1>9 DEF Collect
  <1>10. CASE StopTelemetry
    BY <1>10 DEF StopTelemetry, Raise, Resumes
  <1>11. CASE Score
    BY <1>11 DEF Score, Raise, ServerAlive
  <1>12. CASE EnterStop
    BY <1>12 DEF EnterStop, Transition, TransitionOr
  <1>13. CASE ServerStopped
    BY <1>13 DEF ServerStopped, LeaveShield, Leftovers
  <1>14. CASE ServerStopRaises
    BY <1>14 DEF ServerStopRaises, LeaveShield, Leftovers, Raise
  <1>15. CASE ServerStopAbandoned
    BY <1>15 DEF ServerStopAbandoned, LeaveShield, Leftovers
  <1>16. CASE Conclude
    BY <1>16 DEF Conclude, Transition, TransitionOr, Constraints
  <1>17. CASE HandleCancelled
    BY <1>17 DEF HandleCancelled, FailTrial, TransitionOr, FailedResult
  <1>18. CASE HandleException
    BY <1>18 DEF HandleException, FailTrial, TransitionOr, FailedResult
  <1>19. CASE EnterFinally
    BY <1>19 DEF EnterFinally, CleanUpServer
  <1>20. CASE TelemetryCleaned
    BY <1>20 DEF TelemetryCleaned, LeaveShield, LeaveShieldCarrying, CleanUpServer
  <1>21. CASE TelemetryCleanupAbandoned
    BY <1>21 DEF TelemetryCleanupAbandoned, LeaveShieldCarrying, CleanUpServer
  <1>22. CASE ServerCleaned
    BY <1>22 DEF ServerCleaned, LeaveShieldCarrying, Leftovers
  <1>23. CASE ServerCleanupFails
    BY <1>23 DEF ServerCleanupFails, LeaveShield, LeaveShieldCarrying, Leftovers
  <1>24. CASE Record
    BY <1>24 DEF Record, Settle
  <1>25. CASE Save
    BY <1>25 DEF Save, Settle, Unsafe
  <1>26. CASE Seal
    BY <1>26 DEF Seal, Settle
  <1>27. CASE InterruptWork
    BY <1>27 DEF InterruptWork, Interrupted
  <1>28. CASE InterruptTelemetryStart
    BY <1>28 DEF InterruptTelemetryStart, Interrupted
  <1>29. CASE InterruptTelemetryStop
    BY <1>29 DEF InterruptTelemetryStop, Interrupted
  <1>30. CASE DrainTelemetry
    BY <1>30 DEF DrainTelemetry, Resumes
  <1>31. CASE InterruptDrain
    BY <1>31 DEF InterruptDrain, Interrupted
  <1>32. CASE Cancel
    BY <1>32 DEF Cancel
  <1>33. CASE TearDown
    BY <1>33 DEF TearDown
  <1>34. CASE EngineExits
    BY <1>34 DEF EngineExits
  <1>35. CASE Done
    BY <1>35 DEF Done, vars
  <1>36. CASE UNCHANGED vars
    BY <1>36 DEF vars
  <1> QED
    BY <1>1, <1>2, <1>3, <1>4, <1>5, <1>6, <1>7, <1>8, <1>9, <1>10, <1>11,
       <1>12, <1>13, <1>14, <1>15, <1>16, <1>17, <1>18, <1>19, <1>20, <1>21,
       <1>22, <1>23, <1>24, <1>25, <1>26, <1>27, <1>28, <1>29, <1>30, <1>31,
       <1>32, <1>33, <1>34, <1>35, <1>36
    DEF Next, RunTrial, Environment

\* The trial ends as its fault assumptions allow.
LEMMA EndStep == TypeOK /\ EndInv /\ VerdictInv /\ ResultInv /\ [Next]_vars => EndInv'
  <1> SUFFICES ASSUME TypeOK, EndInv, VerdictInv, ResultInv, [Next]_vars
               PROVE  EndInv'
    OBVIOUS
  <1> USE ResultType, ResultFields, ResultExists, NoResultFields DEF EndInv,
          VerdictInv, ResultInv, Settled, None
  <1>1. CASE Prepare
    BY <1>1 DEF Prepare, Transition, TransitionOr, Settle
  <1>2. CASE Launch
    BY <1>2 DEF Launch, Raise
  <1>3. CASE BecomeReady
    BY <1>3 DEF BecomeReady, Transition, TransitionOr, Raise, Resumes
  <1>4. CASE EnterWarmup
    BY <1>4 DEF EnterWarmup, Transition, TransitionOr, Raise
  <1>5. CASE FinishWarmup
    BY <1>5 DEF FinishWarmup, Transition, TransitionOr, Raise, Resumes
  <1>6. CASE EnterMeasure
    BY <1>6 DEF EnterMeasure
  <1>7. CASE StartTelemetry
    BY <1>7 DEF StartTelemetry, Raise, Resumes
  <1>8. CASE FinishBenchmark
    BY <1>8 DEF FinishBenchmark, Transition, TransitionOr, Raise, Resumes
  <1>9. CASE Collect
    BY <1>9 DEF Collect
  <1>10. CASE StopTelemetry
    BY <1>10 DEF StopTelemetry, Raise, Resumes
  <1>11. CASE Score
    BY <1>11 DEF Score, Raise, ServerAlive
  <1>12. CASE EnterStop
    BY <1>12 DEF EnterStop, Transition, TransitionOr
  <1>13. CASE ServerStopped
    BY <1>13 DEF ServerStopped, LeaveShield, Leftovers
  <1>14. CASE ServerStopRaises
    BY <1>14 DEF ServerStopRaises, LeaveShield, Leftovers, Raise
  <1>15. CASE ServerStopAbandoned
    BY <1>15 DEF ServerStopAbandoned, LeaveShield, Leftovers
  <1>16. CASE Conclude
    BY <1>16 DEF Conclude, Transition, TransitionOr, Constraints
  <1>17. CASE HandleCancelled
    BY <1>17 DEF HandleCancelled, FailTrial, TransitionOr, FailedResult
  <1>18. CASE HandleException
    BY <1>18 DEF HandleException, FailTrial, TransitionOr, FailedResult
  <1>19. CASE EnterFinally
    BY <1>19 DEF EnterFinally, CleanUpServer
  <1>20. CASE TelemetryCleaned
    BY <1>20 DEF TelemetryCleaned, LeaveShield, LeaveShieldCarrying, CleanUpServer
  <1>21. CASE TelemetryCleanupAbandoned
    BY <1>21 DEF TelemetryCleanupAbandoned, LeaveShieldCarrying, CleanUpServer
  <1>22. CASE ServerCleaned
    BY <1>22 DEF ServerCleaned, LeaveShieldCarrying, Leftovers
  <1>23. CASE ServerCleanupFails
    BY <1>23 DEF ServerCleanupFails, LeaveShield, LeaveShieldCarrying, Leftovers
  <1>24. CASE Record
    BY <1>24 DEF Record, Settle
  <1>25. CASE Save
    BY <1>25 DEF Save, Settle, Unsafe
  <1>26. CASE Seal
    BY <1>26 DEF Seal, Settle
  <1>27. CASE InterruptWork
    BY <1>27 DEF InterruptWork, Interrupted
  <1>28. CASE InterruptTelemetryStart
    BY <1>28 DEF InterruptTelemetryStart, Interrupted
  <1>29. CASE InterruptTelemetryStop
    BY <1>29 DEF InterruptTelemetryStop, Interrupted
  <1>30. CASE DrainTelemetry
    BY <1>30 DEF DrainTelemetry, Resumes
  <1>31. CASE InterruptDrain
    BY <1>31 DEF InterruptDrain, Interrupted
  <1>32. CASE Cancel
    BY <1>32 DEF Cancel
  <1>33. CASE TearDown
    BY <1>33 DEF TearDown
  <1>34. CASE EngineExits
    BY <1>34 DEF EngineExits
  <1>35. CASE Done
    BY <1>35 DEF Done, vars
  <1>36. CASE UNCHANGED vars
    BY <1>36 DEF vars
  <1> QED
    BY <1>1, <1>2, <1>3, <1>4, <1>5, <1>6, <1>7, <1>8, <1>9, <1>10, <1>11,
       <1>12, <1>13, <1>14, <1>15, <1>16, <1>17, <1>18, <1>19, <1>20, <1>21,
       <1>22, <1>23, <1>24, <1>25, <1>26, <1>27, <1>28, <1>29, <1>30, <1>31,
       <1>32, <1>33, <1>34, <1>35, <1>36
    DEF Next, RunTrial, Environment

\* A cancellation is never lost unless a cleanup raises.
LEMMA CancelStep == CountersOK /\ EndInv /\ CancelInv /\ [Next]_vars => CancelInv'
  <1> SUFFICES ASSUME CountersOK, EndInv, CancelInv, [Next]_vars
               PROVE  CancelInv'
    OBVIOUS
  <1> USE ConstantsAssumption DEF EndInv, Settled, CancelInv, CountersOK,
          OpenAwaits, ShieldedAwaits
  <1>1. CASE Prepare
    BY <1>1 DEF Prepare, Transition, TransitionOr, Settle
  <1>2. CASE Launch
    BY <1>2 DEF Launch, Raise
  <1>3. CASE BecomeReady
    BY <1>3 DEF BecomeReady, Transition, TransitionOr, Raise, Resumes
  <1>4. CASE EnterWarmup
    BY <1>4 DEF EnterWarmup, Transition, TransitionOr, Raise
  <1>5. CASE FinishWarmup
    BY <1>5 DEF FinishWarmup, Transition, TransitionOr, Raise, Resumes
  <1>6. CASE EnterMeasure
    BY <1>6 DEF EnterMeasure
  <1>7. CASE StartTelemetry
    BY <1>7 DEF StartTelemetry, Raise, Resumes
  <1>8. CASE FinishBenchmark
    BY <1>8 DEF FinishBenchmark, Transition, TransitionOr, Raise, Resumes
  <1>9. CASE Collect
    BY <1>9 DEF Collect
  <1>10. CASE StopTelemetry
    BY <1>10 DEF StopTelemetry, Raise, Resumes
  <1>11. CASE Score
    BY <1>11 DEF Score, Raise, ServerAlive
  <1>12. CASE EnterStop
    BY <1>12 DEF EnterStop, Transition, TransitionOr
  <1>13. CASE ServerStopped
    BY <1>13 DEF ServerStopped, LeaveShield, Leftovers
  <1>14. CASE ServerStopRaises
    BY <1>14 DEF ServerStopRaises, LeaveShield, Leftovers, Raise
  <1>15. CASE ServerStopAbandoned
    BY <1>15 DEF ServerStopAbandoned, LeaveShield, Leftovers
  <1>16. CASE Conclude
    BY <1>16 DEF Conclude, Transition, TransitionOr
  <1>17. CASE HandleCancelled
    BY <1>17 DEF HandleCancelled, FailTrial, TransitionOr
  <1>18. CASE HandleException
    BY <1>18 DEF HandleException, FailTrial, TransitionOr
  <1>19. CASE EnterFinally
    BY <1>19 DEF EnterFinally, CleanUpServer
  <1>20. CASE TelemetryCleaned
    BY <1>20 DEF TelemetryCleaned, LeaveShield, LeaveShieldCarrying, CleanUpServer
  <1>21. CASE TelemetryCleanupAbandoned
    BY <1>21 DEF TelemetryCleanupAbandoned, LeaveShieldCarrying, CleanUpServer
  <1>22. CASE ServerCleaned
    BY <1>22 DEF ServerCleaned, LeaveShieldCarrying, Leftovers
  <1>23. CASE ServerCleanupFails
    BY <1>23 DEF ServerCleanupFails, LeaveShield, LeaveShieldCarrying, Leftovers
  <1>24. CASE Record
    BY <1>24 DEF Record, Settle
  <1>25. CASE Save
    BY <1>25 DEF Save, Settle, Unsafe
  <1>26. CASE Seal
    BY <1>26 DEF Seal, Settle
  <1>27. CASE InterruptWork
    BY <1>27 DEF InterruptWork, Interrupted
  <1>28. CASE InterruptTelemetryStart
    BY <1>28 DEF InterruptTelemetryStart, Interrupted
  <1>29. CASE InterruptTelemetryStop
    BY <1>29 DEF InterruptTelemetryStop, Interrupted
  <1>30. CASE DrainTelemetry
    BY <1>30 DEF DrainTelemetry, Resumes
  <1>31. CASE InterruptDrain
    BY <1>31 DEF InterruptDrain, Interrupted
  <1>32. CASE Cancel
    BY <1>32 DEF Cancel
  <1>33. CASE TearDown
    BY <1>33 DEF TearDown
  <1>34. CASE EngineExits
    BY <1>34 DEF EngineExits
  <1>35. CASE Done
    BY <1>35 DEF Done, vars
  <1>36. CASE UNCHANGED vars
    BY <1>36 DEF vars
  <1> QED
    BY <1>1, <1>2, <1>3, <1>4, <1>5, <1>6, <1>7, <1>8, <1>9, <1>10, <1>11,
       <1>12, <1>13, <1>14, <1>15, <1>16, <1>17, <1>18, <1>19, <1>20, <1>21,
       <1>22, <1>23, <1>24, <1>25, <1>26, <1>27, <1>28, <1>29, <1>30, <1>31,
       <1>32, <1>33, <1>34, <1>35, <1>36
    DEF Next, RunTrial, Environment

\* An aborted trial is sealed as a FAILED one.
LEMMA SealStep == TypeOK /\ SealInv /\ VerdictInv /\ ResultInv /\ TelemetryInv /\ EndInv /\ [Next]_vars => SealInv'
  <1> SUFFICES ASSUME TypeOK, SealInv, VerdictInv, ResultInv, TelemetryInv, EndInv, [Next]_vars
               PROVE  SealInv'
    OBVIOUS
  <1> USE ResultType, ResultFields, ResultExists, NoResultFields DEF TypeOK,
          ResultsOK, SealInv, VerdictInv, ResultInv, TelemetryInv, EndInv,
          Settled, None
  <1>1. CASE Prepare
    BY <1>1 DEF Prepare, Transition, TransitionOr, Settle, fileVars
  <1>2. CASE Launch
    BY <1>2 DEF Launch, Raise, fileVars
  <1>3. CASE BecomeReady
    BY <1>3 DEF BecomeReady, Transition, TransitionOr, Raise, Resumes, fileVars
  <1>4. CASE EnterWarmup
    BY <1>4 DEF EnterWarmup, Transition, TransitionOr, Raise, fileVars
  <1>5. CASE FinishWarmup
    BY <1>5 DEF FinishWarmup, Transition, TransitionOr, Raise, Resumes, fileVars
  <1>6. CASE EnterMeasure
    BY <1>6 DEF EnterMeasure, fileVars
  <1>7. CASE StartTelemetry
    BY <1>7 DEF StartTelemetry, Raise, Resumes, fileVars
  <1>8. CASE FinishBenchmark
    BY <1>8 DEF FinishBenchmark, Transition, TransitionOr, Raise, Resumes, fileVars
  <1>9. CASE Collect
    BY <1>9 DEF Collect, fileVars
  <1>10. CASE StopTelemetry
    BY <1>10 DEF StopTelemetry, Raise, Resumes, fileVars
  <1>11. CASE Score
    BY <1>11 DEF Score, Raise, ServerAlive, fileVars
  <1>12. CASE EnterStop
    BY <1>12 DEF EnterStop, Transition, TransitionOr, fileVars
  <1>13. CASE ServerStopped
    BY <1>13 DEF ServerStopped, LeaveShield, Leftovers, fileVars
  <1>14. CASE ServerStopRaises
    BY <1>14 DEF ServerStopRaises, LeaveShield, Leftovers, Raise, fileVars
  <1>15. CASE ServerStopAbandoned
    BY <1>15 DEF ServerStopAbandoned, LeaveShield, Leftovers, fileVars
  <1>16. CASE Conclude
    BY <1>16 DEF Conclude, Transition, TransitionOr, Constraints, fileVars
  <1>17. CASE HandleCancelled
    BY <1>17 DEF HandleCancelled, FailTrial, TransitionOr, FailedResult, fileVars
  <1>18. CASE HandleException
    BY <1>18 DEF HandleException, FailTrial, TransitionOr, FailedResult, fileVars
  <1>19. CASE EnterFinally
    BY <1>19 DEF EnterFinally, CleanUpServer, fileVars
  <1>20. CASE TelemetryCleaned
    BY <1>20 DEF TelemetryCleaned, LeaveShield, LeaveShieldCarrying,
       CleanUpServer, fileVars
  <1>21. CASE TelemetryCleanupAbandoned
    BY <1>21 DEF TelemetryCleanupAbandoned, LeaveShieldCarrying, CleanUpServer, fileVars
  <1>22. CASE ServerCleaned
    BY <1>22 DEF ServerCleaned, LeaveShieldCarrying, Leftovers, fileVars
  <1>23. CASE ServerCleanupFails
    BY <1>23 DEF ServerCleanupFails, LeaveShield, LeaveShieldCarrying,
       Leftovers, fileVars
  <1>24. CASE Record
    BY <1>24 DEF Record, Settle, fileVars
  <1>25. CASE Save
    BY <1>25 DEF Save, Settle, Unsafe, fileVars
  <1>26. CASE Seal
    BY <1>26 DEF Seal, Settle, fileVars
  <1>27. CASE InterruptWork
    BY <1>27 DEF InterruptWork, Interrupted, fileVars
  <1>28. CASE InterruptTelemetryStart
    BY <1>28 DEF InterruptTelemetryStart, Interrupted, fileVars
  <1>29. CASE InterruptTelemetryStop
    BY <1>29 DEF InterruptTelemetryStop, Interrupted, fileVars
  <1>30. CASE DrainTelemetry
    BY <1>30 DEF DrainTelemetry, Resumes, fileVars
  <1>31. CASE InterruptDrain
    BY <1>31 DEF InterruptDrain, Interrupted, fileVars
  <1>32. CASE Cancel
    BY <1>32 DEF Cancel, fileVars
  <1>33. CASE TearDown
    BY <1>33 DEF TearDown, fileVars
  <1>34. CASE EngineExits
    BY <1>34 DEF EngineExits, fileVars
  <1>35. CASE Done
    BY <1>35 DEF Done, vars, fileVars
  <1>36. CASE UNCHANGED vars
    BY <1>36 DEF vars, fileVars
  <1> QED
    BY <1>1, <1>2, <1>3, <1>4, <1>5, <1>6, <1>7, <1>8, <1>9, <1>10, <1>11,
       <1>12, <1>13, <1>14, <1>15, <1>16, <1>17, <1>18, <1>19, <1>20, <1>21,
       <1>22, <1>23, <1>24, <1>25, <1>26, <1>27, <1>28, <1>29, <1>30, <1>31,
       <1>32, <1>33, <1>34, <1>35, <1>36
    DEF Next, RunTrial, Environment

-----------------------------------------------------------------------------
(* The invariant.                                                          *)

\* The initial states satisfy it.
LEMMA InvariantInit == Init => IInv
  <1> SUFFICES ASSUME Init PROVE IInv
    OBVIOUS
  <1> USE DEF Init, None
  <1>1. FlagsOK
    BY DEF FlagsOK
  <1>2. PhasesOK
    BY DEF PhasesOK, Awaits, Segments, TrialStatus, Verdicts
  <1>3. ResultsOK /\ CountersOK
    BY ConstantsAssumption DEF ResultsOK, CountersOK, ConstantsAssumption
  <1>4. VerdictInv /\ EvidenceInv /\ CancelInv
    BY DEF VerdictInv, EvidenceInv, BeforeScore, CancelInv
  <1>5. ResultInv /\ TelemetryInv /\ SealInv
    BY NoResultFields DEF ResultInv, TelemetryInv, SealInv
  <1>6. EndInv
    BY DEF EndInv, Settled
  <1> QED
    BY <1>1, <1>2, <1>3, <1>4, <1>5, <1>6 DEF IInv, TypeOK

\* Every step preserves it.
LEMMA InvariantStep == IInv /\ [Next]_vars => IInv'
  <1> SUFFICES ASSUME IInv, [Next]_vars PROVE IInv'
    OBVIOUS
  <1>1. TypeOK'
    BY FlagsStep, PhasesStep, ResultsStep, CountersStep DEF IInv, TypeOK
  <1>2. (VerdictInv /\ EvidenceInv /\ ResultInv /\ TelemetryInv)'
    BY VerdictStep, EvidenceStep, ResultStep, TelemetryStep DEF IInv
  <1>3. (EndInv /\ CancelInv /\ SealInv)'
    BY EndStep, CancelStep, SealStep DEF IInv, TypeOK
  <1> QED
    BY <1>1, <1>2, <1>3 DEF IInv

\* What each part of run_trial relies on holds whenever that part is reached.
THEOREM Invariant == Spec => []IInv
  BY InvariantInit, InvariantStep, PTL DEF Spec

\* Every variable keeps its type.
THEOREM TypeCorrect == Spec => []TypeOK
  <1>1. IInv => TypeOK
    BY DEF IInv
  <1> QED
    BY Invariant, <1>1, PTL

-----------------------------------------------------------------------------
(* Safety properties.                                                      *)

\* A trial handed back as a result has left nothing on the GPU, the port or in
\* the process table, whichever writes and cleanups failed.
THEOREM ReturnedIsClean == Spec => []ReturnLeavesNothing
  <1>1. IInv => ReturnLeavesNothing
    BY DEF IInv, EndInv, VerdictInv, ReturnLeavesNothing
  <1> QED
    BY Invariant, <1>1, PTL

\* A summary the search may select is backed by a whole measurement on a
\* server that was alive until the objective was read and is gone now.
THEOREM SelectedIsMeasured == Spec => []SelectableIsMeasured
  <1>1. IInv => SelectableIsMeasured
    <2> SUFFICES ASSUME IInv, Selectable(summary)
                 PROVE  Measured /\ engine = "released" /\ "feasible" \in evidence
      BY DEF SelectableIsMeasured, Measured
    <2>1. summary = result
      BY NoResultFields DEF IInv, ResultInv, Selectable, None
    <2>2. Measured /\ engine = "released" /\ result.constraints = Constraints
      BY <2>1 DEF IInv, ResultInv, Selectable
    <2> QED
      BY <2>1, <2>2 DEF Selectable, Constraints
  <1> QED
    BY Invariant, <1>1, PTL

\* A trial that aborts the search has a sealed, FAILED, infeasible summary.
THEOREM AbortedSealed == Spec => []AbortedIsSealed
  <1>1. IInv => AbortedIsSealed
    BY DEF IInv, SealInv, AbortedIsSealed
  <1> QED
    BY Invariant, <1>1, PTL

\* When the trial directory can be written, a server that could not be verified
\* gone always ends the search, even if server.stop raises.
THEOREM UnsafeEndsSearch ==
  ASSUME ~DiskFaults
  PROVE  Spec => []UnsafeIsFatal
  <1>1. IInv => UnsafeIsFatal
    BY DEF IInv, TypeOK, PhasesOK, EndInv, VerdictInv, UnsafeIsFatal
  <1> QED
    BY Invariant, <1>1, PTL

\* When neither writes nor cleanups fail, a trial that was cancelled ends by
\* raising CancelledError.
THEOREM CancelledEndsSearch ==
  ASSUME ~DiskFaults, ~CleanupFaults
  PROVE  Spec => []CancellationSurvives
  <1>1. IInv => CancellationSurvives
    <2> SUFFICES ASSUME IInv, Settled, made # 0
                 PROVE  outcome = "cancelled"
      BY DEF CancellationSurvives
    <2>1. outcome \notin {"running", "error"}
      BY DEF IInv, EndInv
    <2>2. "carried" \in cancel
      BY <2>1 DEF IInv, CancelInv, Settled, OpenAwaits, ShieldedAwaits
    <2>3. outcome \notin {"returned", "unsafe"}
      BY <2>2 DEF IInv, CancelInv
    <2> QED
      BY <2>1, <2>3 DEF IInv, TypeOK, PhasesOK
  <1> QED
    BY Invariant, <1>1, PTL

\* When no cleanup raises, a trial that was cancelled hands no result back to the
\* search, whatever becomes of its directory: if it does not end with
\* CancelledError, the exception of a write that failed takes its place.
THEOREM CancelledReturnsNothing ==
  ASSUME ~CleanupFaults
  PROVE  Spec => [](Settled /\ made # 0 => outcome \in {"cancelled", "error"})
  <1>1. IInv => (Settled /\ made # 0 => outcome \in {"cancelled", "error"})
    <2> SUFFICES ASSUME IInv, Settled, made # 0
                 PROVE  outcome \in {"cancelled", "error"}
      OBVIOUS
    <2>1. outcome # "running"
      BY DEF IInv, EndInv
    <2>2. "carried" \in cancel \/ outcome = "error"
      BY DEF IInv, CancelInv, Settled, OpenAwaits, ShieldedAwaits
    <2>3. "carried" \in cancel => outcome \notin {"returned", "unsafe"}
      BY DEF IInv, CancelInv
    <2> QED
      BY <2>1, <2>2, <2>3 DEF IInv, TypeOK, PhasesOK
  <1> QED
    BY Invariant, <1>1, PTL

-----------------------------------------------------------------------------
(* Action properties.                                                      *)

\* Unless it raises, a cleanup that ends hands on the cancellation its shield has noted.
LEMMA ShieldStep ==
  ASSUME ~CleanupFaults, [Next]_vars, "deferred" \in cancel, pc \in ShieldedAwaits, pc' # pc
  PROVE  pc' = "onCancel" \/ "carried" \in cancel'
  <1>1. \/ ServerStopped \/ ServerStopRaises \/ ServerStopAbandoned
        \/ TelemetryCleaned \/ TelemetryCleanupAbandoned
        \/ ServerCleaned \/ ServerCleanupFails
    <2>1. ~(Prepare \/ Launch \/ BecomeReady \/ EnterWarmup \/ FinishWarmup \/ EnterMeasure
            \/ StartTelemetry \/ FinishBenchmark \/ Collect \/ StopTelemetry \/ Score \/ EnterStop)
      BY DEF ShieldedAwaits, Prepare, Launch, BecomeReady, EnterWarmup, FinishWarmup, EnterMeasure,
             StartTelemetry, FinishBenchmark, Collect, StopTelemetry, Score, EnterStop, Resumes
    <2>2. ~(Conclude \/ HandleCancelled \/ HandleException \/ EnterFinally \/ Record \/ Save \/ Seal)
      BY DEF ShieldedAwaits, Conclude, HandleCancelled, HandleException, EnterFinally, Record, Save, Seal
    <2>3. ~(InterruptWork \/ InterruptTelemetryStart \/ InterruptTelemetryStop \/ DrainTelemetry
            \/ InterruptDrain)
      BY DEF ShieldedAwaits, InterruptWork, InterruptTelemetryStart, InterruptTelemetryStop,
             DrainTelemetry, InterruptDrain, Interrupted, Resumes
    <2>4. ~(Environment \/ Done \/ UNCHANGED vars)
      BY DEF Environment, Cancel, TearDown, EngineExits, Done, vars
    <2> QED
      BY <2>1, <2>2, <2>3, <2>4 DEF Next, RunTrial
  <1>2. CASE ServerStopped
    BY <1>2 DEF ServerStopped
  <1>3. CASE ServerStopRaises
    BY <1>3 DEF ServerStopRaises
  <1>4. CASE ServerStopAbandoned
    BY <1>4 DEF ServerStopAbandoned
  <1>5. CASE TelemetryCleaned
    BY <1>5 DEF TelemetryCleaned, LeaveShieldCarrying
  <1>6. CASE TelemetryCleanupAbandoned
    BY <1>6 DEF TelemetryCleanupAbandoned, LeaveShieldCarrying
  <1>7. CASE ServerCleaned
    BY <1>7 DEF ServerCleaned, LeaveShieldCarrying
  <1>8. CASE ServerCleanupFails
    BY <1>8 DEF ServerCleanupFails, LeaveShieldCarrying
  <1> QED
    BY <1>1, <1>2, <1>3, <1>4, <1>5, <1>6, <1>7, <1>8

\* A phase changes only by a legal transition, and status.json only to the new phase.
LEMMA LifecycleStep == IInv /\ [Next]_vars =>
  ((status' # status => MayMove(status, status')) /\ (statusFile' # statusFile => statusFile' = status'))
  <1> SUFFICES ASSUME IInv, [Next]_vars
               PROVE  (status' # status => MayMove(status, status')) /\ (statusFile' # statusFile => statusFile' = status')
    OBVIOUS
  <1> USE DEF fileVars
  <1>1. CASE Prepare
    BY <1>1 DEF Prepare, Transition, TransitionOr, Settle
  <1>2. CASE Launch
    BY <1>2 DEF Launch, Raise
  <1>3. CASE BecomeReady
    BY <1>3 DEF BecomeReady, Transition, TransitionOr, Raise, Resumes
  <1>4. CASE EnterWarmup
    BY <1>4 DEF EnterWarmup, Transition, TransitionOr, Raise
  <1>5. CASE FinishWarmup
    BY <1>5 DEF FinishWarmup, Transition, TransitionOr, Raise, Resumes
  <1>6. CASE EnterMeasure
    BY <1>6 DEF EnterMeasure
  <1>7. CASE StartTelemetry
    BY <1>7 DEF StartTelemetry, Raise, Resumes
  <1>8. CASE FinishBenchmark
    BY <1>8 DEF FinishBenchmark, Transition, TransitionOr, Raise, Resumes
  <1>9. CASE Collect
    BY <1>9 DEF Collect
  <1>10. CASE StopTelemetry
    BY <1>10 DEF StopTelemetry, Raise, Resumes
  <1>11. CASE Score
    BY <1>11 DEF Score, Raise, ServerAlive
  <1>12. CASE EnterStop
    BY <1>12 DEF EnterStop, Transition, TransitionOr
  <1>13. CASE ServerStopped
    BY <1>13 DEF ServerStopped, LeaveShield, Leftovers
  <1>14. CASE ServerStopRaises
    BY <1>14 DEF ServerStopRaises, LeaveShield, Leftovers, Raise
  <1>15. CASE ServerStopAbandoned
    BY <1>15 DEF ServerStopAbandoned, LeaveShield, Leftovers
  <1>16. CASE Conclude
    BY <1>16 DEF Conclude, Transition, TransitionOr
  <1>17. CASE HandleCancelled
    BY <1>17 DEF HandleCancelled, FailTrial, TransitionOr
  <1>18. CASE HandleException
    BY <1>18 DEF HandleException, FailTrial, TransitionOr
  <1>19. CASE EnterFinally
    BY <1>19 DEF EnterFinally, CleanUpServer
  <1>20. CASE TelemetryCleaned
    BY <1>20 DEF TelemetryCleaned, LeaveShield, LeaveShieldCarrying, CleanUpServer
  <1>21. CASE TelemetryCleanupAbandoned
    BY <1>21 DEF TelemetryCleanupAbandoned, LeaveShieldCarrying, CleanUpServer
  <1>22. CASE ServerCleaned
    BY <1>22 DEF ServerCleaned, LeaveShieldCarrying, Leftovers
  <1>23. CASE ServerCleanupFails
    BY <1>23 DEF ServerCleanupFails, LeaveShield, LeaveShieldCarrying, Leftovers
  <1>24. CASE Record
    BY <1>24 DEF Record, Settle
  <1>25. CASE Save
    BY <1>25 DEF Save, Settle, Unsafe
  <1>26. CASE Seal
    BY <1>26 DEF Seal, Settle
  <1>27. CASE InterruptWork
    BY <1>27 DEF InterruptWork, Interrupted
  <1>28. CASE InterruptTelemetryStart
    BY <1>28 DEF InterruptTelemetryStart, Interrupted
  <1>29. CASE InterruptTelemetryStop
    BY <1>29 DEF InterruptTelemetryStop, Interrupted
  <1>30. CASE DrainTelemetry
    BY <1>30 DEF DrainTelemetry, Resumes
  <1>31. CASE InterruptDrain
    BY <1>31 DEF InterruptDrain, Interrupted
  <1>32. CASE Cancel
    BY <1>32 DEF Cancel
  <1>33. CASE TearDown
    BY <1>33 DEF TearDown
  <1>34. CASE EngineExits
    BY <1>34 DEF EngineExits
  <1>35. CASE Done
    BY <1>35 DEF Done, vars
  <1>36. CASE UNCHANGED vars
    BY <1>36 DEF vars
  <1> QED
    BY <1>1, <1>2, <1>3, <1>4, <1>5, <1>6, <1>7, <1>8, <1>9, <1>10, <1>11,
       <1>12, <1>13, <1>14, <1>15, <1>16, <1>17, <1>18, <1>19, <1>20, <1>21,
       <1>22, <1>23, <1>24, <1>25, <1>26, <1>27, <1>28, <1>29, <1>30, <1>31,
       <1>32, <1>33, <1>34, <1>35, <1>36
    DEF Next, RunTrial, Environment

\* No server.stop starts while the session samples.
LEMMA StopStep == CountersOK /\ TelemetryInv /\ [Next]_vars =>
  (stops' > stops /\ "inner" \notin cancel => telemetry' # "running")
  <1> SUFFICES ASSUME CountersOK, TelemetryInv, [Next]_vars
               PROVE  stops' > stops /\ "inner" \notin cancel => telemetry' # "running"
    OBVIOUS
  <1> USE DEF CountersOK, TelemetryInv
  <1>1. CASE Prepare
    BY <1>1 DEF Prepare, Transition, TransitionOr, Settle
  <1>2. CASE Launch
    BY <1>2 DEF Launch, Raise
  <1>3. CASE BecomeReady
    BY <1>3 DEF BecomeReady, Transition, TransitionOr, Raise, Resumes
  <1>4. CASE EnterWarmup
    BY <1>4 DEF EnterWarmup, Transition, TransitionOr, Raise
  <1>5. CASE FinishWarmup
    BY <1>5 DEF FinishWarmup, Transition, TransitionOr, Raise, Resumes
  <1>6. CASE EnterMeasure
    BY <1>6 DEF EnterMeasure
  <1>7. CASE StartTelemetry
    BY <1>7 DEF StartTelemetry, Raise, Resumes
  <1>8. CASE FinishBenchmark
    BY <1>8 DEF FinishBenchmark, Transition, TransitionOr, Raise, Resumes
  <1>9. CASE Collect
    BY <1>9 DEF Collect
  <1>10. CASE StopTelemetry
    BY <1>10 DEF StopTelemetry, Raise, Resumes
  <1>11. CASE Score
    BY <1>11 DEF Score, Raise, ServerAlive
  <1>12. CASE EnterStop
    BY <1>12 DEF EnterStop, Transition, TransitionOr
  <1>13. CASE ServerStopped
    BY <1>13 DEF ServerStopped, LeaveShield, Leftovers
  <1>14. CASE ServerStopRaises
    BY <1>14 DEF ServerStopRaises, LeaveShield, Leftovers, Raise
  <1>15. CASE ServerStopAbandoned
    BY <1>15 DEF ServerStopAbandoned, LeaveShield, Leftovers
  <1>16. CASE Conclude
    BY <1>16 DEF Conclude, Transition, TransitionOr
  <1>17. CASE HandleCancelled
    BY <1>17 DEF HandleCancelled, FailTrial, TransitionOr
  <1>18. CASE HandleException
    BY <1>18 DEF HandleException, FailTrial, TransitionOr
  <1>19. CASE EnterFinally
    BY <1>19 DEF EnterFinally, CleanUpServer
  <1>20. CASE TelemetryCleaned
    BY <1>20 DEF TelemetryCleaned, LeaveShield, LeaveShieldCarrying, CleanUpServer
  <1>21. CASE TelemetryCleanupAbandoned
    BY <1>21 DEF TelemetryCleanupAbandoned, LeaveShieldCarrying, CleanUpServer
  <1>22. CASE ServerCleaned
    BY <1>22 DEF ServerCleaned, LeaveShieldCarrying, Leftovers
  <1>23. CASE ServerCleanupFails
    BY <1>23 DEF ServerCleanupFails, LeaveShield, LeaveShieldCarrying, Leftovers
  <1>24. CASE Record
    BY <1>24 DEF Record, Settle
  <1>25. CASE Save
    BY <1>25 DEF Save, Settle, Unsafe
  <1>26. CASE Seal
    BY <1>26 DEF Seal, Settle
  <1>27. CASE InterruptWork
    BY <1>27 DEF InterruptWork, Interrupted
  <1>28. CASE InterruptTelemetryStart
    BY <1>28 DEF InterruptTelemetryStart, Interrupted
  <1>29. CASE InterruptTelemetryStop
    BY <1>29 DEF InterruptTelemetryStop, Interrupted
  <1>30. CASE DrainTelemetry
    BY <1>30 DEF DrainTelemetry, Resumes
  <1>31. CASE InterruptDrain
    BY <1>31 DEF InterruptDrain, Interrupted
  <1>32. CASE Cancel
    BY <1>32 DEF Cancel
  <1>33. CASE TearDown
    BY <1>33 DEF TearDown
  <1>34. CASE EngineExits
    BY <1>34 DEF EngineExits
  <1>35. CASE Done
    BY <1>35 DEF Done, vars
  <1>36. CASE UNCHANGED vars
    BY <1>36 DEF vars
  <1> QED
    BY <1>1, <1>2, <1>3, <1>4, <1>5, <1>6, <1>7, <1>8, <1>9, <1>10, <1>11,
       <1>12, <1>13, <1>14, <1>15, <1>16, <1>17, <1>18, <1>19, <1>20, <1>21,
       <1>22, <1>23, <1>24, <1>25, <1>26, <1>27, <1>28, <1>29, <1>30, <1>31,
       <1>32, <1>33, <1>34, <1>35, <1>36
    DEF Next, RunTrial, Environment

\* No step revises a clean verdict.
LEMMA CleanStep == VerdictInv /\ [Next]_vars =>
  (cleanup = "clean" => cleanup' = "clean" /\ stops' = stops /\ engine' = engine)
  <1> SUFFICES ASSUME VerdictInv, [Next]_vars
               PROVE  cleanup = "clean" => cleanup' = "clean" /\ stops' = stops /\ engine' = engine
    OBVIOUS
  <1> USE DEF VerdictInv, ServerGone, None
  <1>1. CASE Prepare
    BY <1>1 DEF Prepare, Transition, TransitionOr, Settle
  <1>2. CASE Launch
    BY <1>2 DEF Launch, Raise
  <1>3. CASE BecomeReady
    BY <1>3 DEF BecomeReady, Transition, TransitionOr, Raise, Resumes
  <1>4. CASE EnterWarmup
    BY <1>4 DEF EnterWarmup, Transition, TransitionOr, Raise
  <1>5. CASE FinishWarmup
    BY <1>5 DEF FinishWarmup, Transition, TransitionOr, Raise, Resumes
  <1>6. CASE EnterMeasure
    BY <1>6 DEF EnterMeasure
  <1>7. CASE StartTelemetry
    BY <1>7 DEF StartTelemetry, Raise, Resumes
  <1>8. CASE FinishBenchmark
    BY <1>8 DEF FinishBenchmark, Transition, TransitionOr, Raise, Resumes
  <1>9. CASE Collect
    BY <1>9 DEF Collect
  <1>10. CASE StopTelemetry
    BY <1>10 DEF StopTelemetry, Raise, Resumes
  <1>11. CASE Score
    BY <1>11 DEF Score, Raise, ServerAlive
  <1>12. CASE EnterStop
    BY <1>12 DEF EnterStop, Transition, TransitionOr
  <1>13. CASE ServerStopped
    BY <1>13 DEF ServerStopped, LeaveShield, Leftovers
  <1>14. CASE ServerStopRaises
    BY <1>14 DEF ServerStopRaises, LeaveShield, Leftovers, Raise
  <1>15. CASE ServerStopAbandoned
    BY <1>15 DEF ServerStopAbandoned, LeaveShield, Leftovers
  <1>16. CASE Conclude
    BY <1>16 DEF Conclude, Transition, TransitionOr
  <1>17. CASE HandleCancelled
    BY <1>17 DEF HandleCancelled, FailTrial, TransitionOr
  <1>18. CASE HandleException
    BY <1>18 DEF HandleException, FailTrial, TransitionOr
  <1>19. CASE EnterFinally
    BY <1>19 DEF EnterFinally, CleanUpServer
  <1>20. CASE TelemetryCleaned
    BY <1>20 DEF TelemetryCleaned, LeaveShield, LeaveShieldCarrying, CleanUpServer
  <1>21. CASE TelemetryCleanupAbandoned
    BY <1>21 DEF TelemetryCleanupAbandoned, LeaveShieldCarrying, CleanUpServer
  <1>22. CASE ServerCleaned
    BY <1>22 DEF ServerCleaned, LeaveShieldCarrying, Leftovers
  <1>23. CASE ServerCleanupFails
    BY <1>23 DEF ServerCleanupFails, LeaveShield, LeaveShieldCarrying, Leftovers
  <1>24. CASE Record
    BY <1>24 DEF Record, Settle
  <1>25. CASE Save
    BY <1>25 DEF Save, Settle, Unsafe
  <1>26. CASE Seal
    BY <1>26 DEF Seal, Settle
  <1>27. CASE InterruptWork
    BY <1>27 DEF InterruptWork, Interrupted
  <1>28. CASE InterruptTelemetryStart
    BY <1>28 DEF InterruptTelemetryStart, Interrupted
  <1>29. CASE InterruptTelemetryStop
    BY <1>29 DEF InterruptTelemetryStop, Interrupted
  <1>30. CASE DrainTelemetry
    BY <1>30 DEF DrainTelemetry, Resumes
  <1>31. CASE InterruptDrain
    BY <1>31 DEF InterruptDrain, Interrupted
  <1>32. CASE Cancel
    BY <1>32 DEF Cancel
  <1>33. CASE TearDown
    BY <1>33 DEF TearDown
  <1>34. CASE EngineExits
    BY <1>34 DEF EngineExits
  <1>35. CASE Done
    BY <1>35 DEF Done, vars
  <1>36. CASE UNCHANGED vars
    BY <1>36 DEF vars
  <1> QED
    BY <1>1, <1>2, <1>3, <1>4, <1>5, <1>6, <1>7, <1>8, <1>9, <1>10, <1>11,
       <1>12, <1>13, <1>14, <1>15, <1>16, <1>17, <1>18, <1>19, <1>20, <1>21,
       <1>22, <1>23, <1>24, <1>25, <1>26, <1>27, <1>28, <1>29, <1>30, <1>31,
       <1>32, <1>33, <1>34, <1>35, <1>36
    DEF Next, RunTrial, Environment

\* The lifecycle never skips or reverses a phase, and status.json follows it.
THEOREM LifecycleIsMonotone == Spec => LifecycleMonotone
  BY Invariant, LifecycleStep, PTL DEF Spec, LifecycleMonotone

\* The final telemetry sample precedes every server.stop.
THEOREM FinalSamplePrecedesStop == Spec => FinalSampleFirst
  <1>1. IInv => CountersOK /\ TelemetryInv
    BY DEF IInv, TypeOK
  <1> QED
    BY Invariant, StopStep, <1>1, PTL DEF Spec, FinalSampleFirst

\* A verified cleanup is never revised or repeated.
THEOREM VerifiedCleanupIsFinal == Spec => CleanIsFinal
  <1>1. IInv => VerdictInv
    BY DEF IInv
  <1> QED
    BY Invariant, CleanStep, <1>1, PTL DEF Spec, CleanIsFinal

\* As long as no cleanup raises, _shield_to_completion keeps its promise: whatever
\* else fails, a cancellation noted while a cleanup runs is reported when it ends,
\* also when the teardown of the loop ends it early.
THEOREM ShieldKeepsCancellations ==
  ASSUME ~CleanupFaults
  PROVE  Spec => ShieldReportsCancellation
  <1>1. [Next]_vars => ["deferred" \in cancel /\ pc \in ShieldedAwaits /\ pc' # pc
                          => pc' = "onCancel" \/ "carried" \in cancel']_vars
    BY ShieldStep
  <1> QED
    BY <1>1, PTL DEF Spec, ShieldReportsCancellation

-----------------------------------------------------------------------------
(* The refinement of TrialLease, without its fairness.                     *)

\* A step of run_trial takes or releases the GPU, ends the trial or changes neither.
LEMMA LeaseStep == PhasesOK /\ EvidenceInv /\ VerdictInv /\ EndInv /\ ResultInv /\ [Next]_vars =>
  ([Lease!Next]_(Lease!vars))
  <1> SUFFICES ASSUME PhasesOK, EvidenceInv, VerdictInv, EndInv, ResultInv, [Next]_vars
               PROVE  [Lease!Next]_(Lease!vars)
    OBVIOUS
  <1> USE DEF PhasesOK, EvidenceInv, BeforeScore, ResultInv, VerdictInv, EndInv,
          ServerGone, Settled, None,
             Lease!Next, Lease!Take, Lease!Release, Lease!End, Lease!vars,
             LeaseGpu, LeaseVerdict
  <1>1. CASE Prepare
    BY <1>1 DEF Prepare, Transition, TransitionOr, Settle
  <1>2. CASE Launch
    BY <1>2 DEF Launch, Raise
  <1>3. CASE BecomeReady
    BY <1>3 DEF BecomeReady, Transition, TransitionOr, Raise, Resumes
  <1>4. CASE EnterWarmup
    BY <1>4 DEF EnterWarmup, Transition, TransitionOr, Raise
  <1>5. CASE FinishWarmup
    BY <1>5 DEF FinishWarmup, Transition, TransitionOr, Raise, Resumes
  <1>6. CASE EnterMeasure
    BY <1>6 DEF EnterMeasure
  <1>7. CASE StartTelemetry
    BY <1>7 DEF StartTelemetry, Raise, Resumes
  <1>8. CASE FinishBenchmark
    BY <1>8 DEF FinishBenchmark, Transition, TransitionOr, Raise, Resumes
  <1>9. CASE Collect
    BY <1>9 DEF Collect
  <1>10. CASE StopTelemetry
    BY <1>10 DEF StopTelemetry, Raise, Resumes
  <1>11. CASE Score
    BY <1>11 DEF Score, Raise, ServerAlive
  <1>12. CASE EnterStop
    BY <1>12 DEF EnterStop, Transition, TransitionOr
  <1>13. CASE ServerStopped
    BY <1>13 DEF ServerStopped, LeaveShield, Leftovers
  <1>14. CASE ServerStopRaises
    BY <1>14 DEF ServerStopRaises, LeaveShield, Leftovers, Raise
  <1>15. CASE ServerStopAbandoned
    BY <1>15 DEF ServerStopAbandoned, LeaveShield, Leftovers
  <1>16. CASE Conclude
    BY <1>16 DEF Conclude, Transition, TransitionOr
  <1>17. CASE HandleCancelled
    BY <1>17 DEF HandleCancelled, FailTrial, TransitionOr
  <1>18. CASE HandleException
    BY <1>18 DEF HandleException, FailTrial, TransitionOr
  <1>19. CASE EnterFinally
    BY <1>19 DEF EnterFinally, CleanUpServer
  <1>20. CASE TelemetryCleaned
    BY <1>20 DEF TelemetryCleaned, LeaveShield, LeaveShieldCarrying, CleanUpServer
  <1>21. CASE TelemetryCleanupAbandoned
    BY <1>21 DEF TelemetryCleanupAbandoned, LeaveShieldCarrying, CleanUpServer
  <1>22. CASE ServerCleaned
    BY <1>22 DEF ServerCleaned, LeaveShieldCarrying, Leftovers
  <1>23. CASE ServerCleanupFails
    BY <1>23 DEF ServerCleanupFails, LeaveShield, LeaveShieldCarrying, Leftovers
  <1>24. CASE Record
    BY <1>24 DEF Record, Settle
  <1>25. CASE Save
    BY <1>25 DEF Save, Settle, Unsafe
  <1>26. CASE Seal
    BY <1>26 DEF Seal, Settle
  <1>27. CASE InterruptWork
    BY <1>27 DEF InterruptWork, Interrupted
  <1>28. CASE InterruptTelemetryStart
    BY <1>28 DEF InterruptTelemetryStart, Interrupted
  <1>29. CASE InterruptTelemetryStop
    BY <1>29 DEF InterruptTelemetryStop, Interrupted
  <1>30. CASE DrainTelemetry
    BY <1>30 DEF DrainTelemetry, Resumes
  <1>31. CASE InterruptDrain
    BY <1>31 DEF InterruptDrain, Interrupted
  <1>32. CASE Cancel
    BY <1>32 DEF Cancel
  <1>33. CASE TearDown
    BY <1>33 DEF TearDown
  <1>34. CASE EngineExits
    BY <1>34 DEF EngineExits
  <1>35. CASE Done
    BY <1>35 DEF Done, vars
  <1>36. CASE UNCHANGED vars
    BY <1>36 DEF vars
  <1> QED
    BY <1>1, <1>2, <1>3, <1>4, <1>5, <1>6, <1>7, <1>8, <1>9, <1>10, <1>11,
       <1>12, <1>13, <1>14, <1>15, <1>16, <1>17, <1>18, <1>19, <1>20, <1>21,
       <1>22, <1>23, <1>24, <1>25, <1>26, <1>27, <1>28, <1>29, <1>30, <1>31,
       <1>32, <1>33, <1>34, <1>35, <1>36
    DEF Next, RunTrial, Environment

\* run_trial implements the safety part of TrialLease: it takes the GPU at most
\* once and hands a result back only when the GPU is free.
THEOREM KeepsLease == Spec => Lease!Init /\ [][Lease!Next]_(Lease!vars)
  <1>1. Init => Lease!Init
    BY DEF Init, Lease!Init, LeaseGpu, LeaseVerdict
  <1>2. IInv => PhasesOK /\ EvidenceInv /\ VerdictInv /\ EndInv /\ ResultInv
    BY DEF IInv, TypeOK
  <1> QED
    BY Invariant, LeaseStep, <1>1, <1>2, PTL DEF Spec

=============================================================================
