----------------------- MODULE TelemetrySessionProofs -----------------------
(***************************************************************************)
(* Theorems about TelemetrySession, for any number of stop calls, of       *)
(* cancellations and of frames.  IInv is preserved part by part; the frame *)
(* properties and the refinement of TelemetryWindow follow from it.        *)
(***************************************************************************)
EXTENDS TelemetrySession, TLAPS

-----------------------------------------------------------------------------
(* Frames.                                                                 *)

\* A frame that is appended is a final one or leaves the final ones alone.
LEMMA FinalsAppended ==
  ASSUME NEW kind \in Kinds, frames \in Seq(Kinds), frames' = Append(frames, kind)
  PROVE  Finals' # {} <=> (Finals # {} \/ kind = "final")
  <1>1. Len(frames') = Len(frames) + 1 /\ frames'[Len(frames')] = kind
    OBVIOUS
  <1>2. \A i \in 1..Len(frames) : frames'[i] = frames[i]
    OBVIOUS
  <1>3. Len(frames) \in Nat
    OBVIOUS
  <1>4. CASE kind = "final"
    <2>1. Len(frames') \in Finals'
      BY <1>1, <1>3, <1>4 DEF Finals
    <2> QED
      BY <2>1, <1>4
  <1>5. CASE kind # "final"
    <2>1. Finals' = Finals
      BY <1>1, <1>2, <1>3, <1>5 DEF Finals
    <2> QED
      BY <2>1, <1>5
  <1> QED
    BY <1>4, <1>5

\* Steps that collect no frame leave the final ones alone.
LEMMA FinalsKept == frames' = frames => Finals' = Finals
  BY DEF Finals

\* What collecting a frame leaves in the list, the file and the errors.
LEMMA FrameTypes ==
  ASSUME NEW kind \in Kinds, NEW failure \in {"write", "loop", "final"},
         frames \in Seq(Kinds), file \in Seq(Kinds),
         writer \in {"closed", "open", "lost", "torn"},
         errors \subseteq {"write", "loop", "final"},
         FrameCollected(kind) \/ FrameRaises(kind, failure)
  PROVE  /\ frames' \in Seq(Kinds) /\ file' \in Seq(Kinds)
         /\ writer' \in {"closed", "open", "lost", "torn"}
         /\ errors' \subseteq {"write", "loop", "final"}
  <1>1. Reopened \in Seq(Kinds)
    BY DEF Reopened
  <1>2. CASE FrameCollected(kind)
    <2>1. frames' \in Seq(Kinds)
      BY <1>2 DEF FrameCollected
    <2>4. file' \in {file, Reopened, Append(Reopened, kind)}
      BY <1>2 DEF FrameCollected, GiveUpWriter
    <2>6. Append(Reopened, kind) \in Seq(Kinds)
      BY <1>1
    <2>5. file' \in Seq(Kinds)
      BY <1>1, <2>4, <2>6
    <2>2. writer' \in {"closed", "open", "lost", "torn"}
      BY <1>2 DEF FrameCollected, GiveUpWriter
    <2>3. errors' \subseteq {"write", "loop", "final"}
      BY <1>2 DEF FrameCollected, GiveUpWriter
    <2> QED
      BY <2>1, <2>2, <2>3, <2>5
  <1>3. CASE FrameRaises(kind, failure)
    BY <1>1, <1>3 DEF FrameRaises
  <1> QED
    BY <1>2, <1>3

-----------------------------------------------------------------------------
(* The parts of the invariant, one lemma each.                             *)

\* Every variable keeps its type.
LEMMA TypeStep == TypeOK /\ [Next]_vars => TypeOK'
  <1> SUFFICES ASSUME TypeOK, [Next]_vars
               PROVE  TypeOK'
    OBVIOUS
  <1> USE ConstantsAssumption, FrameTypes DEF TypeOK, Idle, Sources, Holding,
     Ended, Kinds
  <1>1. CASE StartFails
    BY <1>1 DEF StartFails, data
  <1>2. CASE StartOpens
    BY <1>2 DEF StartOpens
  <1>3. CASE StartReturns
    BY <1>3 DEF StartReturns
  <1>4. CASE StartRollsBack
    <2>1. (frames \in Seq(Kinds) /\ file \in Seq(Kinds) /\ writer \in {"closed", "open", "lost", "torn"} /\ errors \subseteq {"write", "loop", "final"})'
      BY <1>4 DEF StartRollsBack
    <2>2. TypeOK'
      BY <1>4, <2>1 DEF StartRollsBack
    <2> QED
      BY <2>1, <2>2
  <1>5. CASE RolledBack
    BY <1>5 DEF RolledBack
  <1>6. CASE RollbackCancelled
    BY <1>6 DEF RollbackCancelled, data
  <1>7. CASE Tick
    BY <1>7 DEF Tick
  <1>8. CASE Sampled
    BY <1>8 DEF Sampled
  <1>9. CASE LoopFails
    BY <1>9 DEF LoopFails
  <1>10. CASE LoopEnds
    BY <1>10 DEF LoopEnds, data
  <1>11. ASSUME NEW c \in Stoppers, CallStop(c) PROVE TypeOK'
    BY <1>11 DEF CallStop, data
  <1>12. ASSUME NEW c \in Stoppers, Return(c) PROVE TypeOK'
    BY <1>12 DEF Return, data
  <1>13. ASSUME NEW c \in Stoppers, Drain(c) PROVE TypeOK'
    BY <1>13 DEF Drain, data
  <1>14. ASSUME NEW c \in Stoppers, Drained(c) PROVE TypeOK'
    BY <1>14 DEF Drained, data
  <1>15. ASSUME NEW c \in Stoppers, StopRefused(c) PROVE TypeOK'
    BY <1>15 DEF StopRefused, data
  <1>16. ASSUME NEW c \in Stoppers, StopBegins(c) PROVE TypeOK'
    BY <1>16 DEF StopBegins
  <1>17. ASSUME NEW c \in Stoppers, Joined(c) PROVE TypeOK'
    BY <1>17 DEF Joined
  <1>18. ASSUME NEW c \in Stoppers, FinalSample(c) PROVE TypeOK'
    BY <1>18 DEF FinalSample
  <1>19. ASSUME NEW c \in Stoppers, StopReturns(c) PROVE TypeOK'
    BY <1>19 DEF StopReturns
  <1>20. ASSUME NEW c \in Stoppers, StopCancelled(c) PROVE TypeOK'
    <2>1. (call \in [Stoppers -> {Idle, "shielded", "draining"} \cup Ended])'
      BY <1>20 DEF StopCancelled
    <2>2. (cleanup \in [Stoppers -> {Idle, "locking"} \cup Holding \cup Ended])'
      BY <1>20 DEF StopCancelled
    <2>3. (lock \in Stoppers \cup {"start", "none"} /\ open \subseteq Sources /\ errors \subseteq {"write", "loop", "final"})'
      BY <1>20 DEF StopCancelled
    <2>4. (cancels \in 0..MaxCancels)'
      BY <1>20 DEF StopCancelled
    <2>5. TypeOK'
      BY <1>20, <2>1, <2>2, <2>3, <2>4 DEF StopCancelled
    <2> QED
      BY <2>1, <2>2, <2>3, <2>4, <2>5
  <1>21. CASE UNCHANGED vars
    BY <1>21 DEF vars, control, data
  <1> QED
    BY <1>1, <1>2, <1>3, <1>4, <1>5, <1>6, <1>7, <1>8, <1>9, <1>10, <1>11,
       <1>12, <1>13, <1>14, <1>15, <1>16, <1>17, <1>18, <1>19, <1>20, <1>21
    DEF Next, Stop, Terminated

\* The lock has one holder.
LEMMA LockStep == TypeOK /\ CallInv /\ LockInv /\ [Next]_vars => LockInv'
  <1> SUFFICES ASSUME TypeOK, CallInv, LockInv, [Next]_vars
               PROVE  LockInv'
    OBVIOUS
  <1> USE ConstantsAssumption DEF TypeOK, CallInv, LockInv, Idle, Holding, Ended
  <1>1. CASE StartFails
    BY <1>1 DEF StartFails, data
  <1>2. CASE StartOpens
    BY <1>2 DEF StartOpens
  <1>3. CASE StartReturns
    BY <1>3 DEF StartReturns, FrameCollected, GiveUpWriter, Reopened
  <1>4. CASE StartRollsBack
    BY <1>4 DEF StartRollsBack, FrameRaises, Reopened
  <1>5. CASE RolledBack
    BY <1>5 DEF RolledBack
  <1>6. CASE RollbackCancelled
    BY <1>6 DEF RollbackCancelled, data
  <1>7. CASE Tick
    BY <1>7 DEF Tick
  <1>8. CASE Sampled
    BY <1>8 DEF Sampled, FrameCollected, GiveUpWriter, Reopened
  <1>9. CASE LoopFails
    BY <1>9 DEF LoopFails, FrameRaises, Reopened
  <1>10. CASE LoopEnds
    BY <1>10 DEF LoopEnds, data
  <1>11. ASSUME NEW c \in Stoppers, CallStop(c) PROVE LockInv'
    BY <1>11 DEF CallStop, data
  <1>12. ASSUME NEW c \in Stoppers, Return(c) PROVE LockInv'
    BY <1>12 DEF Return, data
  <1>13. ASSUME NEW c \in Stoppers, Drain(c) PROVE LockInv'
    BY <1>13 DEF Drain, data
  <1>14. ASSUME NEW c \in Stoppers, Drained(c) PROVE LockInv'
    BY <1>14 DEF Drained, data
  <1>15. ASSUME NEW c \in Stoppers, StopRefused(c) PROVE LockInv'
    BY <1>15 DEF StopRefused, data
  <1>16. ASSUME NEW c \in Stoppers, StopBegins(c) PROVE LockInv'
    BY <1>16 DEF StopBegins
  <1>17. ASSUME NEW c \in Stoppers, Joined(c) PROVE LockInv'
    BY <1>17 DEF Joined
  <1>18. ASSUME NEW c \in Stoppers, FinalSample(c) PROVE LockInv'
    BY <1>18 DEF FinalSample, FrameCollected, GiveUpWriter, FrameRaises, Reopened
  <1>19. ASSUME NEW c \in Stoppers, StopReturns(c) PROVE LockInv'
    BY <1>19 DEF StopReturns
  <1>20. ASSUME NEW c \in Stoppers, StopCancelled(c) PROVE LockInv'
    BY <1>20 DEF StopCancelled
  <1>21. CASE UNCHANGED vars
    BY <1>21 DEF vars, control, data
  <1> QED
    BY <1>1, <1>2, <1>3, <1>4, <1>5, <1>6, <1>7, <1>8, <1>9, <1>10, <1>11,
       <1>12, <1>13, <1>14, <1>15, <1>16, <1>17, <1>18, <1>19, <1>20, <1>21
    DEF Next, Stop, Terminated

\* A caller gets what its task ended with.
LEMMA CallStep == TypeOK /\ LockInv /\ CallInv /\ ResultInv /\ [Next]_vars => CallInv'
  <1> SUFFICES ASSUME TypeOK, LockInv, CallInv, ResultInv, [Next]_vars
               PROVE  CallInv'
    OBVIOUS
  <1> USE DEF TypeOK, LockInv, CallInv, ResultInv, Idle, Holding, Ended
  <1>1. CASE StartFails
    BY <1>1 DEF StartFails, data
  <1>2. CASE StartOpens
    BY <1>2 DEF StartOpens
  <1>3. CASE StartReturns
    BY <1>3 DEF StartReturns, FrameCollected, GiveUpWriter, Reopened
  <1>4. CASE StartRollsBack
    BY <1>4 DEF StartRollsBack, FrameRaises, Reopened
  <1>5. CASE RolledBack
    BY <1>5 DEF RolledBack
  <1>6. CASE RollbackCancelled
    BY <1>6 DEF RollbackCancelled, data
  <1>7. CASE Tick
    BY <1>7 DEF Tick
  <1>8. CASE Sampled
    BY <1>8 DEF Sampled, FrameCollected, GiveUpWriter, Reopened
  <1>9. CASE LoopFails
    BY <1>9 DEF LoopFails, FrameRaises, Reopened
  <1>10. CASE LoopEnds
    BY <1>10 DEF LoopEnds, data
  <1>11. ASSUME NEW c \in Stoppers, CallStop(c) PROVE CallInv'
    BY <1>11 DEF CallStop, data
  <1>12. ASSUME NEW c \in Stoppers, Return(c) PROVE CallInv'
    BY <1>12 DEF Return, data
  <1>13. ASSUME NEW c \in Stoppers, Drain(c) PROVE CallInv'
    BY <1>13 DEF Drain, data
  <1>14. ASSUME NEW c \in Stoppers, Drained(c) PROVE CallInv'
    BY <1>14 DEF Drained, data
  <1>15. ASSUME NEW c \in Stoppers, StopRefused(c) PROVE CallInv'
    BY <1>15 DEF StopRefused, data
  <1>16. ASSUME NEW c \in Stoppers, StopBegins(c) PROVE CallInv'
    BY <1>16 DEF StopBegins
  <1>17. ASSUME NEW c \in Stoppers, Joined(c) PROVE CallInv'
    BY <1>17 DEF Joined
  <1>18. ASSUME NEW c \in Stoppers, FinalSample(c) PROVE CallInv'
    BY <1>18 DEF FinalSample, FrameCollected, GiveUpWriter, FrameRaises, Reopened
  <1>19. ASSUME NEW c \in Stoppers, StopReturns(c) PROVE CallInv'
    BY <1>19 DEF StopReturns
  <1>20. ASSUME NEW c \in Stoppers, StopCancelled(c) PROVE CallInv'
    BY <1>20 DEF StopCancelled
  <1>21. CASE UNCHANGED vars
    BY <1>21 DEF vars, control, data
  <1> QED
    BY <1>1, <1>2, <1>3, <1>4, <1>5, <1>6, <1>7, <1>8, <1>9, <1>10, <1>11,
       <1>12, <1>13, <1>14, <1>15, <1>16, <1>17, <1>18, <1>19, <1>20, <1>21
    DEF Next, Stop, Terminated

\* The state tells where start, the sampling task and the stops can be.
LEMMA StateStep == TypeOK /\ CallInv /\ LockInv /\ StateInv /\ [Next]_vars => StateInv'
  <1> SUFFICES ASSUME TypeOK, CallInv, LockInv, StateInv, [Next]_vars
               PROVE  StateInv'
    OBVIOUS
  <1> USE ConstantsAssumption, FinalsAppended, FinalsKept DEF TypeOK, LockInv,
     StateInv, Idle, Holding, Ended, Kinds
  <1>1. CASE StartFails
    BY <1>1 DEF StartFails, data
  <1>2. CASE StartOpens
    BY <1>2 DEF StartOpens
  <1>3. CASE StartReturns
    BY <1>3 DEF StartReturns, FrameCollected, GiveUpWriter, Reopened
  <1>4. CASE StartRollsBack
    BY <1>4 DEF StartRollsBack, FrameRaises, Reopened
  <1>5. CASE RolledBack
    BY <1>5 DEF RolledBack
  <1>6. CASE RollbackCancelled
    BY <1>6 DEF RollbackCancelled, data
  <1>7. CASE Tick
    BY <1>7 DEF Tick
  <1>8. CASE Sampled
    BY <1>8 DEF Sampled, FrameCollected, GiveUpWriter, Reopened
  <1>9. CASE LoopFails
    BY <1>9 DEF LoopFails, FrameRaises, Reopened
  <1>10. CASE LoopEnds
    BY <1>10 DEF LoopEnds, data
  <1>11. ASSUME NEW c \in Stoppers, CallStop(c) PROVE StateInv'
    BY <1>11 DEF CallStop, data, CallInv
  <1>12. ASSUME NEW c \in Stoppers, Return(c) PROVE StateInv'
    BY <1>12 DEF Return, data
  <1>13. ASSUME NEW c \in Stoppers, Drain(c) PROVE StateInv'
    BY <1>13 DEF Drain, data
  <1>14. ASSUME NEW c \in Stoppers, Drained(c) PROVE StateInv'
    BY <1>14 DEF Drained, data
  <1>15. ASSUME NEW c \in Stoppers, StopRefused(c) PROVE StateInv'
    BY <1>15 DEF StopRefused, data
  <1>16. ASSUME NEW c \in Stoppers, StopBegins(c) PROVE StateInv'
    BY <1>16 DEF StopBegins
  <1>17. ASSUME NEW c \in Stoppers, Joined(c) PROVE StateInv'
    BY <1>17 DEF Joined
  <1>18. ASSUME NEW c \in Stoppers, FinalSample(c) PROVE StateInv'
    BY <1>18 DEF FinalSample, FrameCollected, GiveUpWriter, FrameRaises, Reopened
  <1>19. ASSUME NEW c \in Stoppers, StopReturns(c) PROVE StateInv'
    BY <1>19 DEF StopReturns
  <1>20. ASSUME NEW c \in Stoppers, StopCancelled(c) PROVE StateInv'
    BY <1>20 DEF StopCancelled
  <1>21. CASE UNCHANGED vars
    BY <1>21 DEF vars, control, data
  <1> QED
    BY <1>1, <1>2, <1>3, <1>4, <1>5, <1>6, <1>7, <1>8, <1>9, <1>10, <1>11,
       <1>12, <1>13, <1>14, <1>15, <1>16, <1>17, <1>18, <1>19, <1>20, <1>21
    DEF Next, Stop, Terminated

\* The result is that of a closed session.
LEMMA ResultStep == TypeOK /\ LockInv /\ StateInv /\ ResultInv /\ [Next]_vars => ResultInv'
  <1> SUFFICES ASSUME TypeOK, LockInv, StateInv, ResultInv, [Next]_vars
               PROVE  ResultInv'
    OBVIOUS
  <1> USE ConstantsAssumption, FinalsAppended, FinalsKept DEF TypeOK, LockInv,
     StateInv, ResultInv, Idle, Holding, Ended, Kinds
  <1>1. CASE StartFails
    BY <1>1 DEF StartFails, data
  <1>2. CASE StartOpens
    BY <1>2 DEF StartOpens
  <1>3. CASE StartReturns
    BY <1>3 DEF StartReturns, FrameCollected, GiveUpWriter, Reopened
  <1>4. CASE StartRollsBack
    BY <1>4 DEF StartRollsBack, FrameRaises, Reopened
  <1>5. CASE RolledBack
    BY <1>5 DEF RolledBack
  <1>6. CASE RollbackCancelled
    BY <1>6 DEF RollbackCancelled, data
  <1>7. CASE Tick
    BY <1>7 DEF Tick
  <1>8. CASE Sampled
    BY <1>8 DEF Sampled, FrameCollected, GiveUpWriter, Reopened
  <1>9. CASE LoopFails
    BY <1>9 DEF LoopFails, FrameRaises, Reopened
  <1>10. CASE LoopEnds
    BY <1>10 DEF LoopEnds, data
  <1>11. ASSUME NEW c \in Stoppers, CallStop(c) PROVE ResultInv'
    BY <1>11 DEF CallStop, data
  <1>12. ASSUME NEW c \in Stoppers, Return(c) PROVE ResultInv'
    BY <1>12 DEF Return, data
  <1>13. ASSUME NEW c \in Stoppers, Drain(c) PROVE ResultInv'
    BY <1>13 DEF Drain, data
  <1>14. ASSUME NEW c \in Stoppers, Drained(c) PROVE ResultInv'
    BY <1>14 DEF Drained, data
  <1>15. ASSUME NEW c \in Stoppers, StopRefused(c) PROVE ResultInv'
    BY <1>15 DEF StopRefused, data
  <1>16. ASSUME NEW c \in Stoppers, StopBegins(c) PROVE ResultInv'
    BY <1>16 DEF StopBegins
  <1>17. ASSUME NEW c \in Stoppers, Joined(c) PROVE ResultInv'
    BY <1>17 DEF Joined
  <1>18. ASSUME NEW c \in Stoppers, FinalSample(c) PROVE ResultInv'
    BY <1>18 DEF FinalSample, FrameCollected, GiveUpWriter, FrameRaises, Reopened
  <1>19. ASSUME NEW c \in Stoppers, StopReturns(c) PROVE ResultInv'
    BY <1>19 DEF StopReturns
  <1>20. ASSUME NEW c \in Stoppers, StopCancelled(c) PROVE ResultInv'
    BY <1>20 DEF StopCancelled
  <1>21. CASE UNCHANGED vars
    BY <1>21 DEF vars, control, data
  <1> QED
    BY <1>1, <1>2, <1>3, <1>4, <1>5, <1>6, <1>7, <1>8, <1>9, <1>10, <1>11,
       <1>12, <1>13, <1>14, <1>15, <1>16, <1>17, <1>18, <1>19, <1>20, <1>21
    DEF Next, Stop, Terminated

\* The file follows the frames until a write fails.
LEMMA FileStep == TypeOK /\ LockInv /\ StateInv /\ FileInv /\ [Next]_vars => FileInv'
  <1> SUFFICES ASSUME TypeOK, LockInv, StateInv, FileInv, [Next]_vars
               PROVE  FileInv'
    OBVIOUS
  <1> USE ConstantsAssumption DEF TypeOK, LockInv, StateInv, FileInv, Idle, Holding
  <1>1. CASE StartFails
    BY <1>1 DEF StartFails, data
  <1>2. CASE StartOpens
    BY <1>2 DEF StartOpens
  <1>3. CASE StartReturns
    BY <1>3 DEF StartReturns, FrameCollected, GiveUpWriter, Reopened
  <1>4. CASE StartRollsBack
    BY <1>4 DEF StartRollsBack, FrameRaises, Reopened
  <1>5. CASE RolledBack
    BY <1>5 DEF RolledBack
  <1>6. CASE RollbackCancelled
    BY <1>6 DEF RollbackCancelled, data
  <1>7. CASE Tick
    BY <1>7 DEF Tick
  <1>8. CASE Sampled
    BY <1>8 DEF Sampled, FrameCollected, GiveUpWriter, Reopened
  <1>9. CASE LoopFails
    BY <1>9 DEF LoopFails, FrameRaises, Reopened
  <1>10. CASE LoopEnds
    BY <1>10 DEF LoopEnds, data
  <1>11. ASSUME NEW c \in Stoppers, CallStop(c) PROVE FileInv'
    BY <1>11 DEF CallStop, data
  <1>12. ASSUME NEW c \in Stoppers, Return(c) PROVE FileInv'
    BY <1>12 DEF Return, data
  <1>13. ASSUME NEW c \in Stoppers, Drain(c) PROVE FileInv'
    BY <1>13 DEF Drain, data
  <1>14. ASSUME NEW c \in Stoppers, Drained(c) PROVE FileInv'
    BY <1>14 DEF Drained, data
  <1>15. ASSUME NEW c \in Stoppers, StopRefused(c) PROVE FileInv'
    BY <1>15 DEF StopRefused, data
  <1>16. ASSUME NEW c \in Stoppers, StopBegins(c) PROVE FileInv'
    BY <1>16 DEF StopBegins
  <1>17. ASSUME NEW c \in Stoppers, Joined(c) PROVE FileInv'
    BY <1>17 DEF Joined
  <1>18. ASSUME NEW c \in Stoppers, FinalSample(c) PROVE FileInv'
    BY <1>18 DEF FinalSample, FrameCollected, GiveUpWriter, FrameRaises, Reopened
  <1>19. ASSUME NEW c \in Stoppers, StopReturns(c) PROVE FileInv'
    BY <1>19 DEF StopReturns
  <1>20. ASSUME NEW c \in Stoppers, StopCancelled(c) PROVE FileInv'
    BY <1>20 DEF StopCancelled
  <1>21. CASE UNCHANGED vars
    BY <1>21 DEF vars, control, data
  <1> QED
    BY <1>1, <1>2, <1>3, <1>4, <1>5, <1>6, <1>7, <1>8, <1>9, <1>10, <1>11,
       <1>12, <1>13, <1>14, <1>15, <1>16, <1>17, <1>18, <1>19, <1>20, <1>21
    DEF Next, Stop, Terminated

-----------------------------------------------------------------------------
(* The invariant.                                                          *)

\* The initial states satisfy it.
LEMMA InvariantInit == Init => IInv
  <1> SUFFICES ASSUME Init PROVE IInv
    OBVIOUS
  <1>1. TypeOK
    BY ConstantsAssumption
    DEF Init, TypeOK, ConstantsAssumption, Idle, Sources, Holding, Ended, Kinds
  <1>2. LockInv /\ CallInv
    BY ConstantsAssumption
    DEF Init, LockInv, CallInv, ConstantsAssumption, Idle, Holding, Ended
  <1>3. StateInv
    BY DEF Init, StateInv, Idle, Holding
  <1>4. ResultInv /\ FileInv
    BY DEF Init, ResultInv, FileInv, Finals
  <1> QED
    BY <1>1, <1>2, <1>3, <1>4 DEF IInv

\* Every step preserves it.
LEMMA InvariantStep == IInv /\ [Next]_vars => IInv'
  BY TypeStep, LockStep, CallStep, StateStep, ResultStep, FileStep DEF IInv

\* Who holds the lock, what the session's state says of the sampling task and
\* of the resources, and what the result and the file hold: in every
\* interleaving of start, the sampling task and any number of stops.
THEOREM Invariant == Spec => []IInv
  BY InvariantInit, InvariantStep, PTL DEF Spec

\* Every variable keeps its type.
THEOREM TypeCorrect == Spec => []TypeOK
  <1>1. IInv => TypeOK
    BY DEF IInv
  <1> QED
    BY Invariant, <1>1, PTL

-----------------------------------------------------------------------------
(* Safety properties.                                                      *)

\* A stopped session samples no more and holds nothing open.
THEOREM StoppedHoldsNothing == Spec => []StoppedIsClosed
  <1>1. IInv => StoppedIsClosed
    <2> SUFFICES ASSUME IInv, state = "stopped"
                 PROVE  open = {} /\ writer # "open" /\ sampler \in {"none", "ended"}
      BY DEF StoppedIsClosed
    <2>1. open = {} /\ writer # "open"
      BY DEF IInv, ResultInv
    <2>2. sampler \notin {"waiting", "collecting"}
      BY DEF IInv, StateInv
    <2>3. sampler # "cancelled"
      BY DEF IInv, StateInv, Holding
    <2> QED
      BY <2>1, <2>2, <2>3 DEF IInv, TypeOK
  <1> QED
    BY Invariant, <1>1, PTL

\* The result is built from all the frames there are and ever will be.
THEOREM ResultHasEveryFrame == Spec => []ResultIsComplete
  <1>1. IInv => ResultIsComplete
    BY DEF IInv, ResultInv, ResultIsComplete
  <1> QED
    BY Invariant, <1>1, PTL

\* A stop that returns has a final sample or says why there is none.
THEOREM ReturnsWithFinal == Spec => []ReturnHasFinal
  <1>1. IInv => ReturnHasFinal
    BY DEF IInv, CallInv, ResultInv, ReturnHasFinal
  <1> QED
    BY Invariant, <1>1, PTL

\* The file holds every frame unless a failed write is recorded.
THEOREM FileHasEveryFrame == Spec => []FileAgrees
  <1>1. IInv => FileAgrees
    BY DEF IInv, FileInv, FileAgrees
  <1> QED
    BY Invariant, <1>1, PTL

-----------------------------------------------------------------------------
(* The first cancellation.                                                 *)

\* A task is cancelled, and a final sample given up, only by a cancellation of a
\* caller that waits because of an earlier one.
FirstInv ==
  /\ \A c \in Stoppers : call[c] = "draining" => cancels >= 1
  /\ cancels <= 1 =>
       /\ \A c \in Stoppers :
            /\ cleanup[c] # "cancelled"
            /\ call[c] = "cancelled" => cleanup[c] = "returned"
       /\ "final" \in errors => Finals # {}

LEMMA FirstInit == Init => FirstInv
  BY DEF Init, FirstInv, Idle

LEMMA FirstStep == TypeOK /\ CallInv /\ FirstInv /\ [Next]_vars => FirstInv'
  <1> SUFFICES ASSUME TypeOK, CallInv, FirstInv, [Next]_vars
               PROVE  FirstInv'
    OBVIOUS
  <1> USE ConstantsAssumption, FinalsAppended, FinalsKept DEF TypeOK, CallInv,
     FirstInv, Idle, Holding, Ended, Kinds
  <1>1. CASE StartFails
    BY <1>1 DEF StartFails, data
  <1>2. CASE StartOpens
    BY <1>2 DEF StartOpens
  <1>3. CASE StartReturns
    BY <1>3 DEF StartReturns, FrameCollected, GiveUpWriter, Reopened
  <1>4. CASE StartRollsBack
    BY <1>4 DEF StartRollsBack, FrameRaises, Reopened
  <1>5. CASE RolledBack
    BY <1>5 DEF RolledBack
  <1>6. CASE RollbackCancelled
    BY <1>6 DEF RollbackCancelled, data
  <1>7. CASE Tick
    BY <1>7 DEF Tick
  <1>8. CASE Sampled
    BY <1>8 DEF Sampled, FrameCollected, GiveUpWriter, Reopened
  <1>9. CASE LoopFails
    BY <1>9 DEF LoopFails, FrameRaises, Reopened
  <1>10. CASE LoopEnds
    BY <1>10 DEF LoopEnds, data
  <1>11. ASSUME NEW c \in Stoppers, CallStop(c) PROVE FirstInv'
    BY <1>11 DEF CallStop, data
  <1>12. ASSUME NEW c \in Stoppers, Return(c) PROVE FirstInv'
    BY <1>12 DEF Return, data
  <1>13. ASSUME NEW c \in Stoppers, Drain(c) PROVE FirstInv'
    BY <1>13 DEF Drain, data
  <1>14. ASSUME NEW c \in Stoppers, Drained(c) PROVE FirstInv'
    BY <1>14 DEF Drained, data
  <1>15. ASSUME NEW c \in Stoppers, StopRefused(c) PROVE FirstInv'
    BY <1>15 DEF StopRefused, data
  <1>16. ASSUME NEW c \in Stoppers, StopBegins(c) PROVE FirstInv'
    BY <1>16 DEF StopBegins
  <1>17. ASSUME NEW c \in Stoppers, Joined(c) PROVE FirstInv'
    BY <1>17 DEF Joined
  <1>18. ASSUME NEW c \in Stoppers, FinalSample(c) PROVE FirstInv'
    BY <1>18 DEF FinalSample, FrameCollected, GiveUpWriter, FrameRaises, Reopened
  <1>19. ASSUME NEW c \in Stoppers, StopReturns(c) PROVE FirstInv'
    BY <1>19 DEF StopReturns
  <1>20. ASSUME NEW c \in Stoppers, StopCancelled(c) PROVE FirstInv'
    BY <1>20 DEF StopCancelled
  <1>21. CASE UNCHANGED vars
    BY <1>21 DEF vars, control, data
  <1> QED
    BY <1>1, <1>2, <1>3, <1>4, <1>5, <1>6, <1>7, <1>8, <1>9, <1>10, <1>11,
       <1>12, <1>13, <1>14, <1>15, <1>16, <1>17, <1>18, <1>19, <1>20, <1>21
    DEF Next, Stop, Terminated

\* One cancellation, of whichever caller and wherever it hits, leaves the session
\* stopped, everything closed and the final sample taken.
THEOREM FirstCancellationCompletes == Spec => []FirstCancelCompletes
  <1>1. IInv /\ FirstInv => FirstCancelCompletes
    <2> SUFFICES ASSUME IInv, FirstInv, cancels <= 1,
                        NEW c \in Stoppers, call[c] = "cancelled"
                 PROVE  state = "stopped" /\ open = {} /\ Finals # {}
      BY DEF FirstCancelCompletes, CancelledStopCompletes
    <2>1. cleanup[c] = "returned" /\ ("final" \in errors => Finals # {})
      BY DEF FirstInv
    <2>2. state = "stopped" /\ result # {}
      BY <2>1 DEF IInv, CallInv
    <2> QED
      BY <2>1, <2>2 DEF IInv, ResultInv
  <1>2. IInv => TypeOK /\ CallInv
    BY DEF IInv
  <1> QED
    BY Invariant, FirstInit, FirstStep, <1>1, <1>2, PTL DEF Spec

\* Nobody who waits for its own shielded task is cancelled once more.
NobodyTwice == \A c \in Stoppers : ~StopCancelled(c)

\* Then every task of a stop runs to its end.
EachInv ==
  /\ \A c \in Stoppers :
       /\ cleanup[c] # "cancelled"
       /\ call[c] = "cancelled" => cleanup[c] = "returned"
  /\ "final" \in errors => Finals # {}

LEMMA EachInit == Init => EachInv
  BY DEF Init, EachInv, Idle

LEMMA EachStep == TypeOK /\ CallInv /\ EachInv /\ [Next /\ NobodyTwice]_vars => EachInv'
  <1> SUFFICES ASSUME TypeOK, CallInv, EachInv, [Next /\ NobodyTwice]_vars
               PROVE  EachInv'
    OBVIOUS
  <1> USE ConstantsAssumption, FinalsAppended, FinalsKept DEF TypeOK, CallInv,
     EachInv, Idle, Holding, Ended, Kinds
  <1>1. CASE StartFails
    BY <1>1 DEF StartFails, data
  <1>2. CASE StartOpens
    BY <1>2 DEF StartOpens
  <1>3. CASE StartReturns
    BY <1>3 DEF StartReturns, FrameCollected, GiveUpWriter, Reopened
  <1>4. CASE StartRollsBack
    BY <1>4 DEF StartRollsBack, FrameRaises, Reopened
  <1>5. CASE RolledBack
    BY <1>5 DEF RolledBack
  <1>6. CASE RollbackCancelled
    BY <1>6 DEF RollbackCancelled, data
  <1>7. CASE Tick
    BY <1>7 DEF Tick
  <1>8. CASE Sampled
    BY <1>8 DEF Sampled, FrameCollected, GiveUpWriter, Reopened
  <1>9. CASE LoopFails
    BY <1>9 DEF LoopFails, FrameRaises, Reopened
  <1>10. CASE LoopEnds
    BY <1>10 DEF LoopEnds, data
  <1>11. ASSUME NEW c \in Stoppers, CallStop(c) PROVE EachInv'
    BY <1>11 DEF CallStop, data
  <1>12. ASSUME NEW c \in Stoppers, Return(c) PROVE EachInv'
    BY <1>12 DEF Return, data
  <1>13. ASSUME NEW c \in Stoppers, Drain(c) PROVE EachInv'
    BY <1>13 DEF Drain, data
  <1>14. ASSUME NEW c \in Stoppers, Drained(c) PROVE EachInv'
    BY <1>14 DEF Drained, data
  <1>15. ASSUME NEW c \in Stoppers, StopRefused(c) PROVE EachInv'
    BY <1>15 DEF StopRefused, data
  <1>16. ASSUME NEW c \in Stoppers, StopBegins(c) PROVE EachInv'
    BY <1>16 DEF StopBegins
  <1>17. ASSUME NEW c \in Stoppers, Joined(c) PROVE EachInv'
    BY <1>17 DEF Joined
  <1>18. ASSUME NEW c \in Stoppers, FinalSample(c) PROVE EachInv'
    BY <1>18 DEF FinalSample, FrameCollected, GiveUpWriter, FrameRaises, Reopened
  <1>19. ASSUME NEW c \in Stoppers, StopReturns(c) PROVE EachInv'
    BY <1>19 DEF StopReturns
  <1>20. ASSUME NEW c \in Stoppers, NobodyTwice, StopCancelled(c) PROVE EachInv'
    BY <1>20 DEF NobodyTwice
  <1>21. CASE UNCHANGED vars
    BY <1>21 DEF vars, control, data
  <1>22. CASE Next /\ NobodyTwice
    BY <1>22, <1>1, <1>2, <1>3, <1>4, <1>5, <1>6, <1>7, <1>8, <1>9, <1>10, <1>11,
       <1>12, <1>13, <1>14, <1>15, <1>16, <1>17, <1>18, <1>19, <1>20, <1>21
    DEF Next, Stop, Terminated
  <1> QED
    BY <1>21, <1>22

\* However many callers of stop there are, all of them may be cancelled, wherever
\* they are, and start besides: as long as none is cancelled twice, the session is
\* stopped, everything is closed and the final sample taken before any of them
\* hears of its cancellation.
THEOREM OneCancellationEachCompletes ==
  Spec /\ [][NobodyTwice]_vars => []CancelledStopCompletes
  <1>1. IInv /\ EachInv => CancelledStopCompletes
    <2> SUFFICES ASSUME IInv, EachInv,
                        NEW c \in Stoppers, call[c] = "cancelled"
                 PROVE  state = "stopped" /\ open = {} /\ Finals # {}
      BY DEF CancelledStopCompletes
    <2>1. cleanup[c] = "returned" /\ ("final" \in errors => Finals # {})
      BY DEF EachInv
    <2>2. state = "stopped" /\ result # {}
      BY <2>1 DEF IInv, CallInv
    <2> QED
      BY <2>1, <2>2 DEF IInv, ResultInv
  <1>2. IInv => TypeOK /\ CallInv
    BY DEF IInv
  <1>3. [Next]_vars /\ [NobodyTwice]_vars => [Next /\ NobodyTwice]_vars
    OBVIOUS
  <1> QED
    BY Invariant, EachInit, EachStep, <1>1, <1>2, <1>3, PTL DEF Spec

-----------------------------------------------------------------------------
(* The refinement of TelemetryWindow.                                      *)

\* The only frames collected outside the sampling task are the first one and
\* final ones, and the sampling task runs only while there is no final one.
LEMMA WindowCollect ==
  ASSUME NEW kind \in Kinds, TypeOK, result = {}, result' = result,
         frames' = Append(frames, kind),
         kind = "baseline" => frames = <<>>,
         kind # "final" => Finals = {}
  PROVE  Window!Next
  <1>1. Window!Ends(frames) => kind = "final"
    BY DEF TypeOK, Window!Ends, Finals
  <1>2. Window!Collect(kind)
    BY <1>1 DEF Window!Collect
  <1> QED
    BY <1>2 DEF Window!Next, Window!Kinds, Kinds

\* Steps that touch neither the frames nor the result stutter.
LEMMA WindowStutter == frames' = frames /\ result' = result => [Window!Next]_Window!vars
  BY DEF Window!vars

\* Every step is a step of the window or stutters.
LEMMA WindowStep == IInv /\ [Next]_vars => [Window!Next]_Window!vars
  <1> SUFFICES ASSUME IInv, [Next]_vars
               PROVE  [Window!Next]_Window!vars
    OBVIOUS
  <1> USE WindowStutter
  <1>1. CASE StartFails
    BY <1>1 DEF StartFails, data
  <1>2. CASE StartOpens
    BY <1>2 DEF StartOpens
  <1>3. CASE StartReturns
    BY <1>3, WindowCollect DEF StartReturns, FrameCollected, GiveUpWriter,
       Reopened, IInv, StateInv, ResultInv, LockInv, Kinds, Finals, TypeOK
  <1>4. CASE StartRollsBack
    BY <1>4, WindowCollect DEF StartRollsBack, FrameRaises, Reopened, IInv,
       StateInv, ResultInv, LockInv, Kinds, Finals
  <1>5. CASE RolledBack
    BY <1>5 DEF RolledBack
  <1>6. CASE RollbackCancelled
    BY <1>6 DEF RollbackCancelled, data
  <1>7. CASE Tick
    BY <1>7 DEF Tick
  <1>8. CASE Sampled
    BY <1>8, WindowCollect DEF Sampled, FrameCollected, GiveUpWriter,
       Reopened, IInv, StateInv, ResultInv, LockInv, Kinds
  <1>9. CASE LoopFails
    BY <1>9, WindowCollect DEF LoopFails, FrameRaises, Reopened, IInv,
       StateInv, ResultInv, LockInv, Kinds
  <1>10. CASE LoopEnds
    BY <1>10 DEF LoopEnds, data
  <1>11. ASSUME NEW c \in Stoppers, CallStop(c) PROVE [Window!Next]_Window!vars
    BY <1>11 DEF CallStop, data
  <1>12. ASSUME NEW c \in Stoppers, Return(c) PROVE [Window!Next]_Window!vars
    BY <1>12 DEF Return, data
  <1>13. ASSUME NEW c \in Stoppers, Drain(c) PROVE [Window!Next]_Window!vars
    BY <1>13 DEF Drain, data
  <1>14. ASSUME NEW c \in Stoppers, Drained(c) PROVE [Window!Next]_Window!vars
    BY <1>14 DEF Drained, data
  <1>15. ASSUME NEW c \in Stoppers, StopRefused(c) PROVE [Window!Next]_Window!vars
    BY <1>15 DEF StopRefused, data
  <1>16. ASSUME NEW c \in Stoppers, StopBegins(c) PROVE [Window!Next]_Window!vars
    BY <1>16 DEF StopBegins
  <1>17. ASSUME NEW c \in Stoppers, Joined(c) PROVE [Window!Next]_Window!vars
    BY <1>17 DEF Joined
  <1>18. ASSUME NEW c \in Stoppers, FinalSample(c) PROVE [Window!Next]_Window!vars
    BY <1>18, WindowCollect DEF FinalSample, FrameCollected, GiveUpWriter,
       FrameRaises, Reopened, IInv, StateInv, ResultInv, LockInv, Kinds,
       Holding
  <1>19. ASSUME NEW c \in Stoppers, StopReturns(c) PROVE [Window!Next]_Window!vars
    BY <1>19 DEF StopReturns, IInv, ResultInv, StateInv, Holding, Window!Next,
       Window!Publish
  <1>20. ASSUME NEW c \in Stoppers, StopCancelled(c) PROVE [Window!Next]_Window!vars
    BY <1>20 DEF StopCancelled
  <1>21. CASE UNCHANGED vars
    BY <1>21 DEF vars, control, data
  <1> QED
    BY <1>1, <1>2, <1>3, <1>4, <1>5, <1>6, <1>7, <1>8, <1>9, <1>10, <1>11,
       <1>12, <1>13, <1>14, <1>15, <1>16, <1>17, <1>18, <1>19, <1>20, <1>21
    DEF Next, Stop, Terminated

\* Readers of the result see a window: baseline first, final samples last, and a
\* result that is complete and does not change.
THEOREM KeepsWindow == Spec => ImplementsWindow
  <1>1. Init => Window!Init
    BY DEF Init, Window!Init
  <1> QED
    BY Invariant, WindowStep, <1>1, PTL DEF Spec, ImplementsWindow, Window!Spec

=============================================================================
