------------------------ MODULE ManagedServerProofs ------------------------
(***************************************************************************)
(* Theorems about ManagedServer, for any number of worker processes, stop  *)
(* calls and cancellations, and whatever the machine does.                 *)
(***************************************************************************)
EXTENDS ManagedServer, TLAPS

-----------------------------------------------------------------------------
(* The parts of the invariant, one lemma each.                             *)

\* The machine's processes, GPU and port keep their types.
LEMMA MachineStep == MachineOK /\ BornInv /\ [Next]_vars => MachineOK'
  <1> SUFFICES ASSUME MachineOK, BornInv, [Next]_vars
               PROVE  MachineOK'
    OBVIOUS
  <1> USE ConstantsAssumption DEF MachineOK, Alive, Free, Own
  <1>1. ASSUME NEW p \in Own, NEW q \in Workers, Fork(p, q),
              UNCHANGED <<server, locals, call, signals, cancels>>
       PROVE  MachineOK'
    BY <1>1 DEF Fork, server, locals
  <1>2. ASSUME NEW q \in Own, Detach(q),
              UNCHANGED <<server, locals, call, signals, cancels>>
       PROVE  MachineOK'
    BY <1>2 DEF Detach, server, locals
  <1>3. ASSUME NEW q \in Own, UseGpu(q),
              UNCHANGED <<server, locals, call, signals, cancels>>
       PROVE  MachineOK'
    BY <1>3 DEF UseGpu, server, locals
  <1>4. ASSUME NEW q \in Own, BindPort(q),
              UNCHANGED <<server, locals, call, signals, cancels>>
       PROVE  MachineOK'
    BY <1>4 DEF BindPort, server, locals
  <1>5. ASSUME NEW q \in Own, Exit(q),
              UNCHANGED <<server, locals, call, signals, cancels>>
       PROVE  MachineOK'
    BY <1>5 DEF Exit, server, locals
  <1>6. ASSUME NEW q \in Own, GpuFreed(q),
              UNCHANGED <<server, locals, call, signals, cancels>>
       PROVE  MachineOK'
    BY <1>6 DEF GpuFreed, server, locals
  <1>7. ASSUME ForeignGpu,
              UNCHANGED <<server, locals, call, signals, cancels>>
       PROVE  MachineOK'
    BY <1>7 DEF ForeignGpu, server, locals
  <1>8. ASSUME ForeignPort,
              UNCHANGED <<server, locals, call, signals, cancels>>
       PROVE  MachineOK'
    BY <1>8 DEF ForeignPort, server, locals
  <1>9. CASE Machine
    BY <1>9, <1>1, <1>2, <1>3, <1>4, <1>5, <1>6, <1>7, <1>8 DEF Machine
  <1>10. CASE StartRefused
    BY <1>10 DEF StartRefused, machine, server, locals
  <1>11. CASE StartChecksPort
    BY <1>11 DEF StartChecksPort, machine, server, locals
  <1>12. CASE StartReadsBaseline
    BY <1>12 DEF StartReadsBaseline, machine, server, locals
  <1>13. CASE Spawn
    BY <1>13 DEF Spawn, machine, server, locals, BornInv
  <1>14. CASE WaitReady
    BY <1>14 DEF WaitReady, machine, server, locals
  <1>15. CASE Poll
    BY <1>15 DEF Poll, machine, server, locals
  <1>16. CASE Get
    BY <1>16 DEF Get, machine, server, locals
  <1>17. CASE AbandonReady
    BY <1>17 DEF AbandonReady, machine, server, locals
  <1>18. CASE List
    BY <1>18 DEF List, machine, server, locals
  <1>19. CASE Survey
    BY <1>19 DEF Survey, machine, server, locals, GroupSeen
  <1>20. CASE LookAgain
    BY <1>20 DEF LookAgain, machine, server, locals, Look, Released, GroupSeen
  <1>21. CASE LeaveTerm
    BY <1>21 DEF LeaveTerm, machine, server, locals, Look, Released, GroupSeen
  <1>22. CASE LeaveKill
    BY <1>22 DEF LeaveKill, machine, server, locals, Look, Released, GroupSeen
  <1>23. CASE Resume
    BY <1>23 DEF Resume, machine, server, locals
  <1>24. CASE ComputeAgain
    BY <1>24 DEF ComputeAgain, machine, server, locals
  <1>25. CASE Judge
    BY <1>25 DEF Judge, machine, server, locals, ForgetLocals, Verdict, Residual
  <1>26. ASSUME NEW c \in Stoppers, CallStop(c) PROVE MachineOK'
    BY <1>26 DEF CallStop, machine, server, locals
  <1>27. ASSUME NEW c \in Stoppers, StopCached(c) PROVE MachineOK'
    BY <1>27 DEF StopCached, machine, server, locals
  <1>28. ASSUME NEW c \in Stoppers, StopEnters(c) PROVE MachineOK'
    BY <1>28 DEF StopEnters, machine, server, locals
  <1>29. ASSUME NEW c \in Stoppers, StopCancelled(c) PROVE MachineOK'
    BY <1>29 DEF StopCancelled, machine, server, locals, ForgetLocals
  <1>30. CASE UNCHANGED vars
    BY <1>30 DEF vars, machine, server, locals
  <1> QED
    BY <1>9, <1>10, <1>11, <1>12, <1>13, <1>14, <1>15, <1>16, <1>17, <1>18,
       <1>19, <1>20, <1>21, <1>22, <1>23, <1>24, <1>25, <1>26, <1>27, <1>28,
       <1>29, <1>30
    DEF Next, Inside

\* The server's fields and the locals of stop keep their types.
LEMMA ServerStep == MachineOK /\ ServerOK /\ [Next]_vars => ServerOK'
  <1> SUFFICES ASSUME MachineOK, ServerOK, [Next]_vars
               PROVE  ServerOK'
    OBVIOUS
  <1> USE DEF MachineOK, ServerOK, Alive, Idle, Steps, Own, NoOne
  <1>1. ASSUME NEW p \in Own, NEW q \in Workers, Fork(p, q),
              UNCHANGED <<server, locals, call, signals, cancels>>
       PROVE  ServerOK'
    BY <1>1 DEF Fork, server, locals
  <1>2. ASSUME NEW q \in Own, Detach(q),
              UNCHANGED <<server, locals, call, signals, cancels>>
       PROVE  ServerOK'
    BY <1>2 DEF Detach, server, locals
  <1>3. ASSUME NEW q \in Own, UseGpu(q),
              UNCHANGED <<server, locals, call, signals, cancels>>
       PROVE  ServerOK'
    BY <1>3 DEF UseGpu, server, locals
  <1>4. ASSUME NEW q \in Own, BindPort(q),
              UNCHANGED <<server, locals, call, signals, cancels>>
       PROVE  ServerOK'
    BY <1>4 DEF BindPort, server, locals
  <1>5. ASSUME NEW q \in Own, Exit(q),
              UNCHANGED <<server, locals, call, signals, cancels>>
       PROVE  ServerOK'
    BY <1>5 DEF Exit, server, locals
  <1>6. ASSUME NEW q \in Own, GpuFreed(q),
              UNCHANGED <<server, locals, call, signals, cancels>>
       PROVE  ServerOK'
    BY <1>6 DEF GpuFreed, server, locals
  <1>7. ASSUME ForeignGpu,
              UNCHANGED <<server, locals, call, signals, cancels>>
       PROVE  ServerOK'
    BY <1>7 DEF ForeignGpu, server, locals
  <1>8. ASSUME ForeignPort,
              UNCHANGED <<server, locals, call, signals, cancels>>
       PROVE  ServerOK'
    BY <1>8 DEF ForeignPort, server, locals
  <1>9. CASE Machine
    BY <1>9, <1>1, <1>2, <1>3, <1>4, <1>5, <1>6, <1>7, <1>8 DEF Machine
  <1>10. CASE StartRefused
    BY <1>10 DEF StartRefused, machine, server, locals
  <1>11. CASE StartChecksPort
    BY <1>11 DEF StartChecksPort, machine, server, locals
  <1>12. CASE StartReadsBaseline
    BY <1>12 DEF StartReadsBaseline, machine, server, locals
  <1>13. CASE Spawn
    BY <1>13 DEF Spawn, machine, server, locals
  <1>14. CASE WaitReady
    BY <1>14 DEF WaitReady, machine, server, locals
  <1>15. CASE Poll
    BY <1>15 DEF Poll, machine, server, locals
  <1>16. CASE Get
    BY <1>16 DEF Get, machine, server, locals
  <1>17. CASE AbandonReady
    BY <1>17 DEF AbandonReady, machine, server, locals
  <1>18. CASE List
    BY <1>18 DEF List, machine, server, locals
  <1>19. CASE Survey
    BY <1>19 DEF Survey, machine, server, locals, GroupSeen
  <1>20. CASE LookAgain
    BY <1>20 DEF LookAgain, machine, server, locals, Look, Released, GroupSeen
  <1>21. CASE LeaveTerm
    BY <1>21 DEF LeaveTerm, machine, server, locals, Look, Released, GroupSeen
  <1>22. CASE LeaveKill
    BY <1>22 DEF LeaveKill, machine, server, locals, Look, Released, GroupSeen
  <1>23. CASE Resume
    BY <1>23 DEF Resume, machine, server, locals
  <1>24. CASE ComputeAgain
    BY <1>24 DEF ComputeAgain, machine, server, locals
  <1>25. CASE Judge
    BY <1>25 DEF Judge, machine, server, locals, ForgetLocals, Verdict, Residual
  <1>26. ASSUME NEW c \in Stoppers, CallStop(c) PROVE ServerOK'
    BY <1>26 DEF CallStop, machine, server, locals
  <1>27. ASSUME NEW c \in Stoppers, StopCached(c) PROVE ServerOK'
    BY <1>27 DEF StopCached, machine, server, locals
  <1>28. ASSUME NEW c \in Stoppers, StopEnters(c) PROVE ServerOK'
    BY <1>28 DEF StopEnters, machine, server, locals
  <1>29. ASSUME NEW c \in Stoppers, StopCancelled(c) PROVE ServerOK'
    BY <1>29 DEF StopCancelled, machine, server, locals, ForgetLocals
  <1>30. CASE UNCHANGED vars
    BY <1>30 DEF vars, machine, server, locals
  <1> QED
    BY <1>9, <1>10, <1>11, <1>12, <1>13, <1>14, <1>15, <1>16, <1>17, <1>18,
       <1>19, <1>20, <1>21, <1>22, <1>23, <1>24, <1>25, <1>26, <1>27, <1>28,
       <1>29, <1>30
    DEF Next, Inside

\* The flags stay Boolean.
LEMMA FlagsStep == FlagsOK /\ [Next]_vars => FlagsOK'
  <1> SUFFICES ASSUME FlagsOK, [Next]_vars
               PROVE  FlagsOK'
    OBVIOUS
  <1> USE DEF FlagsOK
  <1>1. ASSUME NEW p \in Own, NEW q \in Workers, Fork(p, q),
              UNCHANGED <<server, locals, call, signals, cancels>>
       PROVE  FlagsOK'
    BY <1>1 DEF Fork, server, locals
  <1>2. ASSUME NEW q \in Own, Detach(q),
              UNCHANGED <<server, locals, call, signals, cancels>>
       PROVE  FlagsOK'
    BY <1>2 DEF Detach, server, locals
  <1>3. ASSUME NEW q \in Own, UseGpu(q),
              UNCHANGED <<server, locals, call, signals, cancels>>
       PROVE  FlagsOK'
    BY <1>3 DEF UseGpu, server, locals
  <1>4. ASSUME NEW q \in Own, BindPort(q),
              UNCHANGED <<server, locals, call, signals, cancels>>
       PROVE  FlagsOK'
    BY <1>4 DEF BindPort, server, locals
  <1>5. ASSUME NEW q \in Own, Exit(q),
              UNCHANGED <<server, locals, call, signals, cancels>>
       PROVE  FlagsOK'
    BY <1>5 DEF Exit, server, locals
  <1>6. ASSUME NEW q \in Own, GpuFreed(q),
              UNCHANGED <<server, locals, call, signals, cancels>>
       PROVE  FlagsOK'
    BY <1>6 DEF GpuFreed, server, locals
  <1>7. ASSUME ForeignGpu,
              UNCHANGED <<server, locals, call, signals, cancels>>
       PROVE  FlagsOK'
    BY <1>7 DEF ForeignGpu, server, locals
  <1>8. ASSUME ForeignPort,
              UNCHANGED <<server, locals, call, signals, cancels>>
       PROVE  FlagsOK'
    BY <1>8 DEF ForeignPort, server, locals
  <1>9. CASE Machine
    BY <1>9, <1>1, <1>2, <1>3, <1>4, <1>5, <1>6, <1>7, <1>8 DEF Machine
  <1>10. CASE StartRefused
    BY <1>10 DEF StartRefused, machine, server, locals
  <1>11. CASE StartChecksPort
    BY <1>11 DEF StartChecksPort, machine, server, locals
  <1>12. CASE StartReadsBaseline
    BY <1>12 DEF StartReadsBaseline, machine, server, locals
  <1>13. CASE Spawn
    BY <1>13 DEF Spawn, machine, server, locals
  <1>14. CASE WaitReady
    BY <1>14 DEF WaitReady, machine, server, locals
  <1>15. CASE Poll
    BY <1>15 DEF Poll, machine, server, locals
  <1>16. CASE Get
    BY <1>16 DEF Get, machine, server, locals
  <1>17. CASE AbandonReady
    BY <1>17 DEF AbandonReady, machine, server, locals
  <1>18. CASE List
    BY <1>18 DEF List, machine, server, locals
  <1>19. CASE Survey
    BY <1>19 DEF Survey, machine, server, locals, GroupSeen
  <1>20. CASE LookAgain
    BY <1>20 DEF LookAgain, machine, server, locals, Look, Released, GroupSeen
  <1>21. CASE LeaveTerm
    BY <1>21 DEF LeaveTerm, machine, server, locals, Look, Released, GroupSeen
  <1>22. CASE LeaveKill
    BY <1>22 DEF LeaveKill, machine, server, locals, Look, Released, GroupSeen
  <1>23. CASE Resume
    BY <1>23 DEF Resume, machine, server, locals
  <1>24. CASE ComputeAgain
    BY <1>24 DEF ComputeAgain, machine, server, locals
  <1>25. CASE Judge
    BY <1>25 DEF Judge, machine, server, locals, ForgetLocals, Verdict, Residual
  <1>26. ASSUME NEW c \in Stoppers, CallStop(c) PROVE FlagsOK'
    BY <1>26 DEF CallStop, machine, server, locals
  <1>27. ASSUME NEW c \in Stoppers, StopCached(c) PROVE FlagsOK'
    BY <1>27 DEF StopCached, machine, server, locals
  <1>28. ASSUME NEW c \in Stoppers, StopEnters(c) PROVE FlagsOK'
    BY <1>28 DEF StopEnters, machine, server, locals
  <1>29. ASSUME NEW c \in Stoppers, StopCancelled(c) PROVE FlagsOK'
    BY <1>29 DEF StopCancelled, machine, server, locals, ForgetLocals
  <1>30. CASE UNCHANGED vars
    BY <1>30 DEF vars, machine, server, locals
  <1> QED
    BY <1>9, <1>10, <1>11, <1>12, <1>13, <1>14, <1>15, <1>16, <1>17, <1>18,
       <1>19, <1>20, <1>21, <1>22, <1>23, <1>24, <1>25, <1>26, <1>27, <1>28,
       <1>29, <1>30
    DEF Next, Inside

\* The lock and the calls keep their types.
LEMMA CallsStep == CallsOK /\ [Next]_vars => CallsOK'
  <1> SUFFICES ASSUME CallsOK, [Next]_vars
               PROVE  CallsOK'
    OBVIOUS
  <1> USE ConstantsAssumption DEF CallsOK, Idle, Ended, NoOne
  <1>1. ASSUME NEW p \in Own, NEW q \in Workers, Fork(p, q),
              UNCHANGED <<server, locals, call, signals, cancels>>
       PROVE  CallsOK'
    BY <1>1 DEF Fork, server, locals
  <1>2. ASSUME NEW q \in Own, Detach(q),
              UNCHANGED <<server, locals, call, signals, cancels>>
       PROVE  CallsOK'
    BY <1>2 DEF Detach, server, locals
  <1>3. ASSUME NEW q \in Own, UseGpu(q),
              UNCHANGED <<server, locals, call, signals, cancels>>
       PROVE  CallsOK'
    BY <1>3 DEF UseGpu, server, locals
  <1>4. ASSUME NEW q \in Own, BindPort(q),
              UNCHANGED <<server, locals, call, signals, cancels>>
       PROVE  CallsOK'
    BY <1>4 DEF BindPort, server, locals
  <1>5. ASSUME NEW q \in Own, Exit(q),
              UNCHANGED <<server, locals, call, signals, cancels>>
       PROVE  CallsOK'
    BY <1>5 DEF Exit, server, locals
  <1>6. ASSUME NEW q \in Own, GpuFreed(q),
              UNCHANGED <<server, locals, call, signals, cancels>>
       PROVE  CallsOK'
    BY <1>6 DEF GpuFreed, server, locals
  <1>7. ASSUME ForeignGpu,
              UNCHANGED <<server, locals, call, signals, cancels>>
       PROVE  CallsOK'
    BY <1>7 DEF ForeignGpu, server, locals
  <1>8. ASSUME ForeignPort,
              UNCHANGED <<server, locals, call, signals, cancels>>
       PROVE  CallsOK'
    BY <1>8 DEF ForeignPort, server, locals
  <1>9. CASE Machine
    BY <1>9, <1>1, <1>2, <1>3, <1>4, <1>5, <1>6, <1>7, <1>8 DEF Machine
  <1>10. CASE StartRefused
    BY <1>10 DEF StartRefused, machine, server, locals
  <1>11. CASE StartChecksPort
    BY <1>11 DEF StartChecksPort, machine, server, locals
  <1>12. CASE StartReadsBaseline
    BY <1>12 DEF StartReadsBaseline, machine, server, locals
  <1>13. CASE Spawn
    BY <1>13 DEF Spawn, machine, server, locals
  <1>14. CASE WaitReady
    BY <1>14 DEF WaitReady, machine, server, locals
  <1>15. CASE Poll
    BY <1>15 DEF Poll, machine, server, locals
  <1>16. CASE Get
    BY <1>16 DEF Get, machine, server, locals
  <1>17. CASE AbandonReady
    BY <1>17 DEF AbandonReady, machine, server, locals
  <1>18. CASE List
    BY <1>18 DEF List, machine, server, locals
  <1>19. CASE Survey
    BY <1>19 DEF Survey, machine, server, locals, GroupSeen
  <1>20. CASE LookAgain
    BY <1>20 DEF LookAgain, machine, server, locals, Look, Released, GroupSeen
  <1>21. CASE LeaveTerm
    BY <1>21 DEF LeaveTerm, machine, server, locals, Look, Released, GroupSeen
  <1>22. CASE LeaveKill
    BY <1>22 DEF LeaveKill, machine, server, locals, Look, Released, GroupSeen
  <1>23. CASE Resume
    BY <1>23 DEF Resume, machine, server, locals
  <1>24. CASE ComputeAgain
    BY <1>24 DEF ComputeAgain, machine, server, locals
  <1>25. CASE Judge
    BY <1>25 DEF Judge, machine, server, locals, ForgetLocals, Verdict, Residual
  <1>26. ASSUME NEW c \in Stoppers, CallStop(c) PROVE CallsOK'
    BY <1>26 DEF CallStop, machine, server, locals
  <1>27. ASSUME NEW c \in Stoppers, StopCached(c) PROVE CallsOK'
    BY <1>27 DEF StopCached, machine, server, locals
  <1>28. ASSUME NEW c \in Stoppers, StopEnters(c) PROVE CallsOK'
    BY <1>28 DEF StopEnters, machine, server, locals
  <1>29. ASSUME NEW c \in Stoppers, StopCancelled(c) PROVE CallsOK'
    BY <1>29 DEF StopCancelled, machine, server, locals, ForgetLocals
  <1>30. CASE UNCHANGED vars
    BY <1>30 DEF vars, machine, server, locals
  <1> QED
    BY <1>9, <1>10, <1>11, <1>12, <1>13, <1>14, <1>15, <1>16, <1>17, <1>18,
       <1>19, <1>20, <1>21, <1>22, <1>23, <1>24, <1>25, <1>26, <1>27, <1>28,
       <1>29, <1>30
    DEF Next, Inside

\* The server's processes descend from the leader; before it there are none.
LEMMA BornStep == MachineOK /\ ServerOK /\ CallsOK /\ BornInv /\ LockInv /\ [Next]_vars => BornInv'
  <1> SUFFICES ASSUME MachineOK, ServerOK, CallsOK, BornInv, LockInv, [Next]_vars
               PROVE  BornInv'
    OBVIOUS
  <1> USE ConstantsAssumption DEF MachineOK, ServerOK, CallsOK, BornInv,
     LockInv, Alive, Free, Idle, Over, Own, NoOne
  <1>1. ASSUME NEW p \in Own, NEW q \in Workers, Fork(p, q),
              UNCHANGED <<server, locals, call, signals, cancels>>
       PROVE  BornInv'
    BY <1>1 DEF Fork, server, locals
  <1>2. ASSUME NEW q \in Own, Detach(q),
              UNCHANGED <<server, locals, call, signals, cancels>>
       PROVE  BornInv'
    BY <1>2 DEF Detach, server, locals
  <1>3. ASSUME NEW q \in Own, UseGpu(q),
              UNCHANGED <<server, locals, call, signals, cancels>>
       PROVE  BornInv'
    BY <1>3 DEF UseGpu, server, locals
  <1>4. ASSUME NEW q \in Own, BindPort(q),
              UNCHANGED <<server, locals, call, signals, cancels>>
       PROVE  BornInv'
    BY <1>4 DEF BindPort, server, locals
  <1>5. ASSUME NEW q \in Own, Exit(q),
              UNCHANGED <<server, locals, call, signals, cancels>>
       PROVE  BornInv'
    BY <1>5 DEF Exit, server, locals
  <1>6. ASSUME NEW q \in Own, GpuFreed(q),
              UNCHANGED <<server, locals, call, signals, cancels>>
       PROVE  BornInv'
    BY <1>6 DEF GpuFreed, server, locals
  <1>7. ASSUME ForeignGpu,
              UNCHANGED <<server, locals, call, signals, cancels>>
       PROVE  BornInv'
    BY <1>7 DEF ForeignGpu, server, locals
  <1>8. ASSUME ForeignPort,
              UNCHANGED <<server, locals, call, signals, cancels>>
       PROVE  BornInv'
    BY <1>8 DEF ForeignPort, server, locals
  <1>9. CASE Machine
    BY <1>9, <1>1, <1>2, <1>3, <1>4, <1>5, <1>6, <1>7, <1>8 DEF Machine
  <1>10. CASE StartRefused
    BY <1>10 DEF StartRefused, machine, server, locals
  <1>11. CASE StartChecksPort
    BY <1>11 DEF StartChecksPort, machine, server, locals
  <1>12. CASE StartReadsBaseline
    BY <1>12 DEF StartReadsBaseline, machine, server, locals
  <1>13. CASE Spawn
    BY <1>13 DEF Spawn, machine, server, locals
  <1>14. CASE WaitReady
    BY <1>14 DEF WaitReady, machine, server, locals
  <1>15. CASE Poll
    BY <1>15 DEF Poll, machine, server, locals
  <1>16. CASE Get
    BY <1>16 DEF Get, machine, server, locals
  <1>17. CASE AbandonReady
    BY <1>17 DEF AbandonReady, machine, server, locals
  <1>18. CASE List
    BY <1>18 DEF List, machine, server, locals
  <1>19. CASE Survey
    BY <1>19 DEF Survey, machine, server, locals, GroupSeen
  <1>20. CASE LookAgain
    BY <1>20 DEF LookAgain, machine, server, locals, Look, Released, GroupSeen
  <1>21. CASE LeaveTerm
    BY <1>21 DEF LeaveTerm, machine, server, locals, Look, Released, GroupSeen
  <1>22. CASE LeaveKill
    BY <1>22 DEF LeaveKill, machine, server, locals, Look, Released, GroupSeen
  <1>23. CASE Resume
    BY <1>23 DEF Resume, machine, server, locals
  <1>24. CASE ComputeAgain
    BY <1>24 DEF ComputeAgain, machine, server, locals
  <1>25. CASE Judge
    BY <1>25 DEF Judge, machine, server, locals, ForgetLocals, Verdict, Residual
  <1>26. ASSUME NEW c \in Stoppers, CallStop(c) PROVE BornInv'
    BY <1>26 DEF CallStop, machine, server, locals
  <1>27. ASSUME NEW c \in Stoppers, StopCached(c) PROVE BornInv'
    BY <1>27 DEF StopCached, machine, server, locals
  <1>28. ASSUME NEW c \in Stoppers, StopEnters(c) PROVE BornInv'
    BY <1>28 DEF StopEnters, machine, server, locals
  <1>29. ASSUME NEW c \in Stoppers, StopCancelled(c) PROVE BornInv'
    BY <1>29 DEF StopCancelled, machine, server, locals, ForgetLocals
  <1>30. CASE UNCHANGED vars
    BY <1>30 DEF vars, machine, server, locals
  <1> QED
    BY <1>9, <1>10, <1>11, <1>12, <1>13, <1>14, <1>15, <1>16, <1>17, <1>18,
       <1>19, <1>20, <1>21, <1>22, <1>23, <1>24, <1>25, <1>26, <1>27, <1>28,
       <1>29, <1>30
    DEF Next, Inside

\* Stops begin when the launch is over, and one at a time holds the lock.
LEMMA LockStep == MachineOK /\ ServerOK /\ CallsOK /\ LockInv /\ [Next]_vars => LockInv'
  <1> SUFFICES ASSUME MachineOK, ServerOK, CallsOK, LockInv, [Next]_vars
               PROVE  LockInv'
    OBVIOUS
  <1> USE ConstantsAssumption DEF MachineOK, ServerOK, CallsOK, LockInv, Idle,
     Over, Ended, Steps, NoOne
  <1>1. ASSUME NEW p \in Own, NEW q \in Workers, Fork(p, q),
              UNCHANGED <<server, locals, call, signals, cancels>>
       PROVE  LockInv'
    BY <1>1 DEF Fork, server, locals
  <1>2. ASSUME NEW q \in Own, Detach(q),
              UNCHANGED <<server, locals, call, signals, cancels>>
       PROVE  LockInv'
    BY <1>2 DEF Detach, server, locals
  <1>3. ASSUME NEW q \in Own, UseGpu(q),
              UNCHANGED <<server, locals, call, signals, cancels>>
       PROVE  LockInv'
    BY <1>3 DEF UseGpu, server, locals
  <1>4. ASSUME NEW q \in Own, BindPort(q),
              UNCHANGED <<server, locals, call, signals, cancels>>
       PROVE  LockInv'
    BY <1>4 DEF BindPort, server, locals
  <1>5. ASSUME NEW q \in Own, Exit(q),
              UNCHANGED <<server, locals, call, signals, cancels>>
       PROVE  LockInv'
    BY <1>5 DEF Exit, server, locals
  <1>6. ASSUME NEW q \in Own, GpuFreed(q),
              UNCHANGED <<server, locals, call, signals, cancels>>
       PROVE  LockInv'
    BY <1>6 DEF GpuFreed, server, locals
  <1>7. ASSUME ForeignGpu,
              UNCHANGED <<server, locals, call, signals, cancels>>
       PROVE  LockInv'
    BY <1>7 DEF ForeignGpu, server, locals
  <1>8. ASSUME ForeignPort,
              UNCHANGED <<server, locals, call, signals, cancels>>
       PROVE  LockInv'
    BY <1>8 DEF ForeignPort, server, locals
  <1>9. CASE Machine
    BY <1>9, <1>1, <1>2, <1>3, <1>4, <1>5, <1>6, <1>7, <1>8 DEF Machine
  <1>10. CASE StartRefused
    BY <1>10 DEF StartRefused, machine, server, locals
  <1>11. CASE StartChecksPort
    BY <1>11 DEF StartChecksPort, machine, server, locals
  <1>12. CASE StartReadsBaseline
    BY <1>12 DEF StartReadsBaseline, machine, server, locals
  <1>13. CASE Spawn
    BY <1>13 DEF Spawn, machine, server, locals
  <1>14. CASE WaitReady
    BY <1>14 DEF WaitReady, machine, server, locals
  <1>15. CASE Poll
    BY <1>15 DEF Poll, machine, server, locals
  <1>16. CASE Get
    BY <1>16 DEF Get, machine, server, locals
  <1>17. CASE AbandonReady
    BY <1>17 DEF AbandonReady, machine, server, locals
  <1>18. CASE List
    BY <1>18 DEF List, machine, server, locals
  <1>19. CASE Survey
    BY <1>19 DEF Survey, machine, server, locals, GroupSeen
  <1>20. CASE LookAgain
    BY <1>20 DEF LookAgain, machine, server, locals, Look, Released, GroupSeen
  <1>21. CASE LeaveTerm
    BY <1>21 DEF LeaveTerm, machine, server, locals, Look, Released, GroupSeen
  <1>22. CASE LeaveKill
    BY <1>22 DEF LeaveKill, machine, server, locals, Look, Released, GroupSeen
  <1>23. CASE Resume
    BY <1>23 DEF Resume, machine, server, locals
  <1>24. CASE ComputeAgain
    BY <1>24 DEF ComputeAgain, machine, server, locals
  <1>25. CASE Judge
    BY <1>25 DEF Judge, machine, server, locals, ForgetLocals, Verdict, Residual
  <1>26. ASSUME NEW c \in Stoppers, CallStop(c) PROVE LockInv'
    BY <1>26 DEF CallStop, machine, server, locals
  <1>27. ASSUME NEW c \in Stoppers, StopCached(c) PROVE LockInv'
    BY <1>27 DEF StopCached, machine, server, locals
  <1>28. ASSUME NEW c \in Stoppers, StopEnters(c) PROVE LockInv'
    BY <1>28 DEF StopEnters, machine, server, locals
  <1>29. ASSUME NEW c \in Stoppers, StopCancelled(c) PROVE LockInv'
    BY <1>29 DEF StopCancelled, machine, server, locals, ForgetLocals
  <1>30. CASE UNCHANGED vars
    BY <1>30 DEF vars, machine, server, locals
  <1> QED
    BY <1>9, <1>10, <1>11, <1>12, <1>13, <1>14, <1>15, <1>16, <1>17, <1>18,
       <1>19, <1>20, <1>21, <1>22, <1>23, <1>24, <1>25, <1>26, <1>27, <1>28,
       <1>29, <1>30
    DEF Next, Inside

\* What was read of the group and the port stays true until the verdict.
LEMMA ReadStep == MachineOK /\ ServerOK /\ CallsOK /\ BornInv /\ LockInv /\ ReadInv /\ [Next]_vars => ReadInv'
  <1> SUFFICES ASSUME MachineOK, ServerOK, CallsOK, BornInv, LockInv, ReadInv, [Next]_vars
               PROVE  ReadInv'
    OBVIOUS
  <1> USE ConstantsAssumption DEF MachineOK, ServerOK, CallsOK, BornInv,
     LockInv, ReadInv, ExactProbe, Alive, Free, Idle, Over, Own, NoOne
  <1>1. ASSUME NEW p \in Own, NEW q \in Workers, Fork(p, q),
              UNCHANGED <<server, locals, call, signals, cancels>>
       PROVE  ReadInv'
    BY <1>1 DEF Fork, server, locals, Stopping
  <1>2. ASSUME NEW q \in Own, Detach(q),
              UNCHANGED <<server, locals, call, signals, cancels>>
       PROVE  ReadInv'
    BY <1>2 DEF Detach, server, locals
  <1>3. ASSUME NEW q \in Own, UseGpu(q),
              UNCHANGED <<server, locals, call, signals, cancels>>
       PROVE  ReadInv'
    BY <1>3 DEF UseGpu, server, locals
  <1>4. ASSUME NEW q \in Own, BindPort(q),
              UNCHANGED <<server, locals, call, signals, cancels>>
       PROVE  ReadInv'
    BY <1>4 DEF BindPort, server, locals
  <1>5. ASSUME NEW q \in Own, Exit(q),
              UNCHANGED <<server, locals, call, signals, cancels>>
       PROVE  ReadInv'
    BY <1>5 DEF Exit, server, locals
  <1>6. ASSUME NEW q \in Own, GpuFreed(q),
              UNCHANGED <<server, locals, call, signals, cancels>>
       PROVE  ReadInv'
    BY <1>6 DEF GpuFreed, server, locals
  <1>7. ASSUME ForeignGpu,
              UNCHANGED <<server, locals, call, signals, cancels>>
       PROVE  ReadInv'
    BY <1>7 DEF ForeignGpu, server, locals
  <1>8. ASSUME ForeignPort,
              UNCHANGED <<server, locals, call, signals, cancels>>
       PROVE  ReadInv'
    BY <1>8 DEF ForeignPort, server, locals
  <1>9. CASE Machine
    BY <1>9, <1>1, <1>2, <1>3, <1>4, <1>5, <1>6, <1>7, <1>8 DEF Machine
  <1>10. CASE StartRefused
    BY <1>10 DEF StartRefused, machine, server, locals
  <1>11. CASE StartChecksPort
    BY <1>11 DEF StartChecksPort, machine, server, locals
  <1>12. CASE StartReadsBaseline
    BY <1>12 DEF StartReadsBaseline, machine, server, locals
  <1>13. CASE Spawn
    BY <1>13 DEF Spawn, machine, server, locals
  <1>14. CASE WaitReady
    BY <1>14 DEF WaitReady, machine, server, locals
  <1>15. CASE Poll
    BY <1>15 DEF Poll, machine, server, locals
  <1>16. CASE Get
    BY <1>16 DEF Get, machine, server, locals
  <1>17. CASE AbandonReady
    BY <1>17 DEF AbandonReady, machine, server, locals
  <1>18. CASE List
    BY <1>18 DEF List, machine, server, locals
  <1>19. CASE Survey
    BY <1>19 DEF Survey, machine, server, locals, GroupSeen, HasGroup
  <1>20. CASE LookAgain
    BY <1>20 DEF LookAgain, machine, server, locals, Look, Released,
       GroupSeen, HasGroup
  <1>21. CASE LeaveTerm
    BY <1>21 DEF LeaveTerm, machine, server, locals, Look, Released,
       GroupSeen, HasGroup
  <1>22. CASE LeaveKill
    BY <1>22 DEF LeaveKill, machine, server, locals, Look, Released,
       GroupSeen, HasGroup
  <1>23. CASE Resume
    BY <1>23 DEF Resume, machine, server, locals
  <1>24. CASE ComputeAgain
    BY <1>24 DEF ComputeAgain, machine, server, locals
  <1>25. CASE Judge
    BY <1>25 DEF Judge, machine, server, locals, ForgetLocals, Verdict, Residual
  <1>26. ASSUME NEW c \in Stoppers, CallStop(c) PROVE ReadInv'
    BY <1>26 DEF CallStop, machine, server, locals
  <1>27. ASSUME NEW c \in Stoppers, StopCached(c) PROVE ReadInv'
    BY <1>27 DEF StopCached, machine, server, locals
  <1>28. ASSUME NEW c \in Stoppers, StopEnters(c) PROVE ReadInv'
    BY <1>28 DEF StopEnters, machine, server, locals
  <1>29. ASSUME NEW c \in Stoppers, StopCancelled(c) PROVE ReadInv'
    BY <1>29 DEF StopCancelled, machine, server, locals, ForgetLocals
  <1>30. CASE UNCHANGED vars
    BY <1>30 DEF vars, machine, server, locals
  <1> QED
    BY <1>9, <1>10, <1>11, <1>12, <1>13, <1>14, <1>15, <1>16, <1>17, <1>18,
       <1>19, <1>20, <1>21, <1>22, <1>23, <1>24, <1>25, <1>26, <1>27, <1>28,
       <1>29, <1>30
    DEF Next, Inside

-----------------------------------------------------------------------------
(* The invariant.                                                          *)

\* The initial states satisfy it.
LEMMA InvariantInit == Init => IInv
  <1> SUFFICES ASSUME Init PROVE IInv
    OBVIOUS
  <1> USE ConstantsAssumption DEF Init, Own, NoOne, Idle
  <1>1. MachineOK /\ ServerOK
    BY DEF MachineOK, ServerOK, Steps
  <1>4. FlagsOK
    BY DEF FlagsOK
  <1>5. CallsOK
    BY DEF CallsOK, ConstantsAssumption
  <1>2. BornInv
    BY DEF BornInv
  <1>3. LockInv /\ ReadInv
    BY DEF LockInv, ReadInv
  <1> QED
    BY <1>1, <1>2, <1>3, <1>4, <1>5 DEF IInv, TypeOK

\* Every step preserves it.
LEMMA InvariantStep == IInv /\ [Next]_vars => IInv'
  BY MachineStep, ServerStep, FlagsStep, CallsStep, BornStep, LockStep, ReadStep
  DEF IInv, TypeOK

\* What the machine and _stop_impl may rely on, with any number of workers and
\* stops.
THEOREM Invariant == Spec => []IInv
  BY InvariantInit, InvariantStep, PTL DEF Spec

\* Every variable keeps its type.
THEOREM TypeCorrect == Spec => []TypeOK
  <1>1. IInv => TypeOK
    BY DEF IInv
  <1> QED
    BY Invariant, <1>1, PTL

-----------------------------------------------------------------------------
(* Safety properties.                                                      *)

\* Where the group is read exactly (by killpg, or while nobody forks any more)
\* a clean verdict is right, and stays right: the group is empty and no process
\* of the server will bind the port again.
THEOREM CleanVerdictIsRight == ASSUME ExactProbe PROVE Spec => []CleanIsReleased
  <1>1. IInv => CleanIsReleased
    BY DEF IInv, ReadInv, CleanIsReleased
  <1> QED
    BY Invariant, <1>1, PTL

\* A verdict is clean only if no process of the server is on the GPU then, also
\* one outside the group, and without any assumption on forks.
THEOREM CleanVerdictSawGpuFree == Spec => CleanSawGpuFree
  <1>1. IInv /\ [Next]_vars => [verdict' = "clean" /\ verdict # "clean" => gpu \cap Own = {}]_vars
    <2> SUFFICES ASSUME IInv, Next, verdict' = "clean", verdict # "clean"
                 PROVE  gpu \cap Own = {}
      BY DEF vars
    <2>1. baseline \cap Own = {}
      BY DEF IInv, BornInv
    <2>2. Judge
      BY DEF Next, Inside, Machine, StartRefused, StartChecksPort,
         StartReadsBaseline, Spawn, WaitReady, Poll, Get, AbandonReady, List,
         Survey, LookAgain, LeaveTerm, LeaveKill, Resume, ComputeAgain,
         CallStop, StopCached, StopEnters, StopCancelled, server
    <2>3. Residual = {}
      BY <2>2 DEF Judge, Verdict
    <2> QED
      BY <2>1, <2>3 DEF Residual
  <1> QED
    BY Invariant, <1>1, PTL DEF Spec, CleanSawGpuFree

\* Once a cleanup is verified, no later stop revises it or signals the group.
THEOREM VerifiedCleanupIsFinal == Spec => CleanIsFinal
  <1>1. IInv /\ [Next]_vars => [verdict = "clean" => verdict' = "clean" /\ signals' = signals]_vars
    <2> SUFFICES ASSUME IInv, Next, verdict = "clean"
                 PROVE  verdict' = "clean" /\ signals' = signals
      BY DEF vars
    <2>1. lock = NoOne /\ step = "none"
      BY DEF IInv, LockInv
    <2>2. user # "spawn"
      BY DEF IInv, LockInv, Over
    <2> QED
      BY <2>1, <2>2 DEF Next, Inside, Machine, StartRefused, StartChecksPort,
         StartReadsBaseline, Spawn, WaitReady, Poll, Get, AbandonReady, List,
         Survey, LookAgain, LeaveTerm, LeaveKill, Resume, ComputeAgain, Judge,
         CallStop, StopCached, StopEnters, StopCancelled, server
  <1> QED
    BY Invariant, <1>1, PTL DEF Spec, CleanIsFinal

=============================================================================
