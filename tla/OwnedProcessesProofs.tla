------------------------ MODULE OwnedProcessesProofs ------------------------
(***************************************************************************)
(* The table of owned processes, for any number of processes and ids.      *)
(***************************************************************************)
EXTENDS OwnedProcesses, TLAPS

Entered == {"running", "waited", "closing", "closed", "done"}

\* What a process's stage tells: it has an id once it was started, it does not
\* run before the start and after Wait, and what it spawns before it is in its
\* container is not in it.
StageOK(n) ==
  /\ stage[n] = "none" => alive[n] = {}
  /\ stage[n] # "none" => pid[n] \in Pids
  /\ stage[n] = "starting" => "child" \notin alive[n]
  /\ stage[n] \in {"waited", "closing", "closed", "done", "abandoned"} => "main" \notin alive[n]

\* The system gives no id to two processes at once.
HoldingOK ==
  \A n, m \in Holding : pid[n] = pid[m] => n = m

Calls ==
  {Idle} \cup [op : {"start"}, proc : Procs] \cup [op : {"stop"}, pid : Pids, proc : Procs]

\* A command that was begun on a process, and an answer about one.
CommandOK ==
  /\ call \in Calls
  /\ call.op = "start" => stage[call.proc] = "starting"
  /\ call.op = "stop" => stage[call.proc] \in Entered
  /\ last.op = "stop" /\ last.answer = "stopped" =>
       last.proc \in Procs /\ stage[last.proc] \in Entered

IInv ==
  /\ TypeOK
  /\ \A n \in Procs : StageOK(n)
  /\ HoldingOK
  /\ CommandOK
  /\ RunningIsOwned
  /\ StoppedIsOver
  /\ NothingLeftBehind

\* Before the first command.
LEMMA InitIInv == Init => IInv
BY DEF Init, IInv, Processes, TypeOK, StageOK, Holding, HoldingOK, CommandOK, Calls, RunningIsOwned, StoppedIsOver,
       NothingLeftBehind, Idle, Started, Stages

\* Every step keeps the invariant.
LEMMA StepIInv == IInv /\ [Next]_vars => IInv'
<1> SUFFICES ASSUME IInv, [Next]_vars
             PROVE  IInv'
  OBVIOUS
<1> USE DEF IInv
<1>1. ASSUME NEW n \in Procs, Spawn(n)
      PROVE  IInv'
  <2>1. TypeOK'
    BY <1>1 DEF Spawn, Processes, TypeOK, Stages, StageOK, CommandOK, Calls, Idle
  <2>2. (\A k \in Procs : StageOK(k)') /\ HoldingOK'
    BY <1>1 DEF Spawn, Processes, TypeOK, StageOK, Holding, HoldingOK, CommandOK, Calls, Idle
  <2>3. CommandOK'
    BY <1>1 DEF Spawn, Processes, TypeOK, CommandOK, Calls, Idle, Entered
  <2>4. RunningIsOwned'
    BY <1>1 DEF Spawn, Processes, TypeOK, StageOK, Holding, HoldingOK, CommandOK, Calls, Idle, RunningIsOwned
  <2>5. StoppedIsOver' /\ NothingLeftBehind'
    BY <1>1 DEF Spawn, Processes, TypeOK, StageOK, CommandOK, Calls, Idle, Entered, StoppedIsOver, NothingLeftBehind, Contained, Group
  <2> QED
    BY <2>1, <2>2, <2>3, <2>4, <2>5
<1>2. ASSUME NEW n \in Procs, NEW q \in Processes, Exit(n, q)
      PROVE  IInv'
  <2>1. TypeOK'
    BY <1>2 DEF Exit, Processes, TypeOK, Stages, StageOK, CommandOK, Calls, Idle
  <2>2. (\A k \in Procs : StageOK(k)') /\ HoldingOK'
    BY <1>2 DEF Exit, Processes, TypeOK, StageOK, Holding, HoldingOK, CommandOK, Calls, Idle
  <2>3. CommandOK'
    BY <1>2 DEF Exit, Processes, TypeOK, CommandOK, Calls, Idle, Entered
  <2>4. RunningIsOwned'
    BY <1>2 DEF Exit, Processes, TypeOK, StageOK, Holding, HoldingOK, CommandOK, Calls, Idle, RunningIsOwned
  <2>5. StoppedIsOver' /\ NothingLeftBehind'
    BY <1>2 DEF Exit, Processes, TypeOK, StageOK, CommandOK, Calls, Idle, Entered, StoppedIsOver, NothingLeftBehind, Contained, Group
  <2> QED
    BY <2>1, <2>2, <2>3, <2>4, <2>5
<1>3. ASSUME NEW n \in Procs, NEW i \in Pids, Start(n, i)
      PROVE  IInv'
  <2>1. TypeOK'
    BY <1>3 DEF Start, Processes, TypeOK, Stages, StageOK, CommandOK, Calls, Idle
  <2>2. (\A k \in Procs : StageOK(k)') /\ HoldingOK'
    BY <1>3 DEF Start, Processes, TypeOK, StageOK, Holding, HoldingOK, CommandOK, Calls, Idle
  <2>3. CommandOK'
    BY <1>3 DEF Start, Processes, TypeOK, CommandOK, Calls, Idle, Entered
  <2>4. RunningIsOwned'
    BY <1>3 DEF Start, Processes, TypeOK, StageOK, Holding, HoldingOK, CommandOK, Calls, Idle, RunningIsOwned
  <2>5. StoppedIsOver' /\ NothingLeftBehind'
    BY <1>3 DEF Start, Processes, TypeOK, StageOK, CommandOK, Calls, Idle, Entered, StoppedIsOver, NothingLeftBehind, Contained, Group
  <2> QED
    BY <2>1, <2>2, <2>3, <2>4, <2>5
<1>4. ASSUME NEW n \in Procs, Contain(n)
      PROVE  IInv'
  <2>1. TypeOK'
    BY <1>4 DEF Contain, Started, Processes, TypeOK, Stages, StageOK, CommandOK, Calls, Idle
  <2>2. (\A k \in Procs : StageOK(k)') /\ HoldingOK'
    BY <1>4 DEF Contain, Started, Processes, TypeOK, StageOK, Holding, HoldingOK, CommandOK, Calls, Idle
  <2>3. CommandOK'
    BY <1>4 DEF Contain, Started, Processes, TypeOK, CommandOK, Calls, Idle, Entered
  <2>4. RunningIsOwned'
    BY <1>4 DEF Contain, Started, Processes, TypeOK, StageOK, Holding, HoldingOK, CommandOK, Calls, Idle, RunningIsOwned
  <2>5. StoppedIsOver' /\ NothingLeftBehind'
    BY <1>4 DEF Contain, Started, Processes, TypeOK, StageOK, CommandOK, Calls, Idle, Entered, StoppedIsOver, NothingLeftBehind, Contained, Group
  <2> QED
    BY <2>1, <2>2, <2>3, <2>4, <2>5
<1>5. ASSUME NEW n \in Procs, ContainFails(n)
      PROVE  IInv'
  <2>1. TypeOK'
    BY <1>5 DEF ContainFails, Processes, TypeOK, Stages, StageOK, CommandOK, Calls, Idle
  <2>2. (\A k \in Procs : StageOK(k)') /\ HoldingOK'
    BY <1>5 DEF ContainFails, Processes, TypeOK, StageOK, Holding, HoldingOK, CommandOK, Calls, Idle
  <2>3. CommandOK'
    BY <1>5 DEF ContainFails, Processes, TypeOK, CommandOK, Calls, Idle, Entered
  <2>4. RunningIsOwned'
    BY <1>5 DEF ContainFails, Processes, TypeOK, StageOK, Holding, HoldingOK, CommandOK, Calls, Idle, RunningIsOwned
  <2>a. stage[n] = "starting" /\ call.op = "start" /\ call.proc = n
    BY <1>5 DEF ContainFails, CommandOK
  <2>b. alive' = [alive EXCEPT ![n] = @ \ {"main"}] /\ UNCHANGED <<contained, last>>
    BY <1>5 DEF ContainFails
  <2>c. alive[n] \ {"main"} \subseteq {"early"}
    BY <2>a, <2>b DEF TypeOK, StageOK, Processes
  <2>5. StoppedIsOver' /\ NothingLeftBehind'
    BY <1>5, <2>c DEF ContainFails, Processes, TypeOK, StageOK, CommandOK, Calls, Idle, Entered, StoppedIsOver, NothingLeftBehind, Contained, Group
  <2> QED
    BY <2>1, <2>2, <2>3, <2>4, <2>5
<1>6. ASSUME NEW n \in Procs, Terminate(n)
      PROVE  IInv'
  <2>1. TypeOK'
    BY <1>6 DEF Terminate, Answer, Contained, Group, Processes, TypeOK, Stages, StageOK, CommandOK, Calls, Idle
  <2>2. (\A k \in Procs : StageOK(k)') /\ HoldingOK'
    BY <1>6 DEF Terminate, Answer, Contained, Group, Processes, TypeOK, StageOK, Holding, HoldingOK, CommandOK, Calls, Idle
  <2>3. CommandOK'
    BY <1>6 DEF Terminate, Answer, Contained, Group, Processes, TypeOK, CommandOK, Calls, Idle, Entered
  <2>4. RunningIsOwned'
    BY <1>6 DEF Terminate, Answer, Contained, Group, Processes, TypeOK, StageOK, Holding, HoldingOK, CommandOK, Calls, Idle, RunningIsOwned
  <2>5. StoppedIsOver' /\ NothingLeftBehind'
    BY <1>6 DEF Terminate, Answer, Processes, TypeOK, StageOK, CommandOK, Calls, Idle, Entered, StoppedIsOver, NothingLeftBehind, Contained, Group
  <2> QED
    BY <2>1, <2>2, <2>3, <2>4, <2>5
<1>7. ASSUME NEW n \in Procs, Wait(n)
      PROVE  IInv'
  <2>1. TypeOK'
    BY <1>7 DEF Wait, Processes, TypeOK, Stages, StageOK, CommandOK, Calls, Idle
  <2>2. (\A k \in Procs : StageOK(k)') /\ HoldingOK'
    BY <1>7 DEF Wait, Processes, TypeOK, StageOK, Holding, HoldingOK, CommandOK, Calls, Idle
  <2>3. CommandOK'
    BY <1>7 DEF Wait, Processes, TypeOK, CommandOK, Calls, Idle, Entered
  <2>4. RunningIsOwned'
    BY <1>7 DEF Wait, Processes, TypeOK, StageOK, Holding, HoldingOK, CommandOK, Calls, Idle, RunningIsOwned
  <2>5. StoppedIsOver' /\ NothingLeftBehind'
    BY <1>7 DEF Wait, Processes, TypeOK, StageOK, CommandOK, Calls, Idle, Entered, StoppedIsOver, NothingLeftBehind, Contained, Group
  <2> QED
    BY <2>1, <2>2, <2>3, <2>4, <2>5
<1>8. ASSUME NEW n \in Procs, Close(n)
      PROVE  IInv'
  <2>1. TypeOK'
    BY <1>8 DEF Close, Processes, TypeOK, Stages, StageOK, CommandOK, Calls, Idle
  <2>2. (\A k \in Procs : StageOK(k)') /\ HoldingOK'
    BY <1>8 DEF Close, Processes, TypeOK, StageOK, Holding, HoldingOK, CommandOK, Calls, Idle
  <2>3. CommandOK'
    BY <1>8 DEF Close, Processes, TypeOK, CommandOK, Calls, Idle, Entered
  <2>4. RunningIsOwned'
    BY <1>8 DEF Close, Processes, TypeOK, StageOK, Holding, HoldingOK, CommandOK, Calls, Idle, RunningIsOwned
  <2>5. StoppedIsOver' /\ NothingLeftBehind'
    BY <1>8 DEF Close, Processes, TypeOK, StageOK, CommandOK, Calls, Idle, Entered, StoppedIsOver, NothingLeftBehind, Contained, Group
  <2> QED
    BY <2>1, <2>2, <2>3, <2>4, <2>5
<1>9. ASSUME NEW n \in Procs, Release(n)
      PROVE  IInv'
  <2>1. TypeOK'
    BY <1>9 DEF Release, Group, Processes, TypeOK, Stages, StageOK, CommandOK, Calls, Idle
  <2>2. (\A k \in Procs : StageOK(k)') /\ HoldingOK'
    BY <1>9 DEF Release, Group, Processes, TypeOK, StageOK, Holding, HoldingOK, CommandOK, Calls, Idle
  <2>3. CommandOK'
    BY <1>9 DEF Release, Group, Processes, TypeOK, CommandOK, Calls, Idle, Entered
  <2>4. RunningIsOwned'
    BY <1>9 DEF Release, Group, Processes, TypeOK, StageOK, Holding, HoldingOK, CommandOK, Calls, Idle, RunningIsOwned
  <2>5. StoppedIsOver' /\ NothingLeftBehind'
    BY <1>9 DEF Release, Processes, TypeOK, StageOK, CommandOK, Calls, Idle, Entered, StoppedIsOver, NothingLeftBehind, Contained, Group
  <2> QED
    BY <2>1, <2>2, <2>3, <2>4, <2>5
<1>10. ASSUME NEW n \in Procs, Forget(n)
       PROVE  IInv'
  <2>1. TypeOK'
    BY <1>10 DEF Forget, Processes, TypeOK, Stages, StageOK, CommandOK, Calls, Idle
  <2>2. (\A k \in Procs : StageOK(k)') /\ HoldingOK'
    BY <1>10 DEF Forget, Processes, TypeOK, StageOK, Holding, HoldingOK, CommandOK, Calls, Idle
  <2>3. CommandOK'
    BY <1>10 DEF Forget, Processes, TypeOK, CommandOK, Calls, Idle, Entered
  <2>4. RunningIsOwned'
    BY <1>10 DEF Forget, Processes, TypeOK, StageOK, Holding, HoldingOK, CommandOK, Calls, Idle, RunningIsOwned
  <2>5. StoppedIsOver' /\ NothingLeftBehind'
    BY <1>10 DEF Forget, Processes, TypeOK, StageOK, CommandOK, Calls, Idle, Entered, StoppedIsOver, NothingLeftBehind, Contained, Group
  <2> QED
    BY <2>1, <2>2, <2>3, <2>4, <2>5
<1>11. ASSUME NEW i \in Pids, Find(i)
       PROVE  IInv'
  <2>1. TypeOK'
    BY <1>11 DEF Find, Answer, Processes, TypeOK, Stages, StageOK, CommandOK, Calls, Idle
  <2>2. (\A k \in Procs : StageOK(k)') /\ HoldingOK'
    BY <1>11 DEF Find, Answer, Processes, TypeOK, StageOK, Holding, HoldingOK, CommandOK, Calls, Idle
  <2>3. CommandOK'
    BY <1>11 DEF Find, Answer, Processes, TypeOK, CommandOK, Calls, Idle, Entered
  <2>4. RunningIsOwned'
    BY <1>11 DEF Find, Answer, Processes, TypeOK, StageOK, Holding, HoldingOK, CommandOK, Calls, Idle, RunningIsOwned
  <2>5. StoppedIsOver' /\ NothingLeftBehind'
    BY <1>11 DEF Find, Answer, Processes, TypeOK, StageOK, CommandOK, Calls, Idle, Entered, StoppedIsOver, NothingLeftBehind, Contained, Group
  <2> QED
    BY <2>1, <2>2, <2>3, <2>4, <2>5
<1>12. CASE UNCHANGED vars
  BY <1>12 DEF vars, Processes, TypeOK, StageOK, Holding, HoldingOK, CommandOK, RunningIsOwned, StoppedIsOver,
     NothingLeftBehind, Contained
<1> QED
  BY <1>1, <1>2, <1>3, <1>4, <1>5, <1>6, <1>7, <1>8, <1>9, <1>10, <1>11, <1>12 DEF Next, Waiter

-----------------------------------------------------------------------------

\* The inductive invariant: stages, table and answers fit together (processStart
\* and its goroutine, processStop).
THEOREM Invariance == Spec => []IInv
<1> QED
  BY InitIInv, StepIInv, PTL DEF Spec

\* The table holds processes under their own ids until their goroutines end.
THEOREM TypeCorrect == Spec => []TypeOK
<1>1. IInv => TypeOK
  BY DEF IInv
<1> QED
  BY <1>1, Invariance, PTL

\* A running process is in the table unless an earlier one had its id (processStart).
THEOREM OwnedCorrect == Spec => []RunningIsOwned
<1>1. IInv => RunningIsOwned
  BY DEF IInv
<1> QED
  BY <1>1, Invariance, PTL

\* A stop that is answered without an error has ended the process and, on Windows,
\* its Job Object's other processes (processStop).
THEOREM StoppedCorrect == Spec => []StoppedIsOver
<1>1. IInv => StoppedIsOver
  BY DEF IInv
<1> QED
  BY <1>1, Invariance, PTL

\* On Windows nothing of an ended process is left but a descendant it spawned
\* before it was put into its Job Object (container.Close).
THEOREM ReleaseCorrect == Spec => []NothingLeftBehind
<1>1. IInv => NothingLeftBehind
  BY DEF IInv
<1> QED
  BY <1>1, Invariance, PTL

\* A stop and an end leave nothing running that the container has: both halves
\* together.
THEOREM StopCorrect == Spec => []StopIsComplete
<1>1. StoppedIsOver /\ NothingLeftBehind => StopIsComplete
  BY DEF StopIsComplete
<1> QED BY StoppedCorrect, ReleaseCorrect, <1>1, PTL
=============================================================================
