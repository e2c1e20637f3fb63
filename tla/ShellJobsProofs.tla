--------------------------- MODULE ShellJobsProofs ---------------------------
(***************************************************************************)
(* What shell.status and shell.cancel answer about a job, for any number   *)
(* of jobs, with a Job Object or without; and the executor's jobs and      *)
(* owned processes as parts of Executor.                                   *)
(***************************************************************************)
EXTENDS Executor, TLAPS

\* What a job's stage tells about its processes: no process before the start, an
\* exit code once the shell has ended, and after Wait nobody to write output.
StageOK(j) ==
  /\ stage[j] = "none" => alive[j] = {}
  /\ stage[j] # "none" /\ "shell" \notin alive[j] => exit[j] # "unset"
  /\ stage[j] \in {"waited", "closing", "released", "done"} =>
       /\ alive[j] \cap (piped[j] \cup {"shell"}) = {}
       /\ err[j] = exit[j]
  /\ stage[j] \in {"released", "done"} /\ contained => alive[j] \cap Group = {}

\* The table, and what was answered: a job whose end was told is done.
TablesOK ==
  /\ \A j \in jobs : stage[j] \in {"running", "waited", "closing", "released", "done"}
  /\ \A j \in over : stage[j] = "done"

\* A copy for a job whose end was told before is complete.
CopyOK ==
  command.op = "copied" /\ command.job \in over => command.to = Kept(written[command.job])

\* The latest answer.
LastOK ==
  /\ latest.op \in {"status", "cancel"} => stage[latest.job] \notin {"none", "starting", "abandoned"}
  /\ latest.op = "status" /\ ~latest.running => stage[latest.job] = "done" /\ latest.exit = err[latest.job]
  /\ latest.op = "status" /\ latest.again => stage[latest.job] = "done"

JobCommands ==
  {NoCall} \cup [op : {"start", "status", "cancel", "terminate"}, job : Jobs] \cup
  [op : {"copied"}, job : Jobs, to : 0..MaxKept]

\* A command that was begun on a job of the table.
CallOK ==
  /\ command \in JobCommands
  /\ command.op = "start" => stage[command.job] = "starting"
  /\ command.op \in {"status", "copied", "cancel", "terminate"} =>
       stage[command.job] \in {"running", "waited", "closing", "released", "done"}

IInv ==
  /\ JobsTypeOK
  /\ \A j \in Jobs : StageOK(j)
  /\ TablesOK
  /\ CallOK
  /\ CopyOK
  /\ LastOK
  /\ EndIsExact
  /\ AgainIsComplete
  /\ TerminationFailedIsOver
  /\ RunningIsKnown



\* Before the first command.
LEMMA InitIInv == JobsInit => IInv
BY OutputAssumption
   DEF JobsInit, IInv, JobsTypeOK, StageOK, TablesOK, CallOK, CopyOK, LastOK, EndIsExact, AgainIsComplete,
       TerminationFailedIsOver, RunningIsKnown, JobCommands, JobAnswers, NoCall, NoAnswer, Stages, ExitCodes

\* Every step keeps the invariant.
LEMMA StepIInv == IInv /\ [JobsNext]_jobVars => IInv'
<1> SUFFICES ASSUME IInv, [JobsNext]_jobVars
             PROVE  IInv'
  OBVIOUS
<1> USE OutputAssumption DEF IInv
<1>1. ASSUME NEW j \in Jobs, Output(j)
      PROVE  IInv'
  <2>1. JobsTypeOK'
    BY <1>1 DEF Output, JobsTypeOK, Stages, ExitCodes, Processes, JobAnswers, Kept
  <2>2. \A k \in Jobs : StageOK(k)'
    BY <1>1 DEF Output, JobsTypeOK, StageOK, CallOK, JobCommands, NoCall
  <2>3. TablesOK' /\ RunningIsKnown' /\ CallOK' /\ CopyOK'
    BY <1>1 DEF Output, JobsTypeOK, StageOK, TablesOK, RunningIsKnown, CallOK, CopyOK, JobCommands, NoCall, Kept
  <2>4. LastOK' /\ EndIsExact' /\ AgainIsComplete' /\ TerminationFailedIsOver'
    BY <1>1 DEF Output, JobsTypeOK, StageOK, TablesOK, CallOK, CopyOK, LastOK, EndIsExact, AgainIsComplete, TerminationFailedIsOver, JobAnswers, NoAnswer, JobCommands, NoCall, Group
  <2> QED
    BY <2>1, <2>2, <2>3, <2>4
<1>2. ASSUME NEW j \in Jobs, NEW withPipe \in BOOLEAN, Spawn(j, withPipe)
      PROVE  IInv'
  <2>1. JobsTypeOK'
    BY <1>2 DEF Spawn, JobsTypeOK, Stages, ExitCodes, Processes, JobAnswers, Kept
  <2>2. \A k \in Jobs : StageOK(k)'
    BY <1>2 DEF Spawn, JobsTypeOK, StageOK, CallOK, JobCommands, NoCall
  <2>3. TablesOK' /\ RunningIsKnown' /\ CallOK' /\ CopyOK'
    BY <1>2 DEF Spawn, JobsTypeOK, StageOK, TablesOK, RunningIsKnown, CallOK, CopyOK, JobCommands, NoCall, Kept
  <2>4. LastOK' /\ EndIsExact' /\ AgainIsComplete' /\ TerminationFailedIsOver'
    BY <1>2 DEF Spawn, JobsTypeOK, StageOK, TablesOK, CallOK, CopyOK, LastOK, EndIsExact, AgainIsComplete, TerminationFailedIsOver, JobAnswers, NoAnswer, JobCommands, NoCall, Group
  <2> QED
    BY <2>1, <2>2, <2>3, <2>4
<1>3. ASSUME NEW j \in Jobs, NEW q \in Processes, Exit(j, q)
      PROVE  IInv'
  <2>1. JobsTypeOK'
    BY <1>3 DEF Exit, JobsTypeOK, Stages, ExitCodes, Processes, JobAnswers, Kept
  <2>2. \A k \in Jobs : StageOK(k)'
    BY <1>3 DEF Exit, JobsTypeOK, StageOK, CallOK, JobCommands, NoCall
  <2>3. TablesOK' /\ RunningIsKnown' /\ CallOK' /\ CopyOK'
    BY <1>3 DEF Exit, JobsTypeOK, StageOK, TablesOK, RunningIsKnown, CallOK, CopyOK, JobCommands, NoCall, Kept
  <2>4. LastOK' /\ EndIsExact' /\ AgainIsComplete' /\ TerminationFailedIsOver'
    BY <1>3 DEF Exit, JobsTypeOK, StageOK, TablesOK, CallOK, CopyOK, LastOK, EndIsExact, AgainIsComplete, TerminationFailedIsOver, JobAnswers, NoAnswer, JobCommands, NoCall, Group
  <2> QED
    BY <2>1, <2>2, <2>3, <2>4
<1>4. ASSUME NEW j \in Jobs, Wait(j)
      PROVE  IInv'
  <2>1. JobsTypeOK'
    BY <1>4 DEF Wait, JobsTypeOK, Stages, ExitCodes, Processes, JobAnswers, Kept
  <2>2. \A k \in Jobs : StageOK(k)'
    BY <1>4 DEF Wait, JobsTypeOK, StageOK, CallOK, JobCommands, NoCall
  <2>3. TablesOK' /\ RunningIsKnown' /\ CallOK' /\ CopyOK'
    BY <1>4 DEF Wait, JobsTypeOK, StageOK, TablesOK, RunningIsKnown, CallOK, CopyOK, JobCommands, NoCall, Kept
  <2>4. LastOK' /\ EndIsExact' /\ AgainIsComplete' /\ TerminationFailedIsOver'
    BY <1>4 DEF Wait, JobsTypeOK, StageOK, TablesOK, CallOK, CopyOK, LastOK, EndIsExact, AgainIsComplete, TerminationFailedIsOver, JobAnswers, NoAnswer, JobCommands, NoCall, Group
  <2> QED
    BY <2>1, <2>2, <2>3, <2>4
<1>5. ASSUME NEW j \in Jobs, Close(j)
      PROVE  IInv'
  <2>1. JobsTypeOK'
    BY <1>5 DEF Close, JobsTypeOK, Stages, ExitCodes, Processes, JobAnswers, Kept
  <2>2. \A k \in Jobs : StageOK(k)'
    BY <1>5 DEF Close, JobsTypeOK, StageOK, CallOK, JobCommands, NoCall
  <2>3. TablesOK' /\ RunningIsKnown' /\ CallOK' /\ CopyOK'
    BY <1>5 DEF Close, JobsTypeOK, StageOK, TablesOK, RunningIsKnown, CallOK, CopyOK, JobCommands, NoCall, Kept
  <2>4. LastOK' /\ EndIsExact' /\ AgainIsComplete' /\ TerminationFailedIsOver'
    BY <1>5 DEF Close, JobsTypeOK, StageOK, TablesOK, CallOK, CopyOK, LastOK, EndIsExact, AgainIsComplete, TerminationFailedIsOver, JobAnswers, NoAnswer, JobCommands, NoCall, Group
  <2> QED
    BY <2>1, <2>2, <2>3, <2>4
<1>6. ASSUME NEW j \in Jobs, Release(j)
      PROVE  IInv'
  <2>1. JobsTypeOK'
    BY <1>6 DEF Release, Killed, Group, JobsTypeOK, Stages, ExitCodes, Processes, JobAnswers, Kept
  <2>2. \A k \in Jobs : StageOK(k)'
    BY <1>6 DEF Release, Killed, Group, JobsTypeOK, StageOK, CallOK, JobCommands, NoCall
  <2>3. TablesOK' /\ RunningIsKnown' /\ CallOK' /\ CopyOK'
    BY <1>6 DEF Release, Killed, Group, JobsTypeOK, StageOK, TablesOK, RunningIsKnown, CallOK, CopyOK, JobCommands, NoCall, Kept
  <2>4. LastOK' /\ EndIsExact' /\ AgainIsComplete' /\ TerminationFailedIsOver'
    BY <1>6 DEF Release, Killed, Group, JobsTypeOK, StageOK, TablesOK, CallOK, CopyOK, LastOK, EndIsExact, AgainIsComplete, TerminationFailedIsOver, JobAnswers, NoAnswer, JobCommands, NoCall, Group
  <2> QED
    BY <2>1, <2>2, <2>3, <2>4
<1>7. ASSUME NEW j \in Jobs, Finish(j)
      PROVE  IInv'
  <2>1. JobsTypeOK'
    BY <1>7 DEF Finish, JobsTypeOK, Stages, ExitCodes, Processes, JobAnswers, Kept
  <2>2. \A k \in Jobs : StageOK(k)'
    BY <1>7 DEF Finish, JobsTypeOK, StageOK, CallOK, JobCommands, NoCall
  <2>3. TablesOK' /\ RunningIsKnown' /\ CallOK' /\ CopyOK'
    BY <1>7 DEF Finish, JobsTypeOK, StageOK, TablesOK, RunningIsKnown, CallOK, CopyOK, JobCommands, NoCall, Kept
  <2>4. LastOK' /\ EndIsExact' /\ AgainIsComplete' /\ TerminationFailedIsOver'
    BY <1>7 DEF Finish, JobsTypeOK, StageOK, TablesOK, CallOK, CopyOK, LastOK, EndIsExact, AgainIsComplete, TerminationFailedIsOver, JobAnswers, NoAnswer, JobCommands, NoCall, Group
  <2> QED
    BY <2>1, <2>2, <2>3, <2>4
<1>8. ASSUME NEW j \in Jobs, Forget(j)
      PROVE  IInv'
  <2>1. JobsTypeOK'
    BY <1>8 DEF Forget, JobsTypeOK, Stages, ExitCodes, Processes, JobAnswers, Kept
  <2>2. \A k \in Jobs : StageOK(k)'
    BY <1>8 DEF Forget, JobsTypeOK, StageOK, CallOK, JobCommands, NoCall
  <2>3. TablesOK' /\ RunningIsKnown' /\ CallOK' /\ CopyOK'
    BY <1>8 DEF Forget, JobsTypeOK, StageOK, TablesOK, RunningIsKnown, CallOK, CopyOK, JobCommands, NoCall, Kept
  <2>4. LastOK' /\ EndIsExact' /\ AgainIsComplete' /\ TerminationFailedIsOver'
    BY <1>8 DEF Forget, JobsTypeOK, StageOK, TablesOK, CallOK, CopyOK, LastOK, EndIsExact, AgainIsComplete, TerminationFailedIsOver, JobAnswers, NoAnswer, JobCommands, NoCall, Group
  <2> QED
    BY <2>1, <2>2, <2>3, <2>4
<1>9. ASSUME NEW j \in Jobs, Start(j)
      PROVE  IInv'
  <2>1. JobsTypeOK'
    BY <1>9 DEF Start, JobsTypeOK, Stages, ExitCodes, Processes, JobAnswers, Kept
  <2>2. \A k \in Jobs : StageOK(k)'
    BY <1>9 DEF Start, JobsTypeOK, StageOK, CallOK, JobCommands, NoCall
  <2>3. TablesOK' /\ RunningIsKnown' /\ CallOK' /\ CopyOK'
    BY <1>9 DEF Start, JobsTypeOK, StageOK, TablesOK, RunningIsKnown, CallOK, CopyOK, JobCommands, NoCall, Kept
  <2>4. LastOK' /\ EndIsExact' /\ AgainIsComplete' /\ TerminationFailedIsOver'
    BY <1>9 DEF Start, JobsTypeOK, StageOK, TablesOK, CallOK, CopyOK, LastOK, EndIsExact, AgainIsComplete, TerminationFailedIsOver, JobAnswers, NoAnswer, JobCommands, NoCall, Group
  <2> QED
    BY <2>1, <2>2, <2>3, <2>4
<1>10. ASSUME NEW j \in Jobs, Contain(j)
       PROVE  IInv'
  <2>1. JobsTypeOK'
    BY <1>10 DEF Contain, JobsTypeOK, Stages, ExitCodes, Processes, JobAnswers, Kept
  <2>2. \A k \in Jobs : StageOK(k)'
    BY <1>10 DEF Contain, JobsTypeOK, StageOK, CallOK, JobCommands, NoCall
  <2>3. TablesOK' /\ RunningIsKnown' /\ CallOK' /\ CopyOK'
    BY <1>10 DEF Contain, JobsTypeOK, StageOK, TablesOK, RunningIsKnown, CallOK, CopyOK, JobCommands, NoCall, Kept
  <2>4. LastOK' /\ EndIsExact' /\ AgainIsComplete' /\ TerminationFailedIsOver'
    BY <1>10 DEF Contain, JobsTypeOK, StageOK, TablesOK, CallOK, CopyOK, LastOK, EndIsExact, AgainIsComplete, TerminationFailedIsOver, JobAnswers, NoAnswer, JobCommands, NoCall, Group
  <2> QED
    BY <2>1, <2>2, <2>3, <2>4
<1>11. ASSUME NEW j \in Jobs, ContainFails(j)
       PROVE  IInv'
  <2>1. JobsTypeOK'
    BY <1>11 DEF ContainFails, Killed, JobsTypeOK, Stages, ExitCodes, Processes, JobAnswers, Kept
  <2>2. \A k \in Jobs : StageOK(k)'
    BY <1>11 DEF ContainFails, Killed, JobsTypeOK, StageOK, CallOK, JobCommands, NoCall
  <2>3. TablesOK' /\ RunningIsKnown' /\ CallOK' /\ CopyOK'
    BY <1>11 DEF ContainFails, Killed, JobsTypeOK, StageOK, TablesOK, RunningIsKnown, CallOK, CopyOK, JobCommands, NoCall, Kept
  <2>4. LastOK' /\ EndIsExact' /\ AgainIsComplete' /\ TerminationFailedIsOver'
    BY <1>11 DEF ContainFails, Killed, JobsTypeOK, StageOK, TablesOK, CallOK, CopyOK, LastOK, EndIsExact, AgainIsComplete, TerminationFailedIsOver, JobAnswers, NoAnswer, JobCommands, NoCall, Group
  <2> QED
    BY <2>1, <2>2, <2>3, <2>4
<1>12. ASSUME NEW j \in Jobs, NEW op \in {"status", "cancel"}, Find(j, op)
       PROVE  IInv'
  <2>1. JobsTypeOK'
    BY <1>12 DEF Find, JobsTypeOK, Stages, ExitCodes, Processes, JobAnswers, Kept
  <2>2. \A k \in Jobs : StageOK(k)'
    BY <1>12 DEF Find, JobsTypeOK, StageOK, CallOK, JobCommands, NoCall
  <2>3. TablesOK' /\ RunningIsKnown' /\ CallOK' /\ CopyOK'
    BY <1>12 DEF Find, JobsTypeOK, StageOK, TablesOK, RunningIsKnown, CallOK, CopyOK, JobCommands, NoCall, Kept
  <2>4. LastOK' /\ EndIsExact' /\ AgainIsComplete' /\ TerminationFailedIsOver'
    BY <1>12 DEF Find, JobsTypeOK, StageOK, TablesOK, CallOK, CopyOK, LastOK, EndIsExact, AgainIsComplete, TerminationFailedIsOver, JobAnswers, NoAnswer, JobCommands, NoCall, Group
  <2> QED
    BY <2>1, <2>2, <2>3, <2>4
<1>13. ASSUME NEW j \in Jobs, StatusCopy(j)
       PROVE  IInv'
  <2>1. JobsTypeOK'
    BY <1>13 DEF StatusCopy, JobsTypeOK, Stages, ExitCodes, Processes, JobAnswers, Kept
  <2>2. \A k \in Jobs : StageOK(k)'
    BY <1>13 DEF StatusCopy, JobsTypeOK, StageOK, CallOK, JobCommands, NoCall
  <2>3. TablesOK' /\ RunningIsKnown' /\ CallOK' /\ CopyOK'
    BY <1>13 DEF StatusCopy, JobsTypeOK, StageOK, TablesOK, RunningIsKnown, CallOK, CopyOK, JobCommands, NoCall, Kept
  <2>4. LastOK' /\ EndIsExact' /\ AgainIsComplete' /\ TerminationFailedIsOver'
    BY <1>13 DEF StatusCopy, JobsTypeOK, StageOK, TablesOK, CallOK, CopyOK, LastOK, EndIsExact, AgainIsComplete, TerminationFailedIsOver, JobAnswers, NoAnswer, JobCommands, NoCall, Group
  <2> QED
    BY <2>1, <2>2, <2>3, <2>4
<1>14. ASSUME NEW j \in Jobs, StatusAnswer(j)
       PROVE  IInv'
  <2> DEFINE running == stage[j] # "done"
             again == j \in over
  <2>a. command.op = "copied" /\ command.job = j /\ command.to \in 0..MaxKept
    BY <1>14 DEF StatusAnswer, CallOK, JobCommands, NoCall
  <2>b. PICK code \in IF running THEN {"unset", err[j]} ELSE {err[j]} :
          latest' = [op |-> "status", job |-> j, running |-> running, to |-> command.to,
                   exit |-> code, again |-> again]
    BY <1>14 DEF StatusAnswer
  <2>c. /\ over' = IF running THEN over ELSE over \cup {j}
        /\ command' = NoCall
        /\ UNCHANGED <<contained, stage, alive, piped, exit, err, written, jobs>>
    BY <1>14 DEF StatusAnswer
  <2>d. code \in ExitCodes /\ running \in BOOLEAN /\ again \in BOOLEAN
    BY DEF JobsTypeOK, ExitCodes
  <2>e. latest' \in JobAnswers
    BY <2>a, <2>b, <2>d DEF JobAnswers
  <2>f. /\ latest'.op = "status" /\ latest'.job = j /\ latest'.to = command.to
        /\ ~latest'.running => ~running /\ latest'.exit = err[j]
        /\ latest'.again => again
    BY <2>b
  <2>g. stage[j] \in {"running", "waited", "closing", "released", "done"}
    BY <2>a DEF CallOK
  <2> HIDE DEF running, again
  <2>1. JobsTypeOK'
    BY <2>c, <2>e DEF JobsTypeOK
  <2>2. \A k \in Jobs : StageOK(k)'
    BY <1>14 DEF StatusAnswer, JobsTypeOK, StageOK, CallOK, JobCommands, NoCall
  <2>3. TablesOK' /\ RunningIsKnown'
    BY <1>14 DEF StatusAnswer, JobsTypeOK, TablesOK, RunningIsKnown, CallOK, JobCommands, NoCall
  <2>4. CallOK'
    BY <1>14 DEF StatusAnswer, JobsTypeOK, CallOK, JobCommands, NoCall, Kept, TablesOK
  <2>5. CopyOK'
    BY <1>14 DEF StatusAnswer, JobsTypeOK, StageOK, CopyOK, TablesOK, CallOK, JobCommands, NoCall
  <2>6. LastOK'
    BY <2>c, <2>f, <2>g DEF LastOK, TablesOK, running, again
  <2>7. EndIsExact'
    BY <2>c, <2>f DEF EndIsExact, StageOK, running, JobsTypeOK
  <2>8. AgainIsComplete'
    BY <2>a, <2>c, <2>f DEF AgainIsComplete, CopyOK, again
  <2>9. TerminationFailedIsOver'
    BY <1>14 DEF StatusAnswer, JobsTypeOK, StageOK, LastOK, CallOK, JobCommands, NoCall, TerminationFailedIsOver, Group, JobAnswers
  <2> QED
    BY <2>1, <2>2, <2>3, <2>4, <2>5, <2>6, <2>7, <2>8, <2>9
<1>15. ASSUME NEW j \in Jobs, CancelLook(j)
       PROVE  IInv'
  <2>1. JobsTypeOK'
    BY <1>15 DEF CancelLook, CancelAnswer, JobsTypeOK, Stages, ExitCodes, Processes, JobAnswers, Kept
  <2>2. \A k \in Jobs : StageOK(k)'
    BY <1>15 DEF CancelLook, CancelAnswer, JobsTypeOK, StageOK, CallOK, JobCommands, NoCall
  <2>3. TablesOK' /\ RunningIsKnown' /\ CallOK' /\ CopyOK'
    BY <1>15 DEF CancelLook, CancelAnswer, JobsTypeOK, StageOK, TablesOK, RunningIsKnown, CallOK, CopyOK, JobCommands, NoCall, Kept
  <2>4. LastOK' /\ EndIsExact' /\ AgainIsComplete' /\ TerminationFailedIsOver'
    BY <1>15 DEF CancelLook, CancelAnswer, JobsTypeOK, StageOK, TablesOK, CallOK, CopyOK, LastOK, EndIsExact, AgainIsComplete, TerminationFailedIsOver, JobAnswers, NoAnswer, JobCommands, NoCall, Group
  <2> QED
    BY <2>1, <2>2, <2>3, <2>4
<1>16. ASSUME NEW j \in Jobs, CancelTerminate(j)
       PROVE  IInv'
  <2>1. JobsTypeOK'
    BY <1>16 DEF CancelTerminate, CancelAnswer, Killed, Group, JobsTypeOK, Stages, ExitCodes, Processes, JobAnswers, Kept
  <2>2. \A k \in Jobs : StageOK(k)'
    BY <1>16 DEF CancelTerminate, CancelAnswer, Killed, Group, JobsTypeOK, StageOK, CallOK, JobCommands, NoCall
  <2>3. TablesOK' /\ RunningIsKnown' /\ CallOK' /\ CopyOK'
    BY <1>16 DEF CancelTerminate, CancelAnswer, Killed, Group, JobsTypeOK, StageOK, TablesOK, RunningIsKnown, CallOK, CopyOK, JobCommands, NoCall, Kept
  <2>4. LastOK' /\ EndIsExact' /\ AgainIsComplete' /\ TerminationFailedIsOver'
    BY <1>16 DEF CancelTerminate, CancelAnswer, Killed, Group, JobsTypeOK, StageOK, TablesOK, CallOK, CopyOK, LastOK, EndIsExact, AgainIsComplete, TerminationFailedIsOver, JobAnswers, NoAnswer, JobCommands, NoCall, Group
  <2> QED
    BY <2>1, <2>2, <2>3, <2>4
<1>17. CASE UNCHANGED jobVars
  BY <1>17 DEF jobVars, JobsTypeOK, StageOK, TablesOK, CallOK, CopyOK, LastOK, EndIsExact, AgainIsComplete,
     TerminationFailedIsOver, RunningIsKnown
<1> QED
  BY <1>1, <1>2, <1>3, <1>4, <1>5, <1>6, <1>7, <1>8, <1>9, <1>10, <1>11, <1>12, <1>13, <1>14, <1>15, <1>16, <1>17 DEF JobsNext, Environment, Waiter, Client

-----------------------------------------------------------------------------

\* The inductive invariant: stages, processes and answers fit together (shellStart
\* and its goroutine, shellStatus, shellCancel).
THEOREM Invariance == JobsSpec => []IInv
<1> QED
  BY InitIInv, StepIInv, PTL DEF JobsSpec

\* Tables, processes and answers keep their types.
THEOREM TypeCorrect == JobsSpec => []JobsTypeOK
<1>1. IInv => JobsTypeOK
  BY DEF IInv
<1> QED
  BY <1>1, Invariance, PTL

\* An answered end of a job is the truth (shellStatus).
THEOREM EndCorrect == JobsSpec => []EndIsExact
<1>1. IInv => EndIsExact
  BY DEF IInv
<1> QED
  BY <1>1, Invariance, PTL

\* A status after one that told the end has all of the kept output (shellStatus).
THEOREM AgainCorrect == JobsSpec => []AgainIsComplete
<1>1. IInv => AgainIsComplete
  BY DEF IInv
<1> QED
  BY <1>1, Invariance, PTL

\* When a termination fails the shell has exited, and with a Job Object the job
\* has ended (shellCancel); without one a child may keep the job running.
THEOREM TerminationCorrect == JobsSpec => []TerminationFailedIsOver
<1>1. IInv => TerminationFailedIsOver
  BY DEF IInv
<1> QED
  BY <1>1, Invariance, PTL

\* A running job is in the table (shellStart).
THEOREM KnownCorrect == JobsSpec => []RunningIsKnown
<1>1. IInv => RunningIsKnown
  BY DEF IInv
<1> QED
  BY <1>1, Invariance, PTL

\* A cancel finds every job that runs, and one that fails has missed neither the
\* shell nor, with a Job Object, the container: both halves together.
THEOREM CancelCorrect == JobsSpec => []CancelIsSound
<1>1. TerminationFailedIsOver /\ RunningIsKnown => CancelIsSound
  BY DEF CancelIsSound
<1> QED BY TerminationCorrect, KnownCorrect, <1>1, PTL

-----------------------------------------------------------------------------
(* Jobs and owned processes within the executor.                           *)

OwnedProofs == INSTANCE OwnedProcessesProofs
                 WITH stage <- procStage, alive <- procAlive, call <- procCall, last <- procLast

\* The two kinds of containers are of the same system.
LEMMA JobsKeepContained == JobsNext => UNCHANGED contained
BY DEF JobsNext, Environment, Spawn, Output, Exit, Waiter, Wait, Close, Release, Finish, Forget,
       Client, Start, Contain, ContainFails, Find, StatusCopy, StatusAnswer, CancelLook,
       CancelTerminate

LEMMA ProcessesKeepContained == Owned!Next => UNCHANGED contained
BY DEF Owned!Next, Owned!Spawn, Owned!Exit, Owned!Start, Owned!Contain, Owned!ContainFails,
       Owned!Terminate, Owned!Waiter, Owned!Wait, Owned!Close, Owned!Release,
       Owned!Forget, Owned!Find

\* Whatever the executor does, its jobs are those of ShellJobs (Execute), so the
\* theorems about JobsSpec hold of the executor.
THEOREM ExecutorJobs == LiveExecutorSpec => JobsSpec
<1>1. ExecutorInit => JobsInit
  BY DEF ExecutorInit
<1>2. [ExecutorNext]_executorVars => [JobsNext]_jobVars
  BY ProcessesKeepContained
  DEF ExecutorNext, TasksOnly, JobsOnly, ProcessesOnly, executorVars, jobVars
<1> QED
  BY <1>1, <1>2, PTL DEF LiveExecutorSpec, JobsSpec

\* The definitions of OwnedProcesses are the same in both instances of it.
LEMMA SameStep == Owned!Next => OwnedProofs!Next
BY DEF Owned!Next, Owned!Spawn, Owned!Exit, Owned!Start, Owned!Contain, Owned!ContainFails,
       Owned!Terminate, Owned!Waiter, Owned!Wait, Owned!Close, Owned!Release,
       Owned!Forget, Owned!Find, Owned!Processes, Owned!Contained, Owned!Group,
       Owned!Answer, Owned!Idle, Owned!Started, Owned!Holding,
       OwnedProofs!Next, OwnedProofs!Spawn, OwnedProofs!Exit, OwnedProofs!Start, OwnedProofs!Contain,
       OwnedProofs!ContainFails, OwnedProofs!Terminate, OwnedProofs!Waiter,
       OwnedProofs!Wait, OwnedProofs!Close, OwnedProofs!Release,
       OwnedProofs!Forget, OwnedProofs!Find, OwnedProofs!Processes,
       OwnedProofs!Contained, OwnedProofs!Group, OwnedProofs!Answer,
       OwnedProofs!Idle, OwnedProofs!Started, OwnedProofs!Holding

\* Its owned processes are those of OwnedProcesses (Execute), so the theorems about
\* them hold of the executor.
THEOREM ExecutorOwned == LiveExecutorSpec => OwnedProofs!Spec
<1>1. ExecutorInit => OwnedProofs!Init
  BY DEF ExecutorInit, Owned!Init, Owned!Idle, Owned!Started,
         OwnedProofs!Init, OwnedProofs!Idle, OwnedProofs!Started
<1>2. [ExecutorNext]_executorVars => [OwnedProofs!Next]_(OwnedProofs!vars)
  <2> USE DEF OwnedProofs!vars, procVars
  <2>1. CASE TasksNext /\ TasksOnly
    BY <2>1 DEF TasksOnly, jobVars
  <2>2. CASE JobsNext /\ JobsOnly
    BY <2>2, JobsKeepContained DEF JobsOnly
  <2>3. CASE Owned!Next /\ ProcessesOnly
    BY <2>3, SameStep
  <2>4. CASE UNCHANGED executorVars
    BY <2>4 DEF executorVars, jobVars
  <2> QED
    BY <2>1, <2>2, <2>3, <2>4 DEF ExecutorNext
<1> QED
  BY <1>1, <1>2, PTL DEF LiveExecutorSpec, OwnedProofs!Spec

\* In the executor a running process is in the table e.owned unless an earlier one
\* had its id (processStart).
THEOREM ExecutorOwnedCorrect == LiveExecutorSpec => []RunningIsOwned
<1>1. OwnedProofs!RunningIsOwned => RunningIsOwned
  BY DEF OwnedProofs!RunningIsOwned, RunningIsOwned, Owned!RunningIsOwned
<1> QED
  BY ExecutorOwned, OwnedProofs!OwnedCorrect, <1>1, PTL

\* In the executor a stop answered without an error has ended the process, and
\* nothing runs on that the container of an ended process has (processStop,
\* container.Close).
THEOREM ExecutorStopCorrect == LiveExecutorSpec => []StopIsComplete
<1>1. OwnedProofs!StopIsComplete => StopIsComplete
  BY DEF OwnedProofs!StopIsComplete, OwnedProofs!StoppedIsOver, OwnedProofs!NothingLeftBehind,
         OwnedProofs!Contained, OwnedProofs!Group, StopIsComplete, Owned!StopIsComplete,
         Owned!StoppedIsOver, Owned!NothingLeftBehind, Owned!Contained, Owned!Group
<1> QED
  BY ExecutorOwned, OwnedProofs!StopCorrect, <1>1, PTL
=============================================================================
