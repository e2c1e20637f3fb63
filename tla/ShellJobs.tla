------------------------------ MODULE ShellJobs ------------------------------
(***************************************************************************)
(* Asynchronous shell jobs of the executor: shell.start, shell.status and  *)
(* shell.cancel against the processes of the job and the goroutine that    *)
(* waits for them.                                                         *)
(*                                                                         *)
(* bridge-client executes one command at a time, but a command is          *)
(* several steps: it looks the job up under e.mu, copies the output under  *)
(* the buffer's mutex, and looks at the done channel without either.  The  *)
(* processes and the goroutine run on in between.                          *)
(*                                                                         *)
(* cmd.Wait returns when the shell has exited and every process that holds *)
(* the output pipe has closed it.  On Windows the shell is put into a Job  *)
(* Object right after it was started; a descendant spawned before that is  *)
(* outside of it (runtime_windows.go:67-70).  Elsewhere the container is   *)
(* the shell alone.                                                        *)
(***************************************************************************)
EXTENDS Naturals, FiniteSets

CONSTANTS
  Jobs,      \* ids that newID may draw
  MaxKept,   \* bytes that a job's buffer keeps, 1 << 20 in the code
  MaxBytes   \* bound: bytes that a job writes

ASSUME OutputAssumption ==
  {MaxKept, MaxBytes} \subseteq Nat

VARIABLES
  contained,  \* TRUE on Windows: processes are in a kill-on-close Job Object
  stage,      \* how far shellStart and the waiting goroutine of a job are
  alive,      \* the processes of the job that run
  piped,      \* those of its processes that were given the output pipe
  exit,       \* how the shell ended
  err,        \* job.err, as an exit code
  written,    \* bytes written to the buffer, those beyond the cap included
  jobs,       \* the keys of the map e.jobs
  command,    \* the command the client executes
  latest,     \* history: the latest answer to a status or cancel
  over        \* history: jobs whose end a status has answered

jobVars == <<contained, stage, alive, piped, exit, err, written, jobs, command, latest, over>>

Stages == {"none", "starting", "running", "waited", "closing", "released",
           "done", "abandoned"}

\* The shell, a descendant spawned before the container was assigned, and one
\* spawned after (bound: one of each).
Processes == {"shell", "early", "child"}
Group == {"shell", "child"}

ExitCodes == {"unset", "zero", "nonzero"}

\* snapshot: what the capped buffer has.
Kept(bytes) == IF bytes < MaxKept THEN bytes ELSE MaxKept

NoCall == [op |-> "idle"]
NoAnswer == [op |-> "none"]

JobsInit ==
  /\ contained \in BOOLEAN
  /\ stage = [j \in Jobs |-> "none"]
  /\ alive = [j \in Jobs |-> {}]
  /\ piped = [j \in Jobs |-> {}]
  /\ exit = [j \in Jobs |-> "unset"]
  /\ err = [j \in Jobs |-> "unset"]
  /\ written = [j \in Jobs |-> 0]
  /\ jobs = {}
  /\ command = NoCall
  /\ latest = NoAnswer
  /\ over = {}

\* The processes ps of the job are ended from outside.
Killed(j, ps) ==
  /\ alive' = [alive EXCEPT ![j] = @ \ ps]
  /\ exit' = [exit EXCEPT ![j] = IF "shell" \in alive[j] \cap ps THEN "nonzero" ELSE @]

-----------------------------------------------------------------------------
(* The processes of a job.                                                 *)

Spawn(j, withPipe) ==
  LET q == IF stage[j] = "starting" THEN "early" ELSE "child" IN
  /\ "shell" \in alive[j]
  /\ q \notin alive[j] \cup piped[j]
  /\ alive' = [alive EXCEPT ![j] = @ \cup {q}]
  /\ piped' = [piped EXCEPT ![j] = IF withPipe THEN @ \cup {q} ELSE @]
  /\ UNCHANGED <<contained, stage, exit, err, written, jobs, command, latest, over>>

\* capped.Write: what was written may reach the buffer until Wait returns.
Output(j) ==
  /\ stage[j] \in {"starting", "running"} \/ alive[j] \cap piped[j] # {}
  /\ written[j] < MaxBytes
  /\ written' = [written EXCEPT ![j] = @ + 1]
  /\ UNCHANGED <<contained, stage, alive, piped, exit, err, jobs, command, latest, over>>

\* A process ends by itself; the timeout of the job's context ends the shell.
Exit(j, q) ==
  /\ q \in alive[j]
  /\ alive' = [alive EXCEPT ![j] = @ \ {q}]
  /\ IF q = "shell" THEN \E code \in {"zero", "nonzero"} : exit' = [exit EXCEPT ![j] = code]
                    ELSE UNCHANGED exit
  /\ UNCHANGED <<contained, stage, piped, err, written, jobs, command, latest, over>>

-----------------------------------------------------------------------------
(* The goroutine of shellStart.                                            *)

\* Fault: the goroutine does not wait for the output pipe.
WaitShell(j) ==
  /\ stage[j] = "running"
  /\ "shell" \notin alive[j]
  /\ stage' = [stage EXCEPT ![j] = "waited"]
  /\ err' = [err EXCEPT ![j] = exit[j]]
  /\ UNCHANGED <<contained, alive, piped, exit, written, jobs, command, latest, over>>

\* j.err = x.Wait(); j.finished = time.Now()
Wait(j) ==
  /\ stage[j] = "running"
  /\ alive[j] \cap (piped[j] \cup {"shell"}) = {}
  /\ stage' = [stage EXCEPT ![j] = "waited"]
  /\ err' = [err EXCEPT ![j] = exit[j]]
  /\ UNCHANGED <<contained, alive, piped, exit, written, jobs, command, latest, over>>

\* container.Close clears the handle before it closes it; Terminate looks at the
\* handle without a lock.
Close(j) ==
  /\ stage[j] = "waited"
  /\ stage' = [stage EXCEPT ![j] = "closing"]
  /\ UNCHANGED <<contained, alive, piped, exit, err, written, jobs, command, latest, over>>

\* Fault: the Job Object was not created with kill-on-close.
ReleaseKeeps(j) ==
  /\ stage[j] = "closing"
  /\ stage' = [stage EXCEPT ![j] = "released"]
  /\ UNCHANGED <<contained, alive, piped, exit, err, written, jobs, command, latest, over>>

\* CloseHandle: the end of the Job Object ends the processes in it.
Release(j) ==
  /\ stage[j] = "closing"
  /\ stage' = [stage EXCEPT ![j] = "released"]
  /\ Killed(j, IF contained THEN Group ELSE {})
  /\ UNCHANGED <<contained, piped, err, written, jobs, command, latest, over>>

\* cancel(); close(j.done)
Finish(j) ==
  /\ stage[j] = "released"
  /\ stage' = [stage EXCEPT ![j] = "done"]
  /\ UNCHANGED <<contained, alive, piped, exit, err, written, jobs, command, latest, over>>

\* Fault: the five minutes run from the start of the job.
ForgetRunning(j) ==
  /\ j \in jobs
  /\ jobs' = jobs \ {j}
  /\ UNCHANGED <<contained, stage, alive, piped, exit, err, written, command, latest, over>>

\* The timer, five minutes after the end.
Forget(j) ==
  /\ stage[j] = "done"
  /\ j \in jobs
  /\ jobs' = jobs \ {j}
  /\ UNCHANGED <<contained, stage, alive, piped, exit, err, written, command, latest, over>>

-----------------------------------------------------------------------------
(* The commands.                                                           *)

\* shellStart, x.Start: a failure changes nothing.
Start(j) ==
  /\ command = NoCall
  /\ stage[j] = "none"
  /\ stage' = [stage EXCEPT ![j] = "starting"]
  /\ alive' = [alive EXCEPT ![j] = {"shell"}]
  /\ piped' = [piped EXCEPT ![j] = {"shell"}]
  /\ command' = [op |-> "start", job |-> j]
  /\ UNCHANGED <<contained, exit, err, written, jobs, latest, over>>

\* newProcessContainer, the table, and the goroutine.
Contain(j) ==
  /\ command = [op |-> "start", job |-> j]
  /\ stage' = [stage EXCEPT ![j] = "running"]
  /\ jobs' = jobs \cup {j}
  /\ command' = NoCall
  /\ UNCHANGED <<contained, alive, piped, exit, err, written, latest, over>>

\* The shell could not be assigned, for one because it has already exited: it
\* is killed and nobody waits for it.
ContainFails(j) ==
  /\ contained
  /\ command = [op |-> "start", job |-> j]
  /\ stage' = [stage EXCEPT ![j] = "abandoned"]
  /\ Killed(j, {"shell"})
  /\ command' = NoCall
  /\ UNCHANGED <<contained, piped, err, written, jobs, latest, over>>

\* shellStatus and shellCancel look the job up; "job not found" changes nothing.
Find(j, op) ==
  /\ command = NoCall
  /\ j \in jobs
  /\ command' = [op |-> op, job |-> j]
  /\ UNCHANGED <<contained, stage, alive, piped, exit, err, written, jobs, latest, over>>

\* Fault: the last byte is held back, since it may be half of a character.
StatusCopyHeld(j) ==
  /\ command = [op |-> "status", job |-> j]
  /\ command' = [op |-> "copied", job |-> j, to |-> IF written[j] = 0 THEN 0 ELSE Kept(written[j]) - 1]
  /\ UNCHANGED <<contained, stage, alive, piped, exit, err, written, jobs, latest, over>>

\* j.out.snapshot()
StatusCopy(j) ==
  /\ command = [op |-> "status", job |-> j]
  /\ command' = [op |-> "copied", job |-> j, to |-> Kept(written[j])]
  /\ UNCHANGED <<contained, stage, alive, piped, exit, err, written, jobs, latest, over>>

\* The done channel, and the answer.  j.err is read without a lock: while the
\* job runs exitCode is 0 or the code that Wait just stored.
StatusAnswer(j) ==
  LET running == stage[j] # "done" IN
  /\ command.op = "copied"
  /\ command.job = j
  /\ \E code \in IF running THEN {"unset", err[j]} ELSE {err[j]} :
       latest' = [op |-> "status", job |-> j, running |-> running, to |-> command.to,
                exit |-> code, again |-> j \in over]
  /\ over' = IF running THEN over ELSE over \cup {j}
  /\ command' = NoCall
  /\ UNCHANGED <<contained, stage, alive, piped, exit, err, written, jobs>>

CancelAnswer(j, answer) ==
  /\ latest' = [op |-> "cancel", job |-> j, answer |-> answer]
  /\ command' = NoCall

\* The done channel of a job to be cancelled.
CancelLook(j) ==
  /\ command = [op |-> "cancel", job |-> j]
  /\ IF stage[j] = "done" THEN CancelAnswer(j, "already_completed")
     ELSE command' = [op |-> "terminate", job |-> j] /\ UNCHANGED latest
  /\ UNCHANGED <<contained, stage, alive, piped, exit, err, written, jobs, over>>

\* Fault: only the process that was started is terminated.
TerminateShellOnly(j) ==
  /\ command = [op |-> "terminate", job |-> j]
  /\ stage[j] \in {"running", "waited"}
  /\ Killed(j, {"shell"})
  /\ CancelAnswer(j, "cancel_requested")
  /\ UNCHANGED <<contained, stage, piped, err, written, jobs, over>>

\* container.Terminate, then j.cancel().  A closed Job Object, or a shell that
\* was waited for, is an error; a shell that has exited may have been or not.
CancelTerminate(j) ==
  /\ command = [op |-> "terminate", job |-> j]
  /\ \/ /\ IF contained THEN stage[j] \in {"running", "waited"} ELSE stage[j] = "running"
        /\ Killed(j, IF contained THEN Group ELSE {"shell"})
        /\ CancelAnswer(j, "cancel_requested")
     \/ /\ IF contained THEN stage[j] \in {"closing", "released", "done"} ELSE "shell" \notin alive[j]
        /\ UNCHANGED <<alive, exit>>
        /\ CancelAnswer(j, "termination_failed")
  /\ UNCHANGED <<contained, stage, piped, err, written, jobs, over>>

-----------------------------------------------------------------------------
Environment(j) ==
  \/ Output(j)
  \/ \E withPipe \in BOOLEAN : Spawn(j, withPipe)
  \/ \E q \in Processes : Exit(j, q)

Waiter(j) == Wait(j) \/ Close(j) \/ Release(j) \/ Finish(j)

Client(j) ==
  \/ Start(j) \/ Contain(j) \/ ContainFails(j)
  \/ \E op \in {"status", "cancel"} : Find(j, op)
  \/ StatusCopy(j) \/ StatusAnswer(j)
  \/ CancelLook(j) \/ CancelTerminate(j)

JobsNext == \E j \in Jobs : Environment(j) \/ Waiter(j) \/ Forget(j) \/ Client(j)

JobsSpec == JobsInit /\ [][JobsNext]_jobVars

\* The goroutine is scheduled.  Processes need not end.
LiveJobsSpec == JobsSpec /\ \A j \in Jobs : WF_jobVars(Waiter(j))

-----------------------------------------------------------------------------
(* Properties.                                                             *)

JobAnswers ==
  {NoAnswer} \cup
  [op : {"status"}, job : Jobs, running : BOOLEAN, to : 0..MaxKept,
   exit : ExitCodes, again : BOOLEAN] \cup
  [op : {"cancel"}, job : Jobs,
   answer : {"already_completed", "cancel_requested", "termination_failed"}]

\* No process of a job runs before the job was started, and nobody waits for a
\* job that was abandoned (shellStart).
JobsTypeOK ==
  /\ contained \in BOOLEAN
  /\ stage \in [Jobs -> Stages]
  /\ alive \in [Jobs -> SUBSET Processes]
  /\ piped \in [Jobs -> SUBSET Processes]
  /\ exit \in [Jobs -> ExitCodes]
  /\ err \in [Jobs -> ExitCodes]
  /\ written \in [Jobs -> 0..MaxBytes]
  /\ jobs \subseteq Jobs
  /\ over \subseteq Jobs
  /\ latest \in JobAnswers
  /\ \A j \in Jobs : stage[j] = "none" => alive[j] = {}

\* An answer "running": false is the truth: the shell has exited with the code
\* in the answer, and nothing writes to the job's output any more.
EndIsExact ==
  latest.op = "status" /\ ~latest.running =>
    /\ exit[latest.job] = latest.exit /\ latest.exit # "unset"
    /\ alive[latest.job] \cap (piped[latest.job] \cup {"shell"}) = {}

\* The first answer that says the job has ended may lack the end of its output,
\* which was written between the copy and the look at the channel.  Asked again
\* shell.status returns all that is kept.
AgainIsComplete ==
  latest.op = "status" /\ latest.again => latest.to = Kept(written[latest.job])

\* A termination that failed has not missed the shell: it had exited.  With a
\* Job Object the job had ended as well, and its container is empty or is being
\* closed; only a descendant outside of it may run on.  Without a Job Object the
\* job may go on: a child that holds the pipe keeps it running (status says so),
\* and Kill has nothing to kill but the shell.
TerminationFailedIsOver ==
  latest.op = "cancel" /\ latest.answer = "termination_failed" =>
    /\ "shell" \notin alive[latest.job]
    /\ contained =>
         /\ stage[latest.job] \in {"closing", "released", "done"}
         /\ stage[latest.job] # "closing" => alive[latest.job] \cap Group = {}

\* A job can be asked about and cancelled for as long as it runs.
RunningIsKnown ==
  \A j \in Jobs : stage[j] \in {"running", "waited", "closing", "released"} => j \in jobs

\* A cancel finds every job that runs, and one that fails has missed neither the
\* shell nor, with a Job Object, anything in the container.
CancelIsSound == TerminationFailedIsOver /\ RunningIsKnown

Cancelled(j) ==
  latest.op = "cancel" /\ latest.job = j /\ latest.answer = "cancel_requested"

\* With a Job Object a cancelled job ends, whatever its processes do, unless a
\* descendant escaped the container by being spawned before the assignment.
CancelEnds ==
  \A j \in Jobs : contained /\ Cancelled(j) /\ "early" \notin alive[j] ~> stage[j] = "done"
=============================================================================
