--------------------------- MODULE OwnedProcesses ---------------------------
(***************************************************************************)
(* process.start and process.stop-owned of the executor: the table of the  *)
(* processes that the bridge started, by process id, against the goroutine *)
(* that waits for each of them and the system that reuses process ids.     *)
(*                                                                         *)
(* Other than a shell job, a started process has no output pipe: cmd.Wait  *)
(* returns when the process itself has exited.  From then on its id may be *)
(* given to another one.  On Windows the process is put into a Job Object  *)
(* right after it was started; a descendant spawned before that is outside *)
(* of it (runtime_windows.go:67-70).  Elsewhere the container is the       *)
(* process alone.                                                          *)
(***************************************************************************)
EXTENDS Naturals

CONSTANTS
  Procs,  \* bound: the processes that are started
  Pids,   \* process ids of the system
  None    \* no process, no id

VARIABLES
  contained,  \* TRUE on Windows: processes are in a kill-on-close Job Object
  stage,      \* how far processStart and the waiting goroutine of a process are
  pid,        \* its process id
  alive,      \* its processes that run
  owned,      \* the map e.owned
  call,       \* the command the client executes
  last        \* history: the latest answer

vars == <<contained, stage, pid, alive, owned, call, last>>

Stages == {"none", "starting", "running", "waited", "closing", "closed", "done", "abandoned"}

\* The process, a descendant spawned before the container was assigned, and one
\* spawned after (bound: one of each).
Processes == {"main", "early", "child"}
Group == {"main", "child"}

\* What the container of a process terminates.
Contained == IF contained THEN Group ELSE {"main"}

Idle == [op |-> "idle"]
Started == [op |-> "start"]

\* Processes whose id the system may not give away: nobody has waited for them.
Holding == {n \in Procs : stage[n] \in {"starting", "running"}}

Init ==
  /\ contained \in BOOLEAN
  /\ stage = [n \in Procs |-> "none"]
  /\ pid = [n \in Procs |-> None]
  /\ alive = [n \in Procs |-> {}]
  /\ owned = [i \in Pids |-> None]
  /\ call = Idle
  /\ last = Started

-----------------------------------------------------------------------------
(* The started processes.                                                  *)

Spawn(n) ==
  LET q == IF stage[n] = "starting" THEN "early" ELSE "child" IN
  /\ "main" \in alive[n]
  /\ q \notin alive[n]
  /\ alive' = [alive EXCEPT ![n] = @ \cup {q}]
  /\ UNCHANGED <<contained, stage, pid, owned, call, last>>

Exit(n, q) ==
  /\ q \in alive[n]
  /\ alive' = [alive EXCEPT ![n] = @ \ {q}]
  /\ UNCHANGED <<contained, stage, pid, owned, call, last>>

-----------------------------------------------------------------------------
(* processStart and its goroutine.                                         *)

Start(n, i) ==
  /\ call = Idle
  /\ stage[n] = "none"
  /\ i \notin {pid[m] : m \in Holding}
  /\ stage' = [stage EXCEPT ![n] = "starting"]
  /\ pid' = [pid EXCEPT ![n] = i]
  /\ alive' = [alive EXCEPT ![n] = {"main"}]
  /\ call' = [op |-> "start", proc |-> n]
  /\ UNCHANGED <<contained, owned, last>>

\* newProcessContainer, the table and the goroutine.
Contain(n) ==
  /\ call = [op |-> "start", proc |-> n]
  /\ stage' = [stage EXCEPT ![n] = "running"]
  /\ owned' = [owned EXCEPT ![pid[n]] = n]
  /\ call' = Idle
  /\ last' = Started
  /\ UNCHANGED <<contained, pid, alive>>

\* The process could not be assigned: it is killed and nobody waits for it.
ContainFails(n) ==
  /\ contained
  /\ call = [op |-> "start", proc |-> n]
  /\ stage' = [stage EXCEPT ![n] = "abandoned"]
  /\ alive' = [alive EXCEPT ![n] = @ \ {"main"}]
  /\ call' = Idle
  /\ UNCHANGED <<contained, pid, owned, last>>

\* x.Wait(), which gives the process id back.
Wait(n) ==
  /\ stage[n] = "running"
  /\ "main" \notin alive[n]
  /\ stage' = [stage EXCEPT ![n] = "waited"]
  /\ UNCHANGED <<contained, pid, alive, owned, call, last>>

\* container.Close clears the handle before it closes it.
Close(n) ==
  /\ stage[n] = "waited"
  /\ stage' = [stage EXCEPT ![n] = "closing"]
  /\ UNCHANGED <<contained, pid, alive, owned, call, last>>

\* Fault: the Job Object was not created with kill-on-close.
ReleaseKeeps(n) ==
  /\ stage[n] = "closing"
  /\ stage' = [stage EXCEPT ![n] = "closed"]
  /\ UNCHANGED <<contained, pid, alive, owned, call, last>>

\* CloseHandle: the end of the Job Object ends the processes in it.
Release(n) ==
  /\ stage[n] = "closing"
  /\ stage' = [stage EXCEPT ![n] = "closed"]
  /\ alive' = [alive EXCEPT ![n] = IF contained THEN @ \ Group ELSE @]
  /\ UNCHANGED <<contained, pid, owned, call, last>>

\* delete(e.owned, x.Process.Pid), whichever process the entry is for by now.
Forget(n) ==
  /\ stage[n] = "closed"
  /\ stage' = [stage EXCEPT ![n] = "done"]
  /\ owned' = [owned EXCEPT ![pid[n]] = None]
  /\ UNCHANGED <<contained, pid, alive, call, last>>

-----------------------------------------------------------------------------
(* processStop.                                                            *)

Answer(i, n, answer) ==
  /\ last' = [op |-> "stop", pid |-> i, proc |-> n, answer |-> answer]
  /\ call' = Idle

\* Fault: the entry is taken out although the termination may fail.
FindTakes(i) ==
  /\ call = Idle
  /\ IF owned[i] = None THEN Answer(i, None, "not_owned")
     ELSE call' = [op |-> "stop", pid |-> i, proc |-> owned[i]] /\ UNCHANGED last
  /\ owned' = [owned EXCEPT ![i] = None]
  /\ UNCHANGED <<contained, stage, pid, alive>>

\* The lookup in e.owned, under e.mu.
Find(i) ==
  /\ call = Idle
  /\ IF owned[i] = None THEN Answer(i, None, "not_owned")
     ELSE call' = [op |-> "stop", pid |-> i, proc |-> owned[i]] /\ UNCHANGED last
  /\ UNCHANGED <<contained, stage, pid, alive, owned>>

\* Fault: only the process that was started is terminated.
TerminateMainOnly(n) ==
  /\ call.op = "stop"
  /\ call.proc = n
  /\ stage[n] \in {"running", "waited"}
  /\ alive' = [alive EXCEPT ![n] = @ \ {"main"}]
  /\ Answer(call.pid, n, "stopped")
  /\ UNCHANGED <<contained, stage, pid, owned>>

\* container.Terminate.  A closed Job Object, or a process that was waited for,
\* is an error.
Terminate(n) ==
  /\ call.op = "stop"
  /\ call.proc = n
  /\ \/ /\ stage[n] \in (IF contained THEN {"running", "waited"} ELSE {"running"})
        /\ alive' = [alive EXCEPT ![n] = @ \ Contained]
        /\ Answer(call.pid, n, "stopped")
     \/ /\ IF contained THEN stage[n] \in {"closing", "closed", "done"} ELSE "main" \notin alive[n]
        /\ UNCHANGED alive
        /\ Answer(call.pid, n, "error")
  /\ UNCHANGED <<contained, stage, pid, owned>>

-----------------------------------------------------------------------------
Waiter(n) == Wait(n) \/ Close(n) \/ Release(n) \/ Forget(n)

Next ==
  \/ \E n \in Procs :
       \/ Spawn(n)
       \/ \E q \in Processes : Exit(n, q)
       \/ \E i \in Pids : Start(n, i)
       \/ Contain(n) \/ ContainFails(n) \/ Terminate(n)
       \/ Waiter(n)
  \/ \E i \in Pids : Find(i)

Spec == Init /\ [][Next]_vars

-----------------------------------------------------------------------------
(* Properties.                                                             *)

\* The table holds processes under their own ids, none before it is contained
\* and none after its goroutine has ended.
TypeOK ==
  /\ contained \in BOOLEAN
  /\ stage \in [Procs -> Stages]
  /\ pid \in [Procs -> Pids \cup {None}]
  /\ alive \in [Procs -> SUBSET Processes]
  /\ owned \in [Pids -> Procs \cup {None}]
  /\ \A i \in Pids : owned[i] # None =>
       pid[owned[i]] = i /\ stage[owned[i]] \in {"running", "waited", "closing", "closed"}

\* A process that runs can be stopped by its id, unless an earlier process had
\* the same id: only its goroutine may have removed the entry.
RunningIsOwned ==
  \A n \in Procs : stage[n] = "running" =>
    \/ owned[pid[n]] = n
    \/ \E m \in Procs \ {n} : pid[m] = pid[n] /\ stage[m] = "done"

\* After a stop was answered without an error the process does not run, and on
\* Windows no descendant either that was spawned in its Job Object.
StoppedIsOver ==
  last.op = "stop" /\ last.answer = "stopped" => alive[last.proc] \cap Contained = {}

\* On Windows nothing of a process is left when its entry is given up, or when it
\* could not be contained, but a descendant that it spawned before.
NothingLeftBehind ==
  contained =>
    \A n \in Procs : stage[n] \in {"closed", "done", "abandoned"} => alive[n] \subseteq {"early"}

\* A stop, or the end of a process, is complete: nothing of it that the container
\* has goes on running.
StopIsComplete == StoppedIsOver /\ NothingLeftBehind

-----------------------------------------------------------------------------

\* processStop: "process is not owned by bridge".  While the latest stop was
\* answered so, no process with this id runs that the bridge has started.
NotOwnedIsTrue ==
  last.op = "stop" /\ last.answer = "not_owned" =>
    \A n \in Procs : pid[n] = last.pid => stage[n] # "running"
=============================================================================
