------------------------------ MODULE Executor ------------------------------
(***************************************************************************)
(* The executor as a whole: shell jobs, owned processes, and the tasks of  *)
(* AgentTasks.  They share no state but the client that executes one       *)
(* command at a time: e.jobs, e.owned and the files are disjoint, and so   *)
(* are the processes.  A behaviour is about one of the three areas, while  *)
(* the others rest.                                                        *)
(***************************************************************************)
EXTENDS AgentTasks, ShellJobs

CONSTANTS
  Procs,  \* bound: the processes that are started
  Pids,   \* process ids of the system
  None    \* no process, no id

VARIABLES
  area,        \* what the behaviour is about: "tasks", "jobs" or "processes"
  procStage,   \* how far processStart and the waiting goroutine of a process are
  pid,         \* its process id
  procAlive,   \* its processes that run
  owned,       \* the map e.owned
  procCall,    \* the command about processes that the client executes
  procLast     \* history: the latest answer about one

Owned == INSTANCE OwnedProcesses
           WITH stage <- procStage, alive <- procAlive, call <- procCall, last <- procLast

\* The variables of owned processes, but for contained, which jobs have too.
procVars == <<procStage, pid, procAlive, owned, procCall, procLast>>
executorVars == <<area, tasksVars, jobVars, procVars>>

TasksRest ==
  /\ topic = "list" /\ ListingRests /\ DownloadRests
  /\ OneShotInit /\ ViewInit /\ Init

ExecutorInit ==
  /\ area \in {"tasks", "jobs", "processes"}
  /\ IF area = "tasks" THEN TasksInit /\ contained = TRUE ELSE TasksRest
  /\ JobsInit
  /\ Owned!Init

TasksOnly == area = "tasks" /\ UNCHANGED <<area, jobVars, procVars>>
JobsOnly == area = "jobs" /\ UNCHANGED <<area, tasksVars, procVars>>
ProcessesOnly ==
  area = "processes" /\ UNCHANGED <<area, tasksVars, piped, stage, alive, exit, err, written,
                                    jobs, command, latest, over>>

ExecutorNext ==
  \/ TasksNext /\ TasksOnly
  \/ JobsNext /\ JobsOnly
  \/ Owned!Next /\ ProcessesOnly

\* What TasksFairness and LiveJobsSpec assume.
ExecutorFairness ==
  /\ WF_executorVars(ListingStep /\ ListingOnly /\ TasksOnly)
  /\ WF_executorVars(DownloadStep /\ DownloadOnly /\ TasksOnly)
  /\ WF_executorVars(OneShotStep /\ OneShotOnly /\ TasksOnly)
  /\ \A j \in Jobs : WF_executorVars(Waiter(j) /\ JobsOnly)

LiveExecutorSpec == ExecutorInit /\ [][ExecutorNext]_executorVars /\ ExecutorFairness

\* A running process is in the table e.owned, or an earlier one had its id.
RunningIsOwned == Owned!RunningIsOwned

\* A stop and an end leave nothing running that the container of the process has
\* (processStop, container.Close).
StopIsComplete == Owned!StopIsComplete
=============================================================================
