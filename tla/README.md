# TLA+ models of OpenClaw Portable Bridge

This directory holds a verification development for the repository: TLA+
modules of its parts, TLC configurations that model-check them, and proofs that
TLAPS checks. `PROJECT.json` lists the runs, the mutants that show each property
can fail, the source lines every definition models, the known hazards and the
theorems.

    tlc -config BrokerSession.cfg MCBroker.tla      check one run
    tlapm BrokerProofs.tla                          check the broker's proofs
    tlapm ShellJobsProofs.tla                       ... of the jobs, and of jobs and owned processes in the executor
    tlapm OwnedProcessesProofs.tla                  ... of the owned processes
    tlapm AgentTasksProofs.tla                      ... of uploads, downloads, listings and views
    tlapm GuestSessionProofs.tla                    ... of client and broker together
    tlapm ApprovalProofs.tla                        ... of the approval by chat
    tlapm PairLimitProofs.tla                       ... of the limiter
    tlapm UsbReleaseProofs.tla                      ... of the releases

## 1. The system

A technician's agent works on a guest machine through a broker. The guest starts
the client from a USB stick, asks for a session, an approver accepts it, and the
client then polls the broker for commands, executes them and returns results.

| Part | State it keeps | Operations | Talks to |
|---|---|---|---|
| `cmd/pairing-broker` main.go | map of pairing requests and sessions; per session the status, token hash, queue, command states, leases, results; limiter tables | pair, status, approve, reject, enqueue, poll, ack, result, revoke (guest and operator), results, janitor | state file; guests and operators over HTTP |
| `cmd/pairing-broker` state.go | the JSON file of the whole map | save, openStateStore, recoverState | the file system |
| `cmd/pairing-broker` result_view.go | none | bounded, sanitized view of results | the operator |
| `cmd/bridge-client` | session token, backoff, the command at hand | pair, poll, ack, execute, result, revoke | broker; executor |
| `internal/executor` | running jobs and their output, owned processes, part files | the commands of the protocol | processes and files of the guest |
| `cmd/bridge-operator`, `cmd/bridge-mcp` | none | one administrator request per call | broker |
| approval plugin and notifier | marker files of sent notifications | list pending, approve, reject | bridge-operator; a chat |
| `cmd/usb-launcher`, `internal/release` | a staging directory | verify, stage and start the client | the USB stick |
| `internal/auth`, `protocol`, `audit` | the audit log | sign, hash, encode, append | - |
| `scripts/build-release.sh`, `prepare-usb.sh` | the published package, the stick, backups | build and publish a release, put it on a stick | directories that the launcher reads |
| other `scripts/` | installation plans | install, diagnose | external programs |

### What is hard

*Broker.* Each handler runs in its own goroutine and holds one mutex, but guest
requests take it twice: `session()` authenticates and returns the entry, the
body is read, and the effect is done under a second hold, by when the entry may
have been revoked, have expired, or have left the table. A poll takes the mutex
up to 250 times. Every change is followed by a save of the whole table that can
fail, and the handlers disagree on what to do then: pair, approve, reject,
status and enqueue undo the change, the others keep it in memory and answer 500.
The next save of any session writes it. A crash takes back what was not saved,
and recovery rebuilds the queue from the saved queue and the command states.
Leases run out by the clock while acknowledgements are on their way.

*Client.* Answers get lost. A command is executed only after an acknowledgement
that was answered, a result is sent once and its error ignored.

*Executor.* Commands run one after another, but the processes they start and the
goroutines that wait for them do not: status and cancel race the end of a job,
a stop races the reuse of a process id, a file may appear between the check that
it does not exist and the write. Listings and downloads are made of several calls
over files that change between and within them. One program is run against a
deadline and may leave a child that holds its output.

*Approval.* The plugin's handler is asynchronous: several callbacks, the command
line and the janitor decide between its awaits, any await may throw, and a decision
may be taken although its answer never came. The notifier may stop at any line.

*Releases.* Three programs share directories and no lock. Each is a sequence of moves
and copies that can be interrupted, and the launcher reads one file after the other
from a stick that may be rewritten meanwhile.

### What makes each part correct

* Broker: no command is lost or delivered twice by moving ids between queue,
  leases and file; a command is executed at most once; what was answered with
  200 (started, accepted, revoked, token) stays true after failed saves and
  restarts; every queued command is offered as long as the session is active.
* Client with broker: each command is executed at most once whatever is lost, what
  is executed is running at the broker, and the client revokes on purpose only.
* Approval: a request is decided once, and a prompt shows the decision that was taken.
* Executor: the end of a job is reported exactly; a job cancelled in its Job Object
  ends; a stop reaches the process it names and no other; an upload becomes visible whole,
  with the expected hash, or not at all; a listing skips nothing that stays and a
  download of a growing file is whole; an output not marked as truncated is complete.
* Limiter: at most so many admissions in any minute, none twice, none refused without cause.
* Releases: what is published, kept on a stick and started is one whole release, and an
  interruption loses none.

## 2. Plan

| Order | Module | Models | State |
|---|---|---|---|
| 1 | `Broker` | the broker's table, queues, leases, file, failed saves, restarts | done |
| 2 | `BrokerProofs` | lemmas on sequences without repetition; the broker's theorems | done |
| 3 | `ShellJobs`, `OwnedProcesses`, each with its `Proofs` | asynchronous jobs; process.start and process.stop-owned | done |
| 4 | `ChunkedUpload` | files.write, files.write-chunk | done |
| 5 | `CommandLifecycle` | abstract specification of a command, implemented by `GuestSession` | done |
| 6 | `GuestSession`, `GuestSessionProofs` | the client composed with `Broker` over a lossy connection | done |
| 7 | `Approval`, `ApprovalProofs` | plugin, notifier and command line composed with `Broker` | done |
| 8 | `PairLimit`, `PairLimitProofs` | rate limiter and replay table of pairing | done |
| 9 | `UsbRelease`, `UsbReleaseProofs` | build-release.sh, prepare-usb.sh and the launcher | done |
| 10 | `Listing`, `ChunkedDownload`, `OneShot`, `AgentView`, `AgentTasks` | what an agent does besides jobs, and how it is shown results | done |
| 11 | `Executor` | jobs, owned processes and the agent's tasks together | done |
| 12 | `AgentTasksProofs` | the theorems of all that `AgentTasks` composes, uploads included | done |
| 13 | further proofs | safety that the liveness properties rest on; abstract specifications of the limiter and of the package directory | open |

## 3. The modules

### Broker

`p` is every `*pending` the process has, by id; `live` the keys of the map `s.p`.
They are separate because a goroutine that authenticated may hold an entry the
janitor has deleted from the map. `disk` is the state file as the last successful
save left it: `save` writes a temporary file and renames it, so there is nothing
in between. `conn` is what each guest-facing goroutine is serving between its two
holds of the mutex. An entry has the status, the number of the token whose hash
is in force (`token`), the clear token kept for `status` (`clear`), the queue, a
state and a payload per command id, and the stored results.

Clocks are one-way sets: `aged` (created more than ten minutes ago), `expired`
(`ExpiresAt` passed) and `lapsed` (the lease ran out). Each may grow at any time,
so every order of timeouts and requests is covered; `lapsed` shrinks when the
lease is taken back.

Each hold of the mutex is one action. `Saved(s, e)` is a change whose save
succeeds, `Unsaved(s, e)` one that stays in memory although the save failed. A
handler that undoes its change when the save fails leaves the state as it was and
has no action for that case. `Restart` may happen at any moment, between any two
actions: goroutines and clear tokens are gone, and `main` recovers the file,
saves it and serves. The history variable `told` records what was answered with
200; the properties are about it.

Abstractions: command names and parameters are payloads (what the fingerprint
covers); whether a payload is a control command is the constant `Control`; a
guest's requested capabilities are `Requested`. The pairing token, the limiter,
the comparison code, the audit log and the read-only listings are left out. The
deadline of a command is not looked at by the broker after the enqueue. The
branch of poll that drops a head which is not queued is modelled, and shown dead
by QueueExact.

### BrokerProofs

The lemmas and theorems of section 6.

### CommandLifecycle

What the bridge promises of a command: started once, run once and only if started,
accepted once and only if run. Three variables, no broker, no connection, no lease.

### GuestSession, GuestSessionProofs

`GuestSession` extends `Broker` with one client per session. `guest` is the place of
its main loop: pairing, polling, acking, executing, reporting, closing, and the two
ways it ends. A call is a handler of `Broker` that authenticated (`Send`), and
`caller` says who still waits for it: the main loop, the goroutine of Ctrl+C, or
nobody. `LoseCall` is a request that is lost, an answer that is lost, or the time
limit of 35 s, after which the broker may still serve what the client has given up. So an
abandoned poll may lease a command to nobody, and an abandoned ack may start one that
is never executed. `Answer` moves the loop on with what the handler answered: 200, 500
after a failed save, 409. `TurnedAway` is an answer of session() that ends the
loop, `Onward` every answer that does not. `RestartUnder` breaks all connections.
`pollResilient` is the loop from polling back to polling; its backoff is not visible.
`Learn` and `Ask` are the steps that need the network, and `Execute` is a command, which may
hang: the fairness of section 5 treats them apart.

AtMostOnce says that the composition implements `CommandLifecycle`, under the mapping
of the broker's history (`told.started`, `told.accepted`) and the client's (`runs`).

### Approval, ApprovalProofs

`Approval` extends `Broker` with the chat. `prompts` holds what each message of a
request shows, `callback` at which await each handler of the plugin is. `Look` is the
list of pending requests, `SendDecision` the call of bridge-operator, `ServeDecision`
and `RefuseDecision` what the broker does with it, with the answer lost or not;
`Timeout` kills bridge-operator after ten seconds while its request is under way. A
callback with a wrong code stops at the stage "mismatch"; one that finds nothing pending
marks its message as expired, whatever it shows. The
notifier's `Post` and `Mark` are two lines of the script and `Abort` ends it anywhere, so
a request may have two messages (`MaxPrompts`).
`CommandLine` decides beside the plugin.

### PairLimit, PairLimitProofs

allowPair(): `seen` and `rates` with a clock of ticks. `Minute` and `Memory` stand for
the window of a host and the ten minutes of the replay table, `Limit` for ten. The
history `admitted` is what the properties are about; `Within` is the loop that keeps a host's times within the window. The tables are not in the state
file, so a restart begins it anew. In `Broker`, Pair may or may not happen.

### UsbRelease, UsbReleaseProofs

A directory is a function from its five files to the release each belongs to. A move
is one step, a copy or removal one step per file, in either of two orders that a file
system may list them in. The launcher reads config, manifest, payload and VERSION.txt
in four steps, from the release directory or from the stage. The constant
`Version` gives each release a core, the dotted parts, and a suffix, what is behind the
first '-'. `Numeric` is the reading of a core, which fails if a part is no number;
`VersionAtLeast` reads both versions, drops the suffixes and compares part by part;
`NotOlder` is the order that it should be, the lexicographic one with missing parts as
zero. `VersionsMatch` is the launcher's check: its own version against the manifest's
minimum, and VERSION.txt against the manifest's version, as text. release-tool signs no
version that it cannot read, which is a guard of `Build`. Several releases may have
one version: that is what a rebuild of a published version is. A file with its signature is its
release; `Bad` is a file that went bad.

### Listing, ChunkedDownload, OneShot, AgentView, AgentTasks, AgentTasksProofs

`Listing` is an agent that follows the pages of files.list, process.list or
service.list; a directory is read in two parts (names, then each file's Info), while
files come and go, and any of its steps may fail (`RefusePage`). `Arranged` sorts what matches, so a page is a stretch of `Ascending`.
`ChunkedDownload` is an agent that follows nextOffset until eof;
`inodes` are the files that had the name, so that a chunk which was opened reads the one it
opened; appending, truncating and replacing go on between Stat and ReadAt. `Taken` is the
broker's limit of 2 MiB on an output: the client drops the refusal, so an agent that asks
for more waits for ever ("unanswered"). `OneShot` is
a program against its deadline, with the capped buffer and a child left behind.
`AgentView` is the answer to view=agent: `Sanitized`, `Cut` and `Envelope` are the
functions of result_view.go on outputs made of characters of one, two and three bytes,
control characters and broken bytes; `remaining` is its loop over outputs, with what is left of the
total. `AgentTasks` composes them with `ChunkedUpload`:
the client executes one command at a time, so an agent is busy with one of them, its
`topic`, and the others do not move.

### MC modules

`MCBroker`, `MCGuestSession`, `MCApproval`, `MCPairLimit`, `MCUsbRelease` and
`MCExecutor` hold the values and symmetries TLC needs.

### ShellJobs, ShellJobsProofs

The client executes one command at a time (`command`), but a command is several
steps, and between them run the processes of a job (`alive`; `piped` are those
that were given the output pipe), the goroutine that waits for them (`stage`) and
the timer that forgets the job (`jobs`). `StatusCopy` and `StatusAnswer` are the
two looks of shell.status, at the buffer and at the done channel; `CancelLook`
and `CancelTerminate` those of shell.cancel. `Wait` needs the shell ended and the
pipe closed by everyone, as cmd.Wait does. `Close` and `Release` are the two
statements of windowsJob.Close, since Terminate reads the handle without a lock.
`contained` is chosen at the start and never changes: TRUE is the Job Object of
Windows, which holds the shell and what it spawned after the assignment but not
what it spawned before (`early`, the race that runtime_windows.go:69-70
concedes); FALSE is the portable container, which is the shell alone. The read of `job.err` that races
its write returns either value. The buffer is a count of bytes, capped at
`MaxOutput`.

### Executor

`AgentTasks`, `ShellJobs` and `OwnedProcesses` together. They share the client, which
executes one command at a time, and no other state, so a behaviour is about one
`area` and the others rest: this is a sum of the three, not their product. What
one area's processes could do to the files of another is in the steps of other
programs (`Interfere`, `Edit`, `Appear`, `Vanish`).

### OwnedProcesses, OwnedProcessesProofs

`owned` is the map e.owned from process ids to started processes. The system may
give an id away as soon as its process was waited for, while the goroutine has
still to close the container and to delete the entry (`stage`). `Find` and
`Terminate` are the two halves of process.stop-owned. As in `ShellJobs`, a process runs
before it is put into its Job Object, and a descendant spawned meanwhile ("early") is
outside of it; `Contained` is what a termination reaches.

### ChunkedUpload

One path of the guest and its part file. A block of an upload is its version and
its number, so that a file tells where each of its blocks came from; a hash is the
version it belongs to. Every chunk of every version may arrive at any time. Opening
the part file, comparing its size and truncating it is one action, and so are
writing, reading back and hashing, because nobody else touches the part file and
the states in which the client can be stopped in between are those of
`WriteFails`. `Exists` and `Rename` (`WriteExists` and `WriteFile`) are two actions,
because other programs use the path (`Interfere`).

## 4. Runs

All runs but `PairLimit` set `CHECK_DEADLOCK FALSE`: ids, processes, releases and
restarts are finite and an agent that has its answer stops, so a behaviour in which
everything was drawn, decided and forgotten has nothing left to do.

| Run | Bounds | Shows |
|---|---|---|
| `BrokerSession` | 1 session, 2 commands, 2 goroutines, regular limit 2, 1 stored result, 1 restart | ResultsExact, StartedStays, RevocationFinal, TokenHonoured, QueueExact, FileFollows, ConsumedOnce, LifeCycle |
| `GuestSession` | 1 client, 2 commands, 2 calls in progress, 1 restart | GuestTypeOK, RunsAtBroker, RevokesOnPurpose, AtMostOnce (refinement) |
| `GuestLive` | 1 client, 2 commands, 1 call in progress, fairness | GuestLeaves, CommandsGoOn, CallsReturn |
| `Approval` | 1 request, 2 callbacks, 2 prompts, 1 restart | DecidedOnce, PromptsAreRight, ButtonsStay |
| `PairLimit` | 2 hosts, 4 requests, window 2, memory 3, limit 2, 5 ticks | ReplayExact, RateExact |
| `Executor` | 1 job, 2 bytes of which 1 is kept; 2 processes, 2 ids; both platforms; 5 names, 2 changes; files of up to 5 bytes, 2 edits; uploads of 2, 3 and 4 blocks, limit 3; 3 written bytes of which 2 are kept; 2 results of 6 outputs; fairness | EndIsExact, AgainIsComplete, CancelIsSound, CancelEnds, RunningIsOwned, StopIsComplete, TasksTypeOK, ListingExact, DownloadFaithful, PublishedIsExpected, PartIsSound, KeepsUploads, ReplyIsHonest, ViewIsExact, TasksEnd |
| `UsbRelease` | releases 1.10-beta.2, 1.10.1 and one whose version cannot be read, 2 file orders, 1 damaged file | PackageKept, StickNotMixed, StickKept, OneRelease, VersionsDecide |

Some of these properties are conjunctions of parts that have names, and comments, of their
own, and mutants that break each part:

| Property | Parts |
|---|---|
| ResultsExact | ResultsOnce, AcceptedStays |
| CommandsGoOn | QueuedIsOffered, OverdueReturns |
| PromptsAreRight | PromptIsRight, MarkedWasPosted |
| ReplayExact | NoReplay, ReplayWasAdmitted |
| RateExact | RateKept, LimitWasReached |
| CancelIsSound | TerminationFailedIsOver, RunningIsKnown |
| StopIsComplete | StoppedIsOver, NothingLeftBehind |
| PartIsSound | PartInPlace, NextIsSize, WithinLimit |
| ListingExact | NothingSkipped, NothingTwice |
| DownloadFaithful | WholeDownload, NothingInvented |
| ReplyIsHonest | WholeUnlessTruncated, KilledIsTold |
| ViewIsExact | ViewBounded, CutIsTold, CutIsNeeded |
| TasksEnd | ListingEnds, DownloadEnds, LateIsAnswered |
| PackageKept | PackageWhole, ReleaseKept |
| VersionsDecide | CompatibleOnly, RefusedForCause |

The bounds are the smallest in which the cases of interest happen. Two goroutines
are enough for an acknowledgement to overlap a poll, a revocation or another
acknowledgement, since an action of one goroutine looks at the table only. One stored
result reaches the cap. One restart shows
what the file takes back, and after it the state is one that a first run of the
broker can be in, but for `told`, which the proofs cover for any number of them. Two
commands let a requeued one and a control command change places.
In `GuestSession` two calls in progress are one the client waits for and one it has
given up; a second is a further poll or a late ack, and the theorem covers any number.
There the cap of results is 0, because what is stored does not reach the client, and
`BrokerSession` covers it; in `GuestLive` a second abandoned call would only be served.
`Approval` has no guest-facing goroutine: what those do to a request that is decided is
what `AdminRevoke`, the janitor and a restart do to it. Two prompts are what a crash
between the message and its marker leaves, so that one is decided on while the other
still has its buttons. Two callbacks race, and a third would race one of them. Four requests on two hosts reach the limit of
two at both and once more, and five ticks outlast window and memory.
Jobs share nothing but the one command the client executes, so one job is enough
for the run, and the theorems cover any number; it has one process spawned before
the containment and one after, and a third kind does not exist. With one byte kept
and two written the buffer is empty, full and over. Of two processes the second has
the id of the first, given back or not yet, or another. One upload fits into the limit with room, one exactly and one
not at all. Five names make three pages, one of them short, with a filter that leaves
one out; the limits are the default, a page of one, one of three, and one that is refused. Two
changes let one name come and one go. A chunk and a whole file
are of a size the broker takes, of the greatest, and above it. Two of the releases
differ by a part that only one of them has, so their order is not that of their text; the
third can never be signed.
The theorems hold for all values of the constants.

Some properties have an exception that the code cannot avoid and that a reader should
know of. CancelEnds excepts the descendants spawned before the assignment to the Job
Object, and so does StopIsComplete. CancelIsSound claims less without a Job Object: there a
cancel of a shell that was reaped fails while its child runs on and holds the output, and
status says running. KeepsUploads is about what commands have written: a file that another program
creates between Lstat and the write or rename is replaced. ButtonsStay is stated for
behaviours without a restart: one that undoes an unsaved revocation makes a request pending again
whose message was closed. NothingSkipped holds as long as nothing vanishes and
NothingTwice as long as nothing appears: pages are cut by offset. WholeDownload is
about a file that grows, NothingInvented about one that shrinks; a file that is replaced
between two chunks is mixed, and no answer says so. DownloadEnds is about a file that at
some time is left alone (one that grows as fast as it is read never ends), and about
limits whose chunks the broker takes. LateIsAnswered excepts a child that
holds the output, which keeps the client's only loop busy beyond the deadline, and
GuestLeaves and CommandsGoOn except such a client. CompatibleOnly is about numbers:
suffixes do not count. LifeCycle lets a restart take back what was not answered with 200.
EndIsExact takes the error of Wait for the exit code of the shell; for a shell that
exited with 0 just as its context was cancelled, Wait may return the context's error instead.

Five runs check what a document says and the code does not keep:

| Run | The document | What happens |
|---|---|---|
| `RunningWasAcknowledged` | broker-api.md: "requeued if the guest does not acknowledge it" | an ack whose save failed leaves the command running; the guest does not execute it and nobody requeues it |
| `NotOwnedIsTrue` | processStop: "process is not owned by bridge" | the goroutine of an ended process removes the entry of a newer one with the same id |
| `DuplicateIsNoOp` | SKILL.md: "A duplicate callback must remain a no-op"; AGENT_INTEGRATION.md: "Duplicate callbacks are idempotent" | a callback repeated after the decision finds nothing pending and overwrites the decision with 'expired' |
| `MismatchRejected` | CHANGELOG.md: "reject mismatches between the launcher, manifest, and `VERSION.txt`" | a launcher starts the payload of another beta, or of an earlier release: the comparison is of numbers, and is no equality |
| `StageRemoved` | USAGE.md: after Ctrl+C the launcher-owned temporary directory "is removed" | Ctrl+C ends the launcher before its deferred removal |

One more document is not kept, and no run is spent on it: the notifier may send a
message twice, after a crash between the message and its marker, although CHANGELOG.md:68-69
says that each pending request is delivered once; `Approval` has both messages.

Behaviour that follows from the models without a document denying it: an ack that
authenticated before a revocation starts its command after the revocation was answered; a
control command whose lease ran out is requeued behind regular ones; results
consumed by a request whose save fails are shown to nobody; a command whose ack or
result was lost stays running, and so does one whose output is above the 2 MiB that the
broker takes, which files.read and files.read-chunk can produce; an interrupted
build leaves packaging/usb missing until .usb-previous is moved back; a revocation that
was not saved is undone by a restart; after a failed save pair() refuses an honest retry
for ten minutes. `hazards` in `PROJECT.json` has the lines.

No property is about what follows, which no document decides: requeued leases may take a queue over the limit
that enqueue checks; enqueue accepts commands for a session that has expired; a process
that cannot be contained is killed but not waited for; files.write that fails half
way leaves a partial target, which the retry then finds; shell.admin seldom marks a cut
output, since it compares a length that was already cut; bridge-mcp cuts the broker's
answer at 4 MiB after the results were consumed.

## 5. Fairness

`GuestFairness` is assumed in two parts.

* `FairNetwork`: a call of the client ends, with an answer, an error or after 35 s. Of
  most calls this is all: an error while pairing ends the client, and one of an ack, a report
  or a revocation sends the loop on. Of polls, which pollResilient repeats without
  limit, it says more: of polls without end one reaches the broker, and a refusal the client.
  This is an assumption about the network, not a consequence of the code; without it a client
  that is cut off for good polls until ExpiresAt by its own clock.
* `FairBroker`: a goroutine that serves a request is scheduled (the mutex is never held
  across a wait), and leases run out by the clock.

GuestLeaves and CommandsGoOn rest on both, CallsReturn on FairBroker alone. Execute is not
fair: a command whose child holds the output never comes back (executor.go:316, no WaitDelay), and then
the client's only loop neither polls nor notices that its session is over. So the two
properties are stated for behaviours in which every command that is begun comes back
(`CommandsReturn`). Nothing is assumed of saves (each may fail), of the
operator, the janitor, restarts, or that the client lives. A queued command is
offered while the client lives, but nothing promises that its result arrives.

`ExecutorFairness` is what `LiveJobsSpec` and `TasksFairness` assume. Of jobs only the
waiting goroutines are fair. That a process ends by itself, or that an operator asks, is assumed nowhere.

`TasksFairness` assumes that the client carries out the command it has, that the agent
asks for the next page or chunk, and that exec's watcher runs; not that a program
ends, that a child lets go of the output, or that a file changes.

## 6. Proofs

`BrokerProofs` proves, for every value of the constants that satisfies the three
assumptions of `Broker` (finitely many command ids, InitialCommand among them; a
regular initial payload; natural limits):

| Theorem | Property |
|---|---|
| Invariance | the inductive invariant IInv |
| TypeCorrect | TypeOK (in no run by itself: TLC checked it before it was proved) |
| QueueCorrect | QueueExact |
| ResultsCorrect | ResultsOnce |
| ResultsExactCorrect | ResultsExact, from ResultsCorrect and AcceptedCorrect |
| StartedCorrect | StartedStays |
| AcceptedCorrect | AcceptedStays |
| RevocationCorrect | RevocationFinal |
| FileCorrect | FileFollows |
| TokenCorrect | TokenHonoured |
| ConsumedCorrect | ConsumedOnce |
| LifeCycleCorrect | LifeCycle (an action property) |

*IInv of the broker.* TypeOK and QueueExact are not inductive. IInv adds that an
entry which was not approved yet has no command (else the approval could queue the initial
command twice), that a clear token implies an issued one, that only real sessions
are served, and it states this of memory and of the file alike, since a restart
turns the file into memory. EntriesStep goes through the actions: each writes one
entry, and a lemma per entry operation (poll, enqueue, recovery, ...) shows that
the result is again a good entry. The queue arguments rest on
the lemmas about sequences without repetition at the top of the module.

*What was answered.* StepKinds classifies the steps: pairing, the janitor, a
restart, steps that leave table and file alone, and steps that write one entry
*forward* (Write), either with a save or leaving the ids of the commands as they
are. Answers shows that a 200 is given only in a step that saves what it says.
Each of the remaining invariants follows from these two lemmas without looking at
the actions again. TokenHonoured needs the strengthening TokensOK: a clear token
in memory is the one in force, in memory and in the file, and nobody has a token
before the approval. ConsumedOnce needs that what was shown and consumed is not stored
in the file either (FetchedStays). LifeCycle follows from the classification, with
FileFollows for the restart: what the file takes back is at most what the file says, and
StartedStays keeps an acknowledged command from going back.

`ShellJobsProofs` proves EndIsExact (EndCorrect), AgainIsComplete (AgainCorrect),
CancelIsSound (CancelCorrect, from TerminationCorrect and KnownCorrect: a running job can be
found, and a cancel that fails has missed neither the shell nor, with a Job Object, anything
in it) and JobsTypeOK for any number of jobs and bytes. Its IInv says what each stage of the
waiting goroutine tells about the processes (StageOK: after Wait nobody holds the
pipe, after the release of the container it is empty), which jobs are in the table
(TablesOK), and, because a command is several steps, what remains true of the job a
command has looked up (CallOK), of the copy it holds (CopyOK: made after the end was
told, it is complete, as nobody can write any more) and of the latest answer (LastOK).

`OwnedProcessesProofs` proves RunningIsOwned (OwnedCorrect), StopIsComplete
(StopCorrect, from StoppedCorrect and ReleaseCorrect: a stop answered without an error has ended
the process, and nothing its Job Object has outlives it; early descendants are in the
model and outside of the claim) and TypeOK. The step that needs
an argument is the start of a process under an id that is still in the table: the
system gives no id to two processes at once (HoldingOK), so the entry that is
overwritten belongs to a process that was waited for.

`Executor` composes them, and `ShellJobsProofs` shows that nothing is lost by it: a
behaviour of the executor is one of `ShellJobs` (ExecutorJobs) and, with the variables
of `OwnedProcesses` instantiated, one of that module (ExecutorOwned), so RunningIsOwned
and StopIsComplete hold of the executor too (ExecutorOwnedCorrect, ExecutorStopCorrect).

`AgentTasksProofs` proves the safety properties of what an agent does, for all
values of the constants that satisfy the modules' assumptions. The parts share only
the topic, so each has an inductive invariant of its own.

* *Uploads*: PublishedIsExpected (PublishedCorrect), PartIsSound (PartSoundCorrect, from
  PartCorrect, NextCorrect and LimitCorrect), KeepsUploads (UploadsKept) and TypeOK, as
  theorems of `ChunkedUpload`; TasksUpload says that `AgentTasks` implements it. IInv
  adds CallOK: the chunk at hand goes right behind the part file and within the limit,
  and between the hash and the rename the part file is the file that was expected.
  KeepsUploads needs only that between the check and the write or rename the path is
  absent or was created by another program (AbsentOrForeign).
* *Programs*: ReplyIsHonest (ReplyCorrect). RunOK says what the buffer, the
  deadline, the program and its child tell about each other until the answer is sent.
* *Downloads*: DownloadFaithful (DownloadCorrect). What the agent holds begins the
  file as long as it only grew (GrownOK), and both begin the same bytes as long as it
  only shrank (ShrunkOK). In both cases there is one inode only; a chunk that was
  opened promises a size that a growing file has reached and a shrinking one may have left.
* *Listings*: ListingExact (ListingCorrect). An offset is a number of entries, so the
  argument is about ranks: what is skipped or repeated depends on how many names lie
  below one. KeptOK (nothing vanished: the offset is no larger than the rank of what
  is still to come) and OrderOK (nothing appeared: it is no smaller than that of what
  came) are kept across a snapshot that is itself read in two parts.
* *Views*: ViewIsExact (ViewCorrect). No history is needed; the theorem is about
  the functions of result_view.go. Cut is the longest start of whole characters
  that fits, Sanitized has no control or broken bytes, and UsedAndLeft shows that what
  was shown and what is left of the total add up to it. The loop over outputs is a recursive
  function, so its steps are shown to exist and to be natural by induction.
* TasksTypeOK (TasksTypeCorrect) adds the bounds of offsets and chunks.

`UsbReleaseProofs` proves PackageKept (PackageCorrect), StickNotMixed (NotMixedCorrect),
StickKept (StickCorrect), OneRelease (LauncherCorrect) and VersionsDecide
(VersionsCorrect), for any releases, any versions (numbers, suffixes, or a core that cannot be
read), any orders of files and any number of damaged files. VersionsDecide says that no launcher
starts a client whose numbers are ahead of its own, and that none is refused on a whole stick which nothing disturbed. UsbInv (theorem UsbInvariance) has a part for each program. HostOK: a build whose
package is aside has left a release in the previous directory. StickOK: the stage
is moved only when it was found whole, and once the old release is in the archive
nothing that was delivered is on the stick alone, unless a file went bad. LauncherOK: what has been checked
at each step, and, if no one disturbed the stick, that it is the launcher's own release.
VersionOrder shows that VersionAtLeast holds of versions that can both be read and whose numbers
are in lexicographic order, with missing parts as zero and suffixes ignored, for parts and lengths of any size.

`GuestSessionProofs` proves RunsAtBroker, GuestTypeOK and AtMostOnce for any number of
clients, commands and handlers. GuestIsBroker shows that each of its steps is a step of
`Broker` or leaves the broker alone, so the theorems of `BrokerProofs` hold of the
composition and are used as invariants (StartedStays, ResultsOnce, AcceptedStays). GInv
adds what ties the places to the history: the loop waits for at most one handler, of its own
place and command (WaitsOK); a command being executed was started and not run, one
being reported was run (PlacesOK), also when its report is still being served after
the client left (ReportsOK); and what the broker has as completed, in memory or in the
file, was run (RunsOK). From these, LifecycleStep shows that a step is a step of
`CommandLifecycle` or a stutter: an ack starts a command no more than once since a
started one is running or completed for good, which is StartedStays. RevokesOnPurpose
(PurposeCorrect) needs PurposeOK: the loop is closing, or a revocation is under way, only
after Ctrl+C or when a session.disconnect was run, and the payload of a command that
was run stays what it was.

`ApprovalProofs` proves DecidedOnce, PromptsAreRight, ButtonsStay (ButtonsCorrect) and ApprovalTypeOK
for any number of requests, callbacks, prompts and restarts, again on top of
`BrokerProofs`. The argument is a classification of the broker's other steps: no step but
a decision lets a request that is not pending, in memory or in the file, become so
without a decision having been saved.

`PairLimitProofs` proves ReplayExact and RateExact for any durations, limit, hosts
and requests. Memo relates table and history in both directions: an entry is the time
of an admission, and whatever was admitted within the memory has an entry that is not older.
Counted says that a host's times within the window are as many as its admissions within it;
WithinKeeps shows that the loop of allowPair keeps exactly those times.

Where an induction over natural numbers is needed (VersionOrder, the loops of allowPair
and of the view), it is done by the least counterexample, from the well-foundedness of
the naturals, because the library's induction theorem takes an operator as its parameter.

Every safety invariant and action property that a run checks is proved. Only
model-checked are the liveness properties GuestLeaves, CommandsGoOn, CallsReturn,
CancelEnds and TasksEnd, as fairness and ENABLED are beyond the prover.

## 7. Not modelled

The administrator shell (shell.admin) with its UAC prompt; the decoding of code pages,
UTF-16 and CLIXML, a pure conversion that no property depends on; the resolution of paths against the approved
directories; the pseudo console, which no command uses; signatures, encodings and the
audit log; argument checks and schemas of bridge-operator and bridge-mcp; the pairing
token, a comparison; the relaunch of the launcher in a console and the text of
its consent dialogue; compilation, the bootstrap's plans, and the installation scripts,
which are sequences of external programs. An unreadable state file stops the broker at
its start. Timestamps are one-way sets in `Broker` and ticks in `PairLimit`.
