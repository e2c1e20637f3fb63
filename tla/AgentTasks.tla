----------------------------- MODULE AgentTasks -----------------------------
(* What an agent does on the guest besides jobs and owned processes: it      *)
(* lists page after page, reads a file chunk after chunk, uploads files to a *)
(* path, runs a command to its end, and is shown the results.  The client    *)
(* executes one command at a time, so an agent is busy with one of these,    *)
(* its topic, while files and processes change.                              *)
EXTENDS Listing, ChunkedDownload, OneShot, AgentView, ChunkedUpload

VARIABLE topic

uploadVars == vars
tasksVars == <<topic, listingVars, downloadVars, oneShotVars, viewVars, uploadVars>>

\* The parts that are not the topic do not move.
ListingRests ==
  /\ present = {} /\ lookup = NoLookup
  /\ past = [start |-> {}, created |-> FALSE, removed |-> FALSE, changes |-> 0]
  /\ lister = [kind |-> "files", filter |-> Items, limit |-> 0, state |-> "ended",
               offset |-> 0, seen |-> <<>>]

DownloadRests ==
  /\ inodes = <<<<>>>> /\ fresh = 0 /\ chunk = NoChunk /\ edits = [count |-> 0, kinds |-> {}]
  /\ download = [state |-> "ended", chunk |-> 0, whole |-> FALSE, got |-> <<>>, size |-> 0]

TasksInit ==
  /\ topic \in {"list", "download", "run", "view", "upload"}
  /\ IF topic = "list" THEN ListingInit ELSE ListingRests
  /\ IF topic = "download" THEN DownloadInit ELSE DownloadRests
  /\ OneShotInit /\ ViewInit /\ Init

ListingOnly == topic = "list" /\ UNCHANGED <<topic, downloadVars, oneShotVars, viewVars, uploadVars>>
DownloadOnly == topic = "download" /\ UNCHANGED <<topic, listingVars, oneShotVars, viewVars, uploadVars>>
OneShotOnly == topic = "run" /\ UNCHANGED <<topic, listingVars, downloadVars, viewVars, uploadVars>>
ViewOnly == topic = "view" /\ UNCHANGED <<topic, listingVars, downloadVars, oneShotVars, uploadVars>>
UploadOnly == topic = "upload" /\ UNCHANGED <<topic, listingVars, downloadVars, oneShotVars, viewVars>>

TasksNext ==
  \/ ListingNext /\ ListingOnly
  \/ DownloadNext /\ DownloadOnly
  \/ OneShotNext /\ OneShotOnly
  \/ ViewNext /\ ViewOnly
  \/ Next /\ UploadOnly

TasksSpec == TasksInit /\ [][TasksNext]_tasksVars

\* The client's loop, the agent and exec's watcher go on, and so do the calls and
\* programs that a listing asks.  Nothing makes a program of OneShot end, a child
\* let go of the output, or a file change.
TasksFairness ==
  /\ WF_tasksVars(ListingStep /\ ListingOnly)
  /\ WF_tasksVars(DownloadStep /\ DownloadOnly)
  /\ WF_tasksVars(OneShotStep /\ OneShotOnly)

LiveTasksSpec == TasksSpec /\ TasksFairness

\* The parts keep their types: pages, chunks and views of what there is, an open
\* part file for the chunk at hand, and no more output kept than the buffer holds.
TasksTypeOK ==
  ListingTypeOK /\ DownloadTypeOK /\ OneShotTypeOK /\ ViewTypeOK /\ TypeOK

\* Listings end, for the items that one may collect are bounded; downloads end of
\* a file that is left alone at last; and the deadline of a command is kept but
\* for a child left behind.
TasksEnd == ListingEnds /\ DownloadEnds /\ LateIsAnswered
=============================================================================
