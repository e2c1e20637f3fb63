------------------------------- MODULE Broker -------------------------------
(***************************************************************************)
(* The pairing broker of cmd/pairing-broker: the table of pairing requests *)
(* and sessions, the command queue and lease of every session, and the     *)
(* state file that mirrors the table.                                      *)
(*                                                                         *)
(* Every HTTP handler runs in a goroutine of its own and takes the mutex   *)
(* s.mu for its whole effect, so an administrator's request is one action. *)
(* A guest request is two or more: session() authenticates it under the    *)
(* mutex and releases it (Authenticate), the body is read, and the effect  *)
(* takes the mutex again.  A long poll takes it once per 100 ms.           *)
(*                                                                         *)
(* A save writes the whole table to a temporary file and renames it, so    *)
(* the file holds either the snapshot before the save or the one after.    *)
(* Handlers differ in what they do to memory when the save fails: those    *)
(* that undo it leave the state as it was (no action here), the others     *)
(* keep the new memory over the old file (the Unsaved disjuncts).          *)
(***************************************************************************)
EXTENDS Naturals, FiniteSets, SequencesExt

CONSTANTS
  Sessions,        \* ids that pair() may draw
  Commands,        \* command ids
  InitialCommand,  \* "initial-system-info", queued by the approval
  Payloads,        \* command names with parameters: what a fingerprint covers
  InitialPayload,  \* the payload of InitialCommand, system.info
  NoPayload,       \* the payload of an id that is not in Commands of a session
  Control,         \* payloads whose name isControlCommand accepts
  Requested,       \* payloads each guest listed in its pairing request
  Handlers,        \* goroutines that may serve guest requests at a time
  RegularLimit,    \* 16 in the code
  ControlLimit,    \* 4 in the code
  ResultCap,       \* 128 in the code
  MaxRestarts      \* bound: crashes of the broker in a behaviour

ASSUME CommandsAssumption ==
  IsFiniteSet(Commands) /\ InitialCommand \in Commands

ASSUME PayloadsAssumption ==
  /\ NoPayload \notin Payloads
  /\ InitialPayload \in Payloads \ Control
  /\ Control \subseteq Payloads
  /\ Requested \in [Sessions -> SUBSET Payloads]

ASSUME LimitsAssumption ==
  {RegularLimit, ControlLimit, ResultCap, MaxRestarts} \subseteq Nat

VARIABLES
  p,        \* the *pending entries, by id
  live,     \* the keys of the map s.p; a handler may still hold an entry outside
  disk,     \* the entries in the state file
  conn,     \* what each guest-facing goroutine is serving
  aged,     \* sessions whose CreatedAt is more than ten minutes ago
  expired,  \* sessions whose ExpiresAt has passed
  lapsed,   \* <<session, command>> whose LeaseUntil has passed
  restarts, \* how often the broker was restarted
  told      \* history: what the broker has answered with status 200

vars == <<p, live, disk, conn, aged, expired, lapsed, restarts, told>>

-----------------------------------------------------------------------------
(* Entries: type pending and commandState.                                 *)

EntryStates == {"none", "pending", "approved", "rejected", "revoked", "gone"}
CommandStates == {"absent", "queued", "leased", "running", "completed"}

\* token numbers the tokens a session was issued (TokenHash, 0 when ""),
\* clear is the one kept in Reply.SessionToken (0 when "").
Entry == [status  : EntryStates,
          token   : Nat,
          clear   : Nat,
          queue   : Seq(Commands),
          cmd     : [Commands -> CommandStates],
          payload : [Commands -> Payloads \cup {NoPayload}],
          results : Seq(Commands)]

\* "none" before pair() drew the id, "gone" once a restart forgot it.
NoEntry(status) ==
  [status  |-> status, token |-> 0, clear |-> 0, queue |-> <<>>,
   cmd     |-> [c \in Commands |-> "absent"],
   payload |-> [c \in Commands |-> NoPayload],
   results |-> <<>>]

NewEntry == NoEntry("pending")

InState(e, state) == {c \in Commands : e.cmd[c] = state}

\* Known ids of a session, whatever their state.
Issued(e) == Commands \ InState(e, "absent")

\* queueDepths: the queued control (or regular) commands in the queue.
Depth(e, control) ==
  Cardinality({i \in DOMAIN e.queue :
                 /\ e.cmd[e.queue[i]] = "queued"
                 /\ (e.payload[e.queue[i]] \in Control) = control})

HasRoom(e, pl) ==
  IF pl \in Control THEN Depth(e, TRUE) < ControlLimit
                    ELSE Depth(e, FALSE) < RegularLimit

-----------------------------------------------------------------------------
(* What each handler does to an entry.                                     *)

Approved(e) ==
  [e EXCEPT !.status = "approved",
            !.token  = @ + 1,
            !.clear  = e.token + 1,
            !.cmd[InitialCommand] = "queued",
            !.payload[InitialCommand] = InitialPayload,
            !.queue  = Append(@, InitialCommand)]

\* Control commands overtake the queue.
Enqueued(e, c, pl) ==
  [e EXCEPT !.cmd[c] = "queued",
            !.payload[c] = pl,
            !.queue = IF pl \in Control THEN Cons(c, @) ELSE Append(@, c)]

\* Fault: the status is reset but the id is not put back into the queue.
RequeuedNowhere(e, order) ==
  [e EXCEPT !.cmd = [c \in Commands |-> IF c \in ToSet(order) THEN "queued"
                                                              ELSE @[c]]]

\* Commands whose lease ran out go back to the tail, in the order the
\* iteration over the map meets them.
Requeued(e, order) ==
  [e EXCEPT !.queue = @ \o order,
            !.cmd = [c \in Commands |-> IF c \in ToSet(order) THEN "queued"
                                                              ELSE @[c]]]

\* The head leaves the queue; one that is not queued any more is dropped.
Popped(e) ==
  [e EXCEPT !.queue = Tail(@),
            !.cmd[Head(e.queue)] = IF @ = "queued" THEN "leased" ELSE @]

Acknowledged(e, c) == [e EXCEPT !.cmd[c] = "running"]

\* Fault: the command stays running.
CompletedNotMarked(e, c) ==
  [e EXCEPT !.results = IF Len(@) < ResultCap THEN Append(@, c) ELSE @]

Completed(e, c) ==
  [e EXCEPT !.cmd[c]  = "completed",
            !.results = IF Len(@) < ResultCap THEN Append(@, c) ELSE @]

Consumed(e) == [e EXCEPT !.results = <<>>]

RevokedByAdmin(e) == [e EXCEPT !.status = "revoked", !.token = 0, !.queue = <<>>]

RevokedByGuest(e) == [e EXCEPT !.status = "revoked", !.token = 0]

Reissued(e) == [e EXCEPT !.token = @ + 1, !.clear = e.token + 1]

\* recoverState on one entry: unacknowledged commands are queued, those of the
\* saved queue first and the rest in the order of the map.
Unacknowledged(e) == InState(e, "queued") \cup InState(e, "leased")

\* Fault: only the saved queue is restored.
RecoveredSavedQueue(e) == {SelectSeq(e.queue, LAMBDA c : e.cmd[c] = "queued")}

RecoveredQueues(e) ==
  LET saved == SelectSeq(e.queue, LAMBDA c : e.cmd[c] = "queued")
  IN  {order \in SetToSeqs(Unacknowledged(e)) : IsPrefix(saved, order)}

\* Fault: running commands are queued again, too.
RecoveredReplays(e, order) ==
  [e EXCEPT !.clear = 0,
            !.queue = order,
            !.cmd = [c \in Commands |->
                       IF c \in InState(e, "leased") \cup InState(e, "running")
                       THEN "queued" ELSE @[c]]]

Recovered(e, order) ==
  [e EXCEPT !.clear = 0,
            !.queue = order,
            !.cmd = [c \in Commands |-> IF c \in InState(e, "leased")
                                        THEN "queued" ELSE @[c]]]

-----------------------------------------------------------------------------
(* Memory and file.                                                        *)

\* stateStore.save: the entries of the map, without the clear tokens.
Snapshot(entries, keys) ==
  [s \in Sessions |-> IF s \in keys THEN [entries[s] EXCEPT !.clear = 0]
                                    ELSE NoEntry("none")]

\* s.mu is held: the entry changes and the save succeeds ...
Saved(s, e) ==
  /\ p' = [p EXCEPT ![s] = e]
  /\ disk' = Snapshot(p', live)

\* ... or fails in a handler that leaves the change in memory.
Unsaved(s, e) ==
  /\ p' = [p EXCEPT ![s] = e]
  /\ UNCHANGED disk

Idle == [op |-> "idle"]
Calls == [op : {"poll", "ack", "result", "revoke"}, s : Sessions]
Serving(h, op) == conn[h].op = op
Return(h) == conn' = [conn EXCEPT ![h] = Idle]

Told == [token    : [Sessions -> Nat],
         started  : SUBSET (Sessions \X Commands),
         accepted : SUBSET (Sessions \X Commands),
         fetched  : SUBSET (Sessions \X Commands),
         revoked  : SUBSET Sessions]

Init ==
  /\ p = [s \in Sessions |-> NoEntry("none")]
  /\ live = {}
  /\ disk = p
  /\ conn = [h \in Handlers |-> Idle]
  /\ aged = {}
  /\ expired = {}
  /\ lapsed = {}
  /\ restarts = 0
  /\ told = [token |-> [s \in Sessions |-> 0], started |-> {},
             accepted |-> {}, fetched |-> {}, revoked |-> {}]

-----------------------------------------------------------------------------
(* Pairing, approval and the operator's requests.                          *)

\* Fault: a failed save is not undone.
PairNoUndo(s) ==
  /\ p[s].status = "none"
  /\ p' = [p EXCEPT ![s] = NewEntry]
  /\ live' = live \cup {s}
  /\ disk' = Snapshot(p', live') \/ UNCHANGED disk
  /\ UNCHANGED <<conn, aged, expired, lapsed, restarts, told>>

\* pair: a failed save deletes the new entry again, and no reply names its id.
Pair(s) ==
  /\ p[s].status = "none"
  /\ p' = [p EXCEPT ![s] = NewEntry]
  /\ live' = live \cup {s}
  /\ disk' = Snapshot(p', live')
  /\ UNCHANGED <<conn, aged, expired, lapsed, restarts, told>>

\* Fault: any request that is not approved yet can be approved.
ApproveAnew(s) ==
  /\ s \in live
  /\ p[s].status # "approved"
  /\ Saved(s, Approved(p[s]))
  /\ UNCHANGED <<live, conn, aged, expired, lapsed, restarts, told>>

\* approveRequest: a failed save is undone.
Approve(s) ==
  /\ s \in live
  /\ p[s].status = "pending"
  /\ Saved(s, Approved(p[s]))
  /\ UNCHANGED <<live, conn, aged, expired, lapsed, restarts, told>>

\* rejectRequest: a failed save is undone.
Reject(s) ==
  /\ s \in live
  /\ p[s].status = "pending"
  /\ Saved(s, [p[s] EXCEPT !.status = "rejected"])
  /\ UNCHANGED <<live, conn, aged, expired, lapsed, restarts, told>>

\* Fault: the hash of the new token is not saved.
StatusUnsaved(s) ==
  /\ s \in live
  /\ \/ /\ p[s].clear # 0
        /\ UNCHANGED <<p, disk>>
        /\ told' = [told EXCEPT !.token[s] = p[s].clear]
     \/ /\ p[s].clear = 0
        /\ p[s].status = "approved"
        /\ s \notin expired
        /\ Unsaved(s, Reissued(p[s]))
        /\ told' = [told EXCEPT !.token[s] = p'[s].clear]
  /\ UNCHANGED <<live, conn, aged, expired, lapsed, restarts>>

\* status: answers with the clear token.  When a restart has lost it, a new
\* one is issued and its hash saved; a failed save is undone.
Status(s) ==
  /\ s \in live
  /\ \/ /\ p[s].clear # 0
        /\ UNCHANGED <<p, disk>>
        /\ told' = [told EXCEPT !.token[s] = p[s].clear]
     \/ /\ p[s].clear = 0
        /\ p[s].status = "approved"
        /\ s \notin expired
        /\ Saved(s, Reissued(p[s]))
        /\ told' = [told EXCEPT !.token[s] = p'[s].clear]
  /\ UNCHANGED <<live, conn, aged, expired, lapsed, restarts>>

\* Fault: a known id is enqueued again with the new payload.
EnqueueReuse(s, c, pl) ==
  /\ s \in live
  /\ p[s].status = "approved"
  /\ pl \in Requested[s]
  /\ c \notin ToSet(p[s].queue)
  /\ HasRoom(p[s], pl)
  /\ Saved(s, Enqueued(p[s], c, pl))
  /\ UNCHANGED <<live, conn, aged, expired, lapsed, restarts, told>>

\* enqueue: a known id is answered without a change (200 with the same
\* payload, 409 with another one); a failed save is undone.  An approved
\* session whose time is over still accepts commands.
Enqueue(s, c, pl) ==
  /\ s \in live
  /\ p[s].status = "approved"
  /\ pl \in Requested[s]
  /\ c \notin Issued(p[s])
  /\ HasRoom(p[s], pl)
  /\ Saved(s, Enqueued(p[s], c, pl))
  /\ UNCHANGED <<live, conn, aged, expired, lapsed, restarts, told>>

\* adminRevoke: whatever the status; a failed save is answered with 500 and
\* not undone.
AdminRevoke(s) ==
  /\ s \in live
  /\ \/ /\ Saved(s, RevokedByAdmin(p[s]))
        /\ told' = [told EXCEPT !.revoked = @ \cup {s}]
     \/ /\ Unsaved(s, RevokedByAdmin(p[s]))
        /\ UNCHANGED told
  /\ UNCHANGED <<live, conn, aged, expired, lapsed, restarts>>

\* Fault: the results are returned although the save failed.
ConsumeUnsaved(s) ==
  /\ s \in live
  /\ Saved(s, Consumed(p[s])) \/ Unsaved(s, Consumed(p[s]))
  /\ told' = [told EXCEPT !.fetched = @ \cup ({s} \X ToSet(p[s].results))]
  /\ UNCHANGED <<live, conn, aged, expired, lapsed, restarts>>

\* adminResults with consume=true (without it nothing changes).
ConsumeResults(s) ==
  /\ s \in live
  /\ \/ /\ Saved(s, Consumed(p[s]))
        /\ told' = [told EXCEPT !.fetched = @ \cup ({s} \X ToSet(p[s].results))]
     \/ /\ Unsaved(s, Consumed(p[s]))
        /\ UNCHANGED told
  /\ UNCHANGED <<live, conn, aged, expired, lapsed, restarts>>

-----------------------------------------------------------------------------
(* The guest's requests.                                                   *)

\* session: the presented token is the one status last answered with.  From
\* here on the handler holds the entry without the mutex.
Authenticate(h, op, s) ==
  /\ conn[h] = Idle
  /\ s \in live
  /\ p[s].token # 0
  /\ p[s].token = told.token[s]
  /\ p[s].status = "approved"
  /\ s \notin expired
  /\ conn' = [conn EXCEPT ![h] = [op |-> op, s |-> s]]
  /\ UNCHANGED <<p, live, disk, aged, expired, lapsed, restarts, told>>

\* Fault: a poll does not look for leases that ran out.
OverdueIgnored(s) == {}

\* Leased commands of s whose lease has run out.
Overdue(s) == {c \in InState(p[s], "leased") : <<s, c>> \in lapsed}

\* poll, one round of its loop that finds a command.  A failed save leaves
\* the lease in memory; a head that is not queued any more is dropped without
\* a save and the loop goes on.
PollDeliver(h) ==
  /\ Serving(h, "poll")
  /\ LET s == conn[h].s IN
     \E order \in SetToSeqs(Overdue(s)) :
       LET e == Requeued(p[s], order) IN
       /\ e.queue # <<>>
       /\ IF e.cmd[Head(e.queue)] = "queued"
            THEN (Saved(s, Popped(e)) \/ Unsaved(s, Popped(e))) /\ Return(h)
            ELSE Unsaved(s, Popped(e)) /\ UNCHANGED conn
       /\ lapsed' = lapsed \ ({s} \X Overdue(s))
  /\ UNCHANGED <<live, aged, expired, restarts, told>>

\* Fault: an idle poll ends with its session only.
PollEmptyForever(h) ==
  /\ Serving(h, "poll")
  /\ p[conn[h].s].queue = <<>>
  /\ Overdue(conn[h].s) = {}
  /\ p[conn[h].s].status # "approved" \/ conn[h].s \in expired
  /\ Return(h)
  /\ UNCHANGED <<p, live, disk, aged, expired, lapsed, restarts, told>>

\* poll with nothing to deliver waits; it returns once the session is over,
\* after 25 seconds, or when the guest hangs up.
PollEmpty(h) ==
  /\ Serving(h, "poll")
  /\ p[conn[h].s].queue = <<>>
  /\ Overdue(conn[h].s) = {}
  /\ Return(h)
  /\ UNCHANGED <<p, live, disk, aged, expired, lapsed, restarts, told>>

\* ack: the session is not checked again.
Ack(h, c) ==
  /\ Serving(h, "ack")
  /\ LET s == conn[h].s IN
     /\ p[s].cmd[c] = "leased"
     /\ <<s, c>> \notin lapsed
     /\ \/ /\ Saved(s, Acknowledged(p[s], c))
           /\ told' = [told EXCEPT !.started = @ \cup {<<s, c>>}]
        \/ /\ Unsaved(s, Acknowledged(p[s], c))
           /\ UNCHANGED told
  /\ Return(h)
  /\ UNCHANGED <<live, aged, expired, lapsed, restarts>>

\* Fault: the result is acknowledged whether or not it was saved.
ResultUnsaved(h, c) ==
  /\ Serving(h, "result")
  /\ LET s == conn[h].s IN
     /\ p[s].cmd[c] = "running"
     /\ p[s].payload[c] \in Requested[s]
     /\ Saved(s, Completed(p[s], c)) \/ Unsaved(s, Completed(p[s], c))
     /\ told' = [told EXCEPT !.accepted = @ \cup {<<s, c>>}]
  /\ Return(h)
  /\ UNCHANGED <<live, aged, expired, lapsed, restarts>>

\* result: the name must be one the guest requested, and a running command's.
Result(h, c) ==
  /\ Serving(h, "result")
  /\ LET s == conn[h].s IN
     /\ p[s].cmd[c] = "running"
     /\ p[s].payload[c] \in Requested[s]
     /\ \/ /\ Saved(s, Completed(p[s], c))
           /\ told' = [told EXCEPT !.accepted = @ \cup {<<s, c>>}]
        \/ /\ Unsaved(s, Completed(p[s], c))
           /\ UNCHANGED told
  /\ Return(h)
  /\ UNCHANGED <<live, aged, expired, lapsed, restarts>>

\* ack and result of anything else are refused: 400, 409, or a lost body.
Refuse(h) ==
  /\ Serving(h, "ack") \/ Serving(h, "result")
  /\ Return(h)
  /\ UNCHANGED <<p, live, disk, aged, expired, lapsed, restarts, told>>

\* revoke by the guest: the queue stays.
GuestRevoke(h) ==
  /\ Serving(h, "revoke")
  /\ LET s == conn[h].s IN
     \/ /\ Saved(s, RevokedByGuest(p[s]))
        /\ told' = [told EXCEPT !.revoked = @ \cup {s}]
     \/ /\ Unsaved(s, RevokedByGuest(p[s]))
        /\ UNCHANGED told
  /\ Return(h)
  /\ UNCHANGED <<live, aged, expired, lapsed, restarts>>

-----------------------------------------------------------------------------
(* Time, the janitor and restarts.                                         *)

\* CreatedAt; the clock of an entry nothing refers to any more is left out.
Age(s) ==
  /\ s \in live \/ disk[s].status # "none"
  /\ s \notin aged
  /\ aged' = aged \cup {s}
  /\ UNCHANGED <<p, live, disk, conn, expired, lapsed, restarts, told>>

\* ExpiresAt is set by the approval.
Expire(s) ==
  /\ "approved" \in {p[s].status, disk[s].status}
  /\ s \notin expired
  /\ expired' = expired \cup {s}
  /\ UNCHANGED <<p, live, disk, conn, aged, lapsed, restarts, told>>

Lapse(s, c) ==
  /\ p[s].cmd[c] = "leased"
  /\ <<s, c>> \notin lapsed
  /\ lapsed' = lapsed \cup {<<s, c>>}
  /\ UNCHANGED <<p, live, disk, conn, aged, expired, restarts, told>>

\* janitor: one tick; a failed save is only logged.
Stale(s) ==
  /\ s \in aged
  /\ \/ p[s].status \in {"pending", "revoked", "rejected"}
     \/ s \in expired

Janitor ==
  /\ \E s \in live : Stale(s)
  /\ live' = {s \in live : ~Stale(s)}
  /\ disk' = Snapshot(p, live') \/ UNCHANGED disk
  /\ UNCHANGED <<p, conn, aged, expired, lapsed, restarts, told>>

\* recoverState: the entries of the file that are worth keeping.  A rejected
\* request stays until the janitor meets it.
Kept(s) ==
  CASE disk[s].status = "pending"  -> s \notin aged
    [] disk[s].status = "approved" -> s \notin expired
    [] OTHER -> disk[s].status = "rejected"

AfterRestart(s) ==
  IF Kept(s) THEN {Recovered(disk[s], order) : order \in RecoveredQueues(disk[s])}
  ELSE {NoEntry(IF p[s].status = "none" THEN "none" ELSE "gone")}

\* The process dies, whatever its goroutines were doing, and main() starts
\* again: it opens the file, saves the recovered table and serves.
Restart ==
  /\ restarts < MaxRestarts
  /\ restarts' = restarts + 1
  /\ p' \in {q \in [Sessions -> UNION {AfterRestart(s) : s \in Sessions}] :
               \A s \in Sessions : q[s] \in AfterRestart(s)}
  /\ live' = {s \in Sessions : Kept(s)}
  /\ disk' = Snapshot(p', live')
  /\ conn' = [h \in Handlers |-> Idle]
  /\ lapsed' = {}
  /\ UNCHANGED <<aged, expired, told>>

-----------------------------------------------------------------------------
Operator ==
  \E s \in Sessions :
    \/ Approve(s) \/ Reject(s) \/ AdminRevoke(s) \/ ConsumeResults(s)
    \/ \E c \in Commands, pl \in Payloads : Enqueue(s, c, pl)

Guest ==
  \E s \in Sessions :
    \/ Pair(s) \/ Status(s)
    \/ \E h \in Handlers, op \in {"poll", "ack", "result", "revoke"} :
         Authenticate(h, op, s)

Serve(h) ==
  \/ PollDeliver(h) \/ PollEmpty(h) \/ Refuse(h) \/ GuestRevoke(h)
  \/ \E c \in Commands : Ack(h, c) \/ Result(h, c)

Time ==
  \E s \in Sessions : Age(s) \/ Expire(s) \/ \E c \in Commands : Lapse(s, c)

Next ==
  Operator \/ Guest \/ (\E h \in Handlers : Serve(h)) \/ Time \/ Janitor \/ Restart

Spec == Init /\ [][Next]_vars

-----------------------------------------------------------------------------
(* Properties.                                                             *)

Done == {"running", "completed"}

\* Values the variables range over, with the cap that result() puts on the
\* stored results (main.go:684).
TypeOK ==
  /\ p \in [Sessions -> Entry]
  /\ disk \in [Sessions -> Entry]
  /\ \A s \in Sessions : Len(p[s].results) <= ResultCap
  /\ live \subseteq Sessions
  /\ conn \in [Handlers -> Calls \cup {Idle}]
  /\ aged \subseteq Sessions
  /\ expired \subseteq Sessions
  /\ lapsed \subseteq Sessions \X Commands
  /\ restarts \in 0..MaxRestarts
  /\ told \in Told

QueueExactIn(e) ==
  /\ IsInjective(e.queue)
  /\ ToSet(e.queue) \subseteq InState(e, "queued")
  /\ e.status = "approved" => InState(e, "queued") \subseteq ToSet(e.queue)

\* The queue of an approved session holds exactly its queued commands, each
\* once, in memory and in the file: no command is lost or delivered twice by
\* the way enqueue, poll, requeueing and recovery move ids around.
QueueExact == \A s \in Sessions : QueueExactIn(p[s]) /\ QueueExactIn(disk[s])

ResultsOnceIn(e) ==
  IsInjective(e.results) /\ ToSet(e.results) \subseteq InState(e, "completed")

\* A stored result belongs to a completed command, and no command has two,
\* however often the guest sends it and whatever a restart brings back.
ResultsOnce == \A s \in Sessions : ResultsOnceIn(p[s]) /\ ResultsOnceIn(disk[s])

\* Once the guest was told that a command is running (ack answered 200) the
\* broker never offers it again: not in memory, and not after a restart from
\* the file.
StartedStays ==
  \A s \in Sessions, c \in Commands : <<s, c>> \in told.started =>
    /\ p[s].status = "gone" \/ p[s].cmd[c] \in Done
    /\ disk[s].status = "none" \/ disk[s].cmd[c] \in Done

\* Once a result was accepted with 200 the command is completed for good,
\* in memory and in the file.
AcceptedStays ==
  \A s \in Sessions, c \in Commands : <<s, c>> \in told.accepted =>
    /\ p[s].status = "gone" \/ p[s].cmd[c] = "completed"
    /\ disk[s].status = "none" \/ disk[s].cmd[c] = "completed"

\* What the broker has of a result is exact: never two of one command, never one
\* of a command that is not completed, and what was accepted stays completed.
ResultsExact == ResultsOnce /\ AcceptedStays

\* A result that was returned and consumed with 200 is not returned again: the
\* guest's repeated result call does not store it anew, and no restart brings it
\* back from the file.
ConsumedOnce ==
  \A s \in Sessions, c \in Commands : <<s, c>> \in told.fetched =>
    c \notin ToSet(p[s].results) /\ c \notin ToSet(disk[s].results)

\* A revocation answered with 200, by the operator or the guest, is final: no
\* later request, failed save or restart makes the session usable again.
RevocationFinal ==
  \A s \in told.revoked :
    /\ p[s].status \in {"revoked", "gone"} /\ p[s].token = 0
    /\ disk[s].status \in {"revoked", "none"}

\* The token that the guest was last given authenticates it for as long as
\* the session is approved, across failed saves and restarts.
TokenHonoured ==
  \A s \in Sessions :
    told.token[s] # 0 =>
      /\ p[s].status = "approved" => p[s].token = told.token[s]
      /\ disk[s].status = "approved" => disk[s].token = told.token[s]

\* What the file may lack compared with memory after failed saves: the moves
\* of a command, never the command, its payload, or a move that the file has
\* and memory has not.
FileFollows ==
  \A s \in live :
    /\ disk[s].status # "none"
    /\ Issued(disk[s]) = Issued(p[s])
    /\ disk[s].payload = p[s].payload
    /\ InState(disk[s], "completed") \subseteq InState(p[s], "completed")
    /\ \A c \in InState(disk[s], "running") : p[s].cmd[c] \in Done

\* While a session lives a command moves only along its life cycle, and an id
\* keeps the payload it was first enqueued with.  A restart may take back moves,
\* but none that was answered with 200: no command that was enqueued goes, none
\* whose acknowledgement was answered goes back from running, and none whose
\* result was accepted goes back at all.
Moves == {<<"absent", "queued">>, <<"queued", "leased">>, <<"leased", "queued">>,
          <<"leased", "running">>, <<"running", "completed">>}

LifeStep ==
  \A s \in live \cap live', c \in Commands :
    LET was == p[s].cmd[c]
        is  == p'[s].cmd[c]
    IN  /\ was # "absent" => p'[s].payload[c] = p[s].payload[c]
        /\ \/ was = is
           \/ <<was, is>> \in Moves
           \/ /\ restarts' # restarts
              /\ is # "absent"
              /\ <<s, c>> \in told.started => is \in Done
              /\ <<s, c>> \notin told.accepted

LifeCycle == [][LifeStep]_vars

\* The session authenticates its guest: until it is revoked, expires or goes.
Active(s) == s \in live /\ p[s].status = "approved" /\ s \notin expired

-----------------------------------------------------------------------------
(* What the documentation says of the broker and the code does not keep.   *)

\* broker-api.md: "A polled command has a short lease and is requeued if the
\* guest does not acknowledge it."  A command that is out of the queue for good
\* was acknowledged, that is, the guest got its 200.
RunningWasAcknowledged ==
  \A s \in live, c \in Commands :
    p[s].cmd[c] = "running" => <<s, c>> \in told.started
=============================================================================
