-------------------------- MODULE GuestSessionProofs --------------------------
(***************************************************************************)
(* Client and broker together implement the broker's specification, so     *)
(* what BrokerProofs shows holds of them, and CommandLifecycle: a command  *)
(* is run at most once.  GInv ties the client's place to what it was told. *)
(***************************************************************************)
EXTENDS GuestSession, BrokerProofs

\* Started, and not run yet; or run.
Ready(s, c) == <<s, c>> \in told.started /\ runs[<<s, c>>] = 0
Ran(s, c) == runs[<<s, c>>] = 1

GuestTypes ==
  /\ guest \in [Sessions -> Guests]
  /\ caller \in [Handlers -> {"main", "signal", "nobody"}]
  /\ body \in [Handlers -> Commands \cup {NoCommand}]
  /\ signalled \subseteq Sessions
  /\ runs \in [Sessions \X Commands -> {0, 1}]

\* The main loop waits for one handler at most, which serves the call that
\* belongs to the place the loop is at.
WaitsOK ==
  \A s \in Sessions, h \in Handlers :
    Running(s) /\ Waits(s, "main", h) =>
      /\ Calling(s)
      /\ conn[h].op = Call[guest[s].at]
      /\ body[h] = guest[s].c
      /\ \A g \in Handlers : Waits(s, "main", g) => g = h

\* A command is executed after its start, reported after its execution.
PlacesOK ==
  \A s \in Sessions :
    LET c == guest[s].c IN
    /\ At(s, "acking") => c \in Commands
    /\ At(s, "executing") => c \in Commands /\ Ready(s, c)
    /\ At(s, "reporting") => c \in Commands /\ Ran(s, c)

\* So is one whose report a handler still serves.
ReportsOK ==
  \A h \in Handlers :
    Serving(h, "result") => body[h] \in Commands /\ Ran(conn[h].s, body[h])

RunsOK ==
  /\ \A s \in Sessions, c \in Commands : Ran(s, c) => <<s, c>> \in told.started
  /\ \A s \in Sessions, c \in Commands :
       p[s].cmd[c] = "completed" \/ disk[s].cmd[c] = "completed" => Ran(s, c)

ClientOK == GuestTypes /\ WaitsOK /\ PlacesOK /\ ReportsOK

GInv == ClientOK /\ RunsOK

-----------------------------------------------------------------------------
(* What a step of client and broker does at the broker.                    *)

\* A step of the broker that answers neither ack nor result.
Plain ==
  \/ Operator \/ Guest \/ Time \/ Janitor \/ Restart \/ UNCHANGED vars
  \/ \E h \in Handlers : PollDeliver(h) \/ PollEmpty(h) \/ Refuse(h) \/ GuestRevoke(h)

Acks(h) == Serving(h, "ack") /\ body[h] \in Commands /\ Ack(h, body[h])
Results(h) == Serving(h, "result") /\ body[h] \in Commands /\ Result(h, body[h])

LEMMA CallOps ==
  \A s \in Sessions :
    Calling(s) => Call[guest[s].at] \in {"poll", "ack", "result", "revoke"}
  BY DEF Calling, Call

LEMMA GuestKinds ==
  ASSUME [GuestNext]_allVars
  PROVE  Plain \/ \E h \in Handlers : Acks(h) \/ Results(h)
<1>1. ASSUME NEW s \in Sessions,
             PairUp(s) \/ Client(s) \/ LoseCall(s) \/ Interrupt(s) \/ Crash(s)
      PROVE  Plain
  <2>1. CASE PairUp(s) \/ Connect(s)
    BY <2>1 DEF Plain, Guest, PairUp, Connect
  <2>2. ASSUME NEW h \in Handlers, Send(s, h) PROVE Plain
    BY <2>2, CallOps DEF Plain, Guest, Send
  <2>3. ASSUME NEW h \in Handlers, SendRevoke(s, h) PROVE Plain
    BY <2>3 DEF Plain, Guest, SendRevoke
  <2>4. CASE \/ NotApproved(s) \/ TurnedAway(s) \/ Execute(s) \/ LoseCall(s)
             \/ Signal(s) \/ GiveUpRevoke(s) \/ Crash(s)
    BY <2>4 DEF Plain, NotApproved, TurnedAway, Execute, LoseCall, Signal,
                GiveUpRevoke, Crash
  <2> QED BY <1>1, <2>1, <2>2, <2>3, <2>4 DEF Client, Learn, Ask, Interrupt
<1>2. ASSUME NEW h \in Handlers, ServeGuest(h)
      PROVE  Plain \/ Acks(h) \/ Results(h)
  BY <1>2 DEF Plain, Acks, Results, ServeGuest, ServePoll, ServeAck, ServeResult,
              ServeRevoke
<1>3. CASE Elsewhere
  BY <1>3 DEF Elsewhere, Plain
<1>4. CASE RestartUnder
  BY <1>4 DEF RestartUnder, Plain
<1>5. CASE UNCHANGED allVars
  BY <1>5 DEF allVars, vars, Plain
<1> QED BY <1>1, <1>2, <1>3, <1>4, <1>5 DEF GuestNext

LEMMA GuestStep == [GuestNext]_allVars => [Next]_vars
<1> SUFFICES ASSUME [GuestNext]_allVars PROVE [Next]_vars
  OBVIOUS
<1>1. CASE Plain
  BY <1>1 DEF Plain, Next, Serve
<1>2. ASSUME NEW h \in Handlers, Acks(h) \/ Results(h) PROVE [Next]_vars
  BY <1>2 DEF Acks, Results, Next, Serve
<1> QED BY <1>1, <1>2, GuestKinds

\* Client and broker take no step that the broker alone could not take.
THEOREM GuestIsBroker == GuestSpec => Spec
<1>1. GuestInit => Init
  BY DEF GuestInit
<1> QED BY <1>1, GuestStep, PTL DEF GuestSpec, Spec

-----------------------------------------------------------------------------
(* What such steps answer and complete.                                    *)

\* A plain step starts and accepts nothing.
LEMMA PlainTold ==
  ASSUME told \in Told, Plain
  PROVE  told'.started = told.started /\ told'.accepted = told.accepted
<1>1. \/ UNCHANGED told
      \/ \E s \in Sessions : \E n : told' = [told EXCEPT !.token[s] = n]
      \/ \E S : told' = [told EXCEPT !.fetched = @ \cup S]
      \/ \E S : told' = [told EXCEPT !.revoked = @ \cup S]
  <2>1. ASSUME NEW s \in Sessions, Status(s)
        PROVE  UNCHANGED told \/ \E n : told' = [told EXCEPT !.token[s] = n]
    BY <2>1 DEF Status
  <2>2. ASSUME NEW s \in Sessions, AdminRevoke(s)
        PROVE  UNCHANGED told \/ \E S : told' = [told EXCEPT !.revoked = @ \cup S]
    BY <2>2 DEF AdminRevoke
  <2>3. ASSUME NEW h \in Handlers, GuestRevoke(h)
        PROVE  UNCHANGED told \/ \E S : told' = [told EXCEPT !.revoked = @ \cup S]
    BY <2>3 DEF GuestRevoke
  <2>4. ASSUME NEW s \in Sessions, ConsumeResults(s)
        PROVE  UNCHANGED told \/ \E S : told' = [told EXCEPT !.fetched = @ \cup S]
    BY <2>4 DEF ConsumeResults
  <2>5. \/ UNCHANGED told
        \/ \E s \in Sessions : Status(s) \/ AdminRevoke(s) \/ ConsumeResults(s)
        \/ \E h \in Handlers : GuestRevoke(h)
    BY DEF Plain, Operator, Guest, Time, vars, Approve, Reject, Enqueue, Pair,
           Authenticate, Age, Expire, Lapse, Janitor, Restart, PollDeliver,
           PollEmpty, Refuse
  <2> QED BY <2>1, <2>2, <2>3, <2>4, <2>5
<1> QED BY <1>1 DEF Told

\* f completes nothing that e had not completed.
NoneNew(e, f) == InState(f, "completed") \subseteq InState(e, "completed")

LEMMA NoneNewChanges ==
  ASSUME NEW e \in Entry, NEW c \in Commands
  PROVE  /\ NoneNew(e, Approved(e)) /\ NoneNew(e, [e EXCEPT !.status = "rejected"])
         /\ NoneNew(e, Reissued(e)) /\ NoneNew(e, Acknowledged(e, c))
         /\ NoneNew(e, Consumed(e)) /\ NoneNew(e, RevokedByAdmin(e))
         /\ NoneNew(e, RevokedByGuest(e))
         /\ \A pl \in Payloads : NoneNew(e, Enqueued(e, c, pl))
         /\ \A order : NoneNew(e, Recovered(e, order))
         /\ \A order : NoneNew(e, Popped(Requeued(e, order)))
         /\ InState(Completed(e, c), "completed") \subseteq
              InState(e, "completed") \cup {c}
<1>1. e.cmd \in [Commands -> CommandStates]
  BY DEF Entry
<1>2. NoneNew(e, Approved(e)) /\ NoneNew(e, [e EXCEPT !.status = "rejected"])
  BY <1>1, CommandsAssumption DEF NoneNew, InState, Approved, Entry
<1>3. NoneNew(e, Reissued(e)) /\ NoneNew(e, Acknowledged(e, c))
  BY <1>1 DEF NoneNew, InState, Reissued, Acknowledged, Entry
<1>4. /\ NoneNew(e, Consumed(e)) /\ NoneNew(e, RevokedByAdmin(e))
      /\ NoneNew(e, RevokedByGuest(e))
  BY <1>1 DEF NoneNew, InState, Consumed, RevokedByAdmin, RevokedByGuest, Entry
<1>5. \A pl \in Payloads : NoneNew(e, Enqueued(e, c, pl))
  BY <1>1 DEF NoneNew, InState, Enqueued, Entry
<1>6. \A order : NoneNew(e, Recovered(e, order))
  BY <1>1 DEF NoneNew, InState, Recovered, Entry
<1>7. ASSUME NEW order PROVE NoneNew(e, Popped(Requeued(e, order)))
  <2>1. NoneNew(e, Requeued(e, order)) /\ Requeued(e, order).cmd \in [Commands -> CommandStates]
    BY <1>1 DEF NoneNew, InState, Requeued, Entry, CommandStates
  <2>2. ASSUME NEW f, f = Requeued(e, order) PROVE NoneNew(f, Popped(f))
    <3>1. Popped(f).cmd = [f.cmd EXCEPT ![Head(f.queue)] = IF @ = "queued" THEN "leased" ELSE @]
      BY <2>2 DEF Popped, Requeued, Entry
    <3> QED BY <2>1, <2>2, <3>1 DEF NoneNew, InState
  <2> QED BY <2>1, <2>2 DEF NoneNew
<1>8. InState(Completed(e, c), "completed") \subseteq InState(e, "completed") \cup {c}
  BY <1>1 DEF InState, Completed, Entry
<1> QED BY <1>2, <1>3, <1>4, <1>5, <1>6, <1>7, <1>8

\* Completed in memory or in the file.
Over(s, c) == p[s].cmd[c] = "completed" \/ disk[s].cmd[c] = "completed"

LEMMA OverWrite ==
  ASSUME IInv, IInv', NEW s \in Sessions, NEW c \in Commands, Over(s, c)',
         disk' = Snapshot(p', live') \/ UNCHANGED disk
  PROVE  p'[s].cmd[c] = "completed" \/ Over(s, c)
<1>1. p' \in [Sessions -> Entry]
  BY DEF IInv, EntriesOK
<1>2. CASE UNCHANGED disk
  BY <1>2 DEF Over
<1>3. CASE disk' = Snapshot(p', live')
  BY <1>1, <1>3, SnapshotEntry DEF Over, NoEntry
<1> QED BY <1>2, <1>3

\* The entry of one session becomes f.
LEMMA OverEntry ==
  ASSUME IInv, IInv', NEW t \in Sessions, NEW f, Saved(t, f) \/ Unsaved(t, f),
         UNCHANGED live, NEW s \in Sessions, NEW c \in Commands, Over(s, c)'
  PROVE  \/ Over(s, c)
         \/ s = t /\ c \in InState(f, "completed")
<1>1. p \in [Sessions -> Entry] /\ p' = [p EXCEPT ![t] = f]
  BY DEF IInv, EntriesOK, Saved, Unsaved
<1>2. p'[s].cmd[c] = "completed" \/ Over(s, c)
  BY OverWrite DEF Saved, Unsaved
<1>3. CASE s = t
  BY <1>1, <1>2, <1>3 DEF InState
<1>4. CASE s # t
  BY <1>1, <1>2, <1>4 DEF Over
<1> QED BY <1>3, <1>4

LEMMA PlainOver ==
  ASSUME IInv, IInv', HeldOK, Plain, NEW s \in Sessions, NEW c \in Commands,
         Over(s, c)'
  PROVE  Over(s, c)
<1>0. /\ \A t \in Sessions : p[t] \in Entry /\ disk[t] \in Entry
      /\ p \in [Sessions -> Entry] /\ InitialCommand \in Commands
  BY CommandsAssumption DEF IInv, EntriesOK
<1>1. ASSUME NEW t \in Sessions, NEW f, NoneNew(p[t], f), UNCHANGED live,
             Saved(t, f) \/ Unsaved(t, f)
      PROVE  Over(s, c)
  BY <1>1, OverEntry DEF NoneNew, InState, Over
<1>2. ASSUME NEW t \in Sessions, Approve(t) \/ Reject(t) PROVE Over(s, c)
  <2>1. NoneNew(p[t], Approved(p[t])) /\ NoneNew(p[t], [p[t] EXCEPT !.status = "rejected"])
    BY <1>0, NoneNewChanges
  <2>2. CASE Approve(t)
    BY <1>1, <2>1, <2>2 DEF Approve
  <2>3. CASE Reject(t)
    BY <1>1, <2>1, <2>3 DEF Reject
  <2> QED BY <1>2, <2>2, <2>3
<1>3. ASSUME NEW t \in Sessions, AdminRevoke(t) \/ ConsumeResults(t) PROVE Over(s, c)
  <2>1. NoneNew(p[t], RevokedByAdmin(p[t])) /\ NoneNew(p[t], Consumed(p[t]))
    BY <1>0, NoneNewChanges
  <2>2. CASE AdminRevoke(t)
    BY <1>1, <2>1, <2>2 DEF AdminRevoke
  <2>3. CASE ConsumeResults(t)
    BY <1>1, <2>1, <2>3 DEF ConsumeResults
  <2> QED BY <1>3, <2>2, <2>3
<1>4. ASSUME NEW t \in Sessions, NEW d \in Commands, NEW pl \in Payloads,
             Enqueue(t, d, pl)
      PROVE  Over(s, c)
  <2>1. NoneNew(p[t], Enqueued(p[t], d, pl))
    BY <1>0, NoneNewChanges
  <2> QED BY <1>1, <1>4, <2>1 DEF Enqueue
<1>5. CASE UNCHANGED <<p, disk>>
  BY <1>5 DEF Over
<1>6. ASSUME NEW t \in Sessions, Status(t) PROVE Over(s, c)
  <2>1. NoneNew(p[t], Reissued(p[t]))
    BY <1>0, NoneNewChanges
  <2>2. CASE Saved(t, Reissued(p[t]))
    BY <1>1, <1>6, <2>1, <2>2 DEF Status
  <2> QED BY <1>5, <1>6, <2>2 DEF Status
<1>7. ASSUME NEW t \in Sessions, Pair(t) PROVE Over(s, c)
  <2>1. p' = [p EXCEPT ![t] = NewEntry] /\ disk' = Snapshot(p', live')
    BY <1>7 DEF Pair
  <2>2. p'[s].cmd[c] = "completed" => p[s].cmd[c] = "completed"
    BY <1>0, <2>1 DEF NewEntry, NoEntry
  <2> QED BY <2>1, <2>2, OverWrite DEF Over
<1>8. ASSUME NEW h \in Handlers, PollDeliver(h) PROVE Over(s, c)
  <2>1. conn[h].s \in Sessions
    BY <1>8, ServedReal DEF PollDeliver, Serving
  <2>2. PICK order : LET f == Popped(Requeued(p[conn[h].s], order))
                     IN  Saved(conn[h].s, f) \/ Unsaved(conn[h].s, f)
    BY <1>8 DEF PollDeliver
  <2>3. NoneNew(p[conn[h].s], Popped(Requeued(p[conn[h].s], order)))
    BY <1>0, <2>1, NoneNewChanges
  <2> QED BY <1>1, <1>8, <2>1, <2>2, <2>3 DEF PollDeliver
<1>9. ASSUME NEW h \in Handlers, GuestRevoke(h) PROVE Over(s, c)
  <2>1. conn[h].s \in Sessions
    BY <1>9, ServedReal DEF GuestRevoke, Serving
  <2>2. NoneNew(p[conn[h].s], RevokedByGuest(p[conn[h].s]))
    BY <1>0, <2>1, NoneNewChanges
  <2> QED BY <1>1, <1>9, <2>1, <2>2 DEF GuestRevoke
<1>10. CASE Janitor
  BY <1>10, OverWrite DEF Janitor, Over
<1>11. CASE Restart
  <2>1. p'[s] \in AfterRestart(s) /\ disk' = Snapshot(p', live')
    BY <1>11 DEF Restart
  <2>2. ASSUME NEW order, p'[s] = Recovered(disk[s], order), p'[s].cmd[c] = "completed"
        PROVE  Over(s, c)
    <3>1. NoneNew(disk[s], Recovered(disk[s], order))
      BY <1>0, NoneNewChanges
    <3> QED BY <2>2, <3>1 DEF NoneNew, InState, Over
  <2>3. ASSUME NEW status, p'[s] = NoEntry(status) PROVE p'[s].cmd[c] # "completed"
    BY <2>3 DEF NoEntry
  <2>4. p'[s].cmd[c] = "completed" => Over(s, c)
    BY <2>1, <2>2, <2>3 DEF AfterRestart
  <2> QED BY <2>1, <2>4, OverWrite
<1>12. ASSUME NEW h \in Handlers, PollEmpty(h) \/ Refuse(h) PROVE Over(s, c)
  BY <1>5, <1>12 DEF PollEmpty, Refuse
<1>13. CASE Operator
  BY <1>2, <1>3, <1>4, <1>13 DEF Operator
<1>14. CASE Guest
  BY <1>5, <1>6, <1>7, <1>14 DEF Guest, Authenticate
<1>15. CASE Time \/ UNCHANGED vars
  BY <1>5, <1>15 DEF Time, Age, Expire, Lapse, vars
<1> QED BY <1>8, <1>9, <1>10, <1>11, <1>12, <1>13, <1>14, <1>15 DEF Plain

-----------------------------------------------------------------------------
(* The two answers that matter.                                            *)

\* An acknowledgement answered with 200 is the first of its command.
LEMMA AckTold ==
  ASSUME AnswersInv, NEW h \in Handlers, Acks(h)
  PROVE  LET s == conn[h].s
             c == body[h]
         IN  /\ s \in Sessions /\ <<s, c>> \notin told.started
             /\ told'.accepted = told.accepted
             /\ \/ told'.started = told.started
                \/ told'.started = told.started \cup {<<s, c>>}
             /\ \A t \in Sessions, d \in Commands : Over(t, d)' => Over(t, d)
<1> DEFINE s == conn[h].s
           c == body[h]
<1>0. /\ IInv /\ HeldOK /\ StartedStays /\ told \in Told /\ [Next]_vars
      /\ p \in [Sessions -> Entry] /\ c \in Commands
  BY DEF AnswersInv, IInv, EntriesOK, RestOK, Acks, Next, Serve
<1>1. s \in Sessions /\ Real(p[s]) /\ p[s] \in Entry
  BY <1>0, ServedReal DEF Acks, Serving
<1>2. p[s].cmd[c] = "leased" /\ UNCHANGED live
  BY DEF Acks, Ack
<1>3. <<s, c>> \notin told.started
  BY <1>0, <1>1, <1>2 DEF StartedStays, Real, Done
<1>4. \/ UNCHANGED told
      \/ told' = [told EXCEPT !.started = @ \cup {<<s, c>>}]
  BY DEF Acks, Ack
<1>5. IInv'
  BY <1>0, EntriesStep, RestStep DEF IInv
<1>6. ASSUME NEW t \in Sessions, NEW d \in Commands, Over(t, d)' PROVE Over(t, d)
  <2>1. NoneNew(p[s], Acknowledged(p[s], c))
    BY <1>0, <1>1, NoneNewChanges
  <2>2. Saved(s, Acknowledged(p[s], c)) \/ Unsaved(s, Acknowledged(p[s], c))
    BY DEF Acks, Ack
  <2> QED BY <1>0, <1>1, <1>2, <1>5, <1>6, <2>1, <2>2, OverEntry DEF NoneNew, InState, Over
<1> QED BY <1>0, <1>1, <1>3, <1>4, <1>6 DEF Told

\* A result accepted with 200 is the first of its command.
LEMMA ResultTold ==
  ASSUME AnswersInv, NEW h \in Handlers, Results(h)
  PROVE  LET s == conn[h].s
             c == body[h]
         IN  /\ s \in Sessions /\ <<s, c>> \notin told.accepted
             /\ told'.started = told.started
             /\ \/ told'.accepted = told.accepted
                \/ told'.accepted = told.accepted \cup {<<s, c>>}
             /\ \A t \in Sessions, d \in Commands :
                  Over(t, d)' => Over(t, d) \/ (t = s /\ d = c)
<1> DEFINE s == conn[h].s
           c == body[h]
<1>0. /\ IInv /\ HeldOK /\ AcceptedStays /\ told \in Told /\ [Next]_vars
      /\ p \in [Sessions -> Entry] /\ c \in Commands
  BY DEF AnswersInv, IInv, EntriesOK, RestOK, Results, Next, Serve
<1>1. s \in Sessions /\ Real(p[s]) /\ p[s] \in Entry
  BY <1>0, ServedReal DEF Results, Serving
<1>2. p[s].cmd[c] = "running" /\ UNCHANGED live
  BY DEF Results, Result
<1>3. <<s, c>> \notin told.accepted
  BY <1>0, <1>1, <1>2 DEF AcceptedStays, Real
<1>4. \/ UNCHANGED told
      \/ told' = [told EXCEPT !.accepted = @ \cup {<<s, c>>}]
  BY DEF Results, Result
<1>5. IInv'
  BY <1>0, EntriesStep, RestStep DEF IInv
<1>6. ASSUME NEW t \in Sessions, NEW d \in Commands, Over(t, d)'
      PROVE  Over(t, d) \/ (t = s /\ d = c)
  <2>1. InState(Completed(p[s], c), "completed") \subseteq InState(p[s], "completed") \cup {c}
    BY <1>0, <1>1, NoneNewChanges
  <2>2. Saved(s, Completed(p[s], c)) \/ Unsaved(s, Completed(p[s], c))
    BY DEF Results, Result
  <2>3. Over(t, d) \/ (t = s /\ d \in InState(Completed(p[s], c), "completed"))
    BY <1>0, <1>1, <1>2, <1>5, <1>6, <2>2, OverEntry
  <2> QED BY <2>1, <2>3 DEF InState, Over
<1> QED BY <1>0, <1>1, <1>3, <1>4, <1>6 DEF Told

-----------------------------------------------------------------------------
(* GInv is kept, one kind of step at a time.                               *)

Resting == {"pairing", "polling", "closing"} \cup Ended

\* Where the loop goes on after a call.
LEMMA OnwardOK ==
  ASSUME GuestTypes, NEW s \in Sessions, Calling(s)
  PROVE  /\ Onward(guest[s]) \in Guests
         /\ Onward(guest[s]).at \in Resting
  BY DEF GuestTypes, Guests, Calling, Call, Onward, Idling, Places, Ended, Resting

\* Nothing that a client or a connection is about changes.
LEMMA StillOK ==
  ASSUME ClientOK, UNCHANGED <<guest, caller, body, runs, conn>>,
         signalled' \subseteq Sessions, told.started \subseteq told'.started
  PROVE  ClientOK'
<1>1. GuestTypes'
  BY DEF ClientOK, GuestTypes
<1>2. WaitsOK'
  BY DEF ClientOK, WaitsOK, Waits, Running, Calling
<1>3. PlacesOK'
  BY DEF ClientOK, PlacesOK, At, Ready, Ran
<1>4. ReportsOK'
  BY DEF ClientOK, ReportsOK, Serving, Ran
<1> QED BY <1>1, <1>2, <1>3, <1>4 DEF ClientOK

\* A client moves to a place where it has no command at hand.
LEMMA MoveOK ==
  ASSUME ClientOK, NEW s \in Sessions, NEW g \in Guests, g.at \in Resting,
         guest' = [guest EXCEPT ![s] = g],
         ~Waiting(s, "main")' \/ g.at \in Ended,
         caller' \in [Handlers -> {"main", "signal", "nobody"}],
         \A h \in Handlers : caller'[h] \in {caller[h], "nobody"},
         UNCHANGED <<body, runs, conn, signalled>>,
         told.started \subseteq told'.started
  PROVE  ClientOK'
<1>1. GuestTypes' /\ guest'[s] = g /\ \A t \in Sessions \ {s} : guest'[t] = guest[t]
  BY DEF ClientOK, GuestTypes
<1>2. WaitsOK'
  <2> SUFFICES ASSUME NEW t \in Sessions, NEW h \in Handlers,
                      Running(t)', Waits(t, "main", h)'
               PROVE  /\ Calling(t)'
                      /\ conn'[h].op = Call[guest'[t].at]
                      /\ body'[h] = guest'[t].c
                      /\ \A k \in Handlers : Waits(t, "main", k)' => k = h
    BY DEF WaitsOK
  <2>1. t # s
    BY <1>1 DEF Waiting, Running
  <2>2. \A k \in Handlers : Waits(t, "main", k)' => Waits(t, "main", k)
    BY DEF Waits
  <2> QED BY <1>1, <2>1, <2>2 DEF ClientOK, WaitsOK, Running, Calling
<1>3. PlacesOK'
  BY <1>1 DEF ClientOK, PlacesOK, At, Ready, Ran, Resting, Ended
<1>4. ReportsOK'
  BY DEF ClientOK, ReportsOK, Serving, Ran
<1> QED BY <1>1, <1>2, <1>3, <1>4 DEF ClientOK

\* A call reaches the broker.
LEMMA SendOK ==
  ASSUME ClientOK, IInv, NEW s \in Sessions, NEW h \in Handlers,
         Send(s, h) \/ SendRevoke(s, h)
  PROVE  ClientOK'
<1>0. conn \in [Handlers -> Calls \cup {Idle}]
  BY DEF IInv, RestOK
<1>1. CASE Send(s, h)
  <2>1. /\ Calling(s) /\ ~Waiting(s, "main") /\ conn[h] = Idle
        /\ conn' = [conn EXCEPT ![h] = [op |-> Call[guest[s].at], s |-> s]]
        /\ caller' = [caller EXCEPT ![h] = "main"]
        /\ body' = [body EXCEPT ![h] = guest[s].c]
        /\ UNCHANGED <<guest, signalled, runs, told>>
    BY <1>1 DEF Send, Authenticate
  <2>2. GuestTypes'
    BY <2>1 DEF ClientOK, GuestTypes, Guests
  <2>3. /\ conn'[h].op = Call[guest[s].at] /\ conn'[h].s = s
        /\ caller'[h] = "main" /\ body'[h] = guest[s].c
        /\ \A k \in Handlers \ {h} : /\ conn'[k] = conn[k] /\ caller'[k] = caller[k]
                                      /\ body'[k] = body[k]
    BY <1>0, <2>1 DEF ClientOK, GuestTypes
  <2>4. WaitsOK'
    <3> SUFFICES ASSUME NEW t \in Sessions, NEW k \in Handlers,
                        Running(t), Waits(t, "main", k)'
                 PROVE  /\ Calling(t)
                        /\ conn'[k].op = Call[guest[t].at]
                        /\ body'[k] = guest[t].c
                        /\ \A j \in Handlers : Waits(t, "main", j)' => j = k
      BY <2>1 DEF WaitsOK, Running, Calling
    <3>1. \A j \in Handlers \ {h} : Waits(t, "main", j)' => Waits(t, "main", j)
      BY <2>3 DEF Waits
    <3>2. CASE t = s
      BY <2>1, <2>3, <3>1, <3>2 DEF Waiting
    <3>3. CASE t # s
      BY <2>3, <3>1, <3>3 DEF ClientOK, WaitsOK, Waits
    <3> QED BY <3>2, <3>3
  <2>5. PlacesOK'
    BY <2>1 DEF ClientOK, PlacesOK, At, Ready, Ran
  <2>6. ReportsOK'
    <3>1. Call[guest[s].at] = "result" => At(s, "reporting")
      BY <2>1 DEF Calling, Call, At
    <3> QED BY <2>1, <2>3, <3>1 DEF ClientOK, ReportsOK, PlacesOK, Serving, Ran
  <2> QED BY <2>2, <2>4, <2>5, <2>6 DEF ClientOK
<1>2. CASE SendRevoke(s, h)
  <2>1. /\ conn' = [conn EXCEPT ![h] = [op |-> "revoke", s |-> s]]
        /\ caller' = [caller EXCEPT ![h] = "signal"]
        /\ UNCHANGED <<guest, body, signalled, runs, told>>
    BY <1>2 DEF SendRevoke, Authenticate
  <2>2. GuestTypes'
    BY <2>1 DEF ClientOK, GuestTypes
  <2>3. /\ conn'[h].op = "revoke" /\ caller'[h] = "signal"
        /\ \A k \in Handlers \ {h} : conn'[k] = conn[k] /\ caller'[k] = caller[k]
    BY <1>0, <2>1 DEF ClientOK, GuestTypes
  <2>4. WaitsOK'
    BY <2>1, <2>3 DEF ClientOK, WaitsOK, Waits, Running, Calling
  <2>5. PlacesOK'
    BY <2>1 DEF ClientOK, PlacesOK, At, Ready, Ran
  <2>6. ReportsOK'
    BY <2>1, <2>3 DEF ClientOK, ReportsOK, Serving, Ran
  <2> QED BY <2>2, <2>4, <2>5, <2>6 DEF ClientOK
<1> QED BY <1>1, <1>2

\* Only a started command that did not run yet is executed.
LEMMA ExecuteOK ==
  ASSUME ClientOK, NEW s \in Sessions, Execute(s)
  PROVE  ClientOK' /\ guest[s].c \in Commands /\ Ready(s, guest[s].c)
<1> DEFINE c == guest[s].c
<1>1. /\ At(s, "executing") /\ c \in Commands /\ Ready(s, c)
      /\ guest' = [guest EXCEPT ![s].at = "reporting"]
      /\ runs' = [runs EXCEPT ![<<s, c>>] = @ + 1]
      /\ UNCHANGED <<caller, body, signalled, conn, told>>
  BY DEF ClientOK, PlacesOK, Execute, vars
<1>2. /\ runs \in [Sessions \X Commands -> {0, 1}] /\ runs'[<<s, c>>] = 1
      /\ \A x \in Sessions \X Commands : x # <<s, c>> => runs'[x] = runs[x]
  BY <1>1 DEF ClientOK, GuestTypes, Ready
<1>3. /\ guest'[s] = [guest[s] EXCEPT !.at = "reporting"] /\ guest'[s] \in Guests
      /\ \A t \in Sessions \ {s} : guest'[t] = guest[t]
  BY <1>1 DEF ClientOK, GuestTypes, Guests, Places
<1>4. GuestTypes'
  BY <1>1, <1>2, <1>3 DEF ClientOK, GuestTypes
<1>5. WaitsOK'
  <2>1. ASSUME NEW h \in Handlers PROVE ~Waits(s, "main", h)
    BY <1>1 DEF ClientOK, WaitsOK, Running, Ended, At, Calling, Call
  <2> QED BY <1>1, <1>3, <2>1 DEF ClientOK, WaitsOK, Waits, Running, Calling
<1>6. PlacesOK'
  <2> SUFFICES ASSUME NEW t \in Sessions
               PROVE  /\ At(t, "acking")' => guest'[t].c \in Commands
                      /\ At(t, "executing")' => guest'[t].c \in Commands /\ Ready(t, guest[t].c)'
                      /\ At(t, "reporting")' => guest'[t].c \in Commands /\ Ran(t, guest[t].c)'
    BY DEF PlacesOK
  <2>1. CASE t = s
    BY <1>1, <1>2, <1>3, <2>1 DEF At, Ran, ClientOK, GuestTypes, Guests
  <2>2. CASE t # s
    BY <1>1, <1>2, <1>3, <2>2 DEF ClientOK, PlacesOK, At, Ready, Ran
  <2> QED BY <2>1, <2>2
<1>7. ReportsOK'
  <2>1. \A x : runs[x] = 1 /\ x \in Sessions \X Commands => runs'[x] = 1
    BY <1>1, <1>2
  <2> QED BY <1>1, <1>2, <2>1 DEF ClientOK, ReportsOK, Serving, Ran
<1> QED BY <1>1, <1>4, <1>5, <1>6, <1>7 DEF ClientOK

\* An answer: its caller, if it is there, goes to a place it may go to.
LEMMA AnswerOK ==
  ASSUME ClientOK, IInv, NEW h \in Handlers, conn[h].s \in Sessions, conn[h] # Idle,
         NEW g, Answer(h, g), Return(h),
         caller[h] = "main" /\ Running(conn[h].s) =>
           /\ g \in Guests
           /\ g.at \in Resting \cup {"acking", "executing"}
           /\ g.at = "acking" => g.c \in Commands
           /\ g.at = "executing" => /\ g.c \in Commands /\ runs[<<conn[h].s, g.c>>] = 0
                                     /\ <<conn[h].s, g.c>> \in told'.started,
         told.started \subseteq told'.started
  PROVE  ClientOK'
<1> DEFINE s == conn[h].s
<1>0. conn \in [Handlers -> Calls \cup {Idle}]
  BY DEF IInv, RestOK
<1>1. /\ conn' = [conn EXCEPT ![h] = Idle]
      /\ caller' = [caller EXCEPT ![h] = "nobody"]
      /\ body' = [body EXCEPT ![h] = NoCommand]
      /\ UNCHANGED <<signalled, runs>>
  BY DEF Answer, Return
<1>2. \/ guest' = [guest EXCEPT ![s] = g] /\ caller[h] = "main" /\ Running(s)
      \/ guest' = [guest EXCEPT ![s] = Idling("gone")]
      \/ guest' = guest
  BY DEF Answer
<1>3. Idling("gone") \in Guests /\ Idling("gone").at = "gone"
  BY DEF Idling, Guests, Places, Ended
<1>4. GuestTypes'
  BY <1>1, <1>2, <1>3 DEF ClientOK, GuestTypes
<1>5. \A t \in Sessions : \/ guest'[t] = guest[t]
                          \/ t = s /\ guest'[t] = Idling("gone")
                          \/ t = s /\ guest'[t] = g /\ caller[h] = "main" /\ Running(s)
  BY <1>2 DEF ClientOK, GuestTypes
<1>6. /\ conn'[h] = Idle
      /\ \A k \in Handlers \ {h} : /\ conn'[k] = conn[k] /\ caller'[k] = caller[k]
                                    /\ body'[k] = body[k]
  BY <1>0, <1>1 DEF ClientOK, GuestTypes
<1>7. WaitsOK'
  <2> SUFFICES ASSUME NEW t \in Sessions, NEW k \in Handlers,
                      Running(t)', Waits(t, "main", k)'
               PROVE  /\ Calling(t)'
                      /\ conn'[k].op = Call[guest'[t].at]
                      /\ body'[k] = guest'[t].c
                      /\ \A j \in Handlers : Waits(t, "main", j)' => j = k
    BY DEF WaitsOK
  <2>1. k # h /\ \A j \in Handlers : Waits(t, "main", j)' => Waits(t, "main", j)
    BY <1>6 DEF Waits
  <2>2. guest'[t] = guest[t]
    <3>1. guest'[t] # Idling("gone")
      BY <1>3 DEF Running, Ended
    <3>2. CASE t = s /\ caller[h] = "main" /\ Running(s)
      <4>1. Waits(s, "main", h) /\ Waits(s, "main", k)
        BY <2>1, <3>2 DEF Waits
      <4> QED BY <2>1, <3>2, <4>1 DEF ClientOK, WaitsOK
    <3> QED BY <1>5, <3>1, <3>2
  <2> QED BY <1>6, <2>1, <2>2 DEF ClientOK, WaitsOK, Running, Calling
<1>8. PlacesOK'
  <2> SUFFICES ASSUME NEW t \in Sessions
               PROVE  /\ At(t, "acking")' => guest'[t].c \in Commands
                      /\ At(t, "executing")' => guest'[t].c \in Commands /\ Ready(t, guest[t].c)'
                      /\ At(t, "reporting")' => guest'[t].c \in Commands /\ Ran(t, guest[t].c)'
    BY DEF PlacesOK
  <2>1. CASE guest'[t] = guest[t]
    BY <1>1, <2>1 DEF ClientOK, PlacesOK, At, Ready, Ran
  <2>2. CASE t = s /\ guest'[t] = Idling("gone")
    BY <1>3, <2>2 DEF At
  <2>3. CASE t = s /\ guest'[t] = g /\ caller[h] = "main" /\ Running(s)
    BY <1>1, <2>3 DEF At, Resting, Ended, Ready
  <2> QED BY <1>5, <2>1, <2>2, <2>3
<1>9. ReportsOK'
  BY <1>1, <1>6 DEF ClientOK, ReportsOK, Serving, Ran, Idle
<1> QED BY <1>4, <1>7, <1>8, <1>9 DEF ClientOK

\* The main loop gives its call up.
LEMMA LoseOK ==
  ASSUME ClientOK, NEW s \in Sessions, LoseCall(s)
  PROVE  ClientOK'
<1>1. Onward(guest[s]) \in Guests /\ Onward(guest[s]).at \in Resting
  BY OnwardOK DEF ClientOK, LoseCall
<1>2. /\ guest' = [guest EXCEPT ![s] = Onward(guest[s])]
      /\ caller' = [h \in Handlers |-> IF Waits(s, "main", h) THEN "nobody" ELSE caller[h]]
      /\ UNCHANGED <<body, runs, conn, signalled, told>>
  BY DEF LoseCall, Become, vars
<1>3. ~Waiting(s, "main")'
  BY <1>2 DEF Waiting, Waits
<1>4. /\ caller' \in [Handlers -> {"main", "signal", "nobody"}]
      /\ \A h \in Handlers : caller'[h] \in {caller[h], "nobody"}
  BY <1>2 DEF ClientOK, GuestTypes
<1> QED BY <1>1, <1>2, <1>3, <1>4, MoveOK

\* The client moves by itself.
LEMMA MovesOK ==
  ASSUME ClientOK, IInv, HeldOK, NEW s \in Sessions,
         \/ PairUp(s) \/ Connect(s) \/ NotApproved(s) \/ TurnedAway(s)
         \/ GiveUpRevoke(s) \/ Crash(s),
         told.started \subseteq told'.started
  PROVE  ClientOK'
<1>1. ASSUME NEW place \in Resting PROVE Idling(place) \in Guests /\ Idling(place).at = place
  BY DEF Idling, Guests, Places, Resting, Ended
<1>2. /\ UNCHANGED <<caller, body, runs, conn, signalled>>
      /\ caller' \in [Handlers -> {"main", "signal", "nobody"}]
      /\ \A h \in Handlers : caller'[h] \in {caller[h], "nobody"}
  BY DEF ClientOK, GuestTypes, PairUp, Connect, NotApproved, TurnedAway, GiveUpRevoke,
         Crash, Pair, Status, vars
<1>3. ASSUME ~Waiting(s, "main") PROVE ~Waiting(s, "main")'
  BY <1>2, <1>3 DEF Waiting, Waits
<1>4. ASSUME NEW place \in Resting, guest' = [guest EXCEPT ![s] = Idling(place)],
             ~Waiting(s, "main") \/ place \in Ended
      PROVE  ClientOK'
  BY <1>1, <1>2, <1>3, <1>4, MoveOK
<1>5. CASE PairUp(s)
  <2>1. ~Real(p[s]) /\ guest' = [guest EXCEPT ![s] = Idling("pairing")]
    BY <1>5 DEF PairUp, Pair, Real, Become
  <2>2. ~Waiting(s, "main")
    BY <2>1 DEF HeldOK, Waiting, Waits
  <2> QED BY <1>4, <2>1, <2>2 DEF Resting
<1>6. CASE Connect(s)
  <2>1. ~Waiting(s, "main")
    BY <1>6 DEF Connect, ClientOK, WaitsOK, Waiting, Running, Ended, At, Calling, Call
  <2> QED BY <1>4, <1>6, <2>1 DEF Connect, Become, Resting, Ended
<1>7. CASE NotApproved(s) \/ GiveUpRevoke(s) \/ Crash(s)
  BY <1>4, <1>7 DEF NotApproved, GiveUpRevoke, Crash, Become, Resting, Ended
<1>8. CASE TurnedAway(s)
  <2>1. Onward(guest[s]) \in Guests /\ Onward(guest[s]).at \in Resting
    BY <1>8, OnwardOK DEF ClientOK, TurnedAway
  <2>2. CASE At(s, "polling")
    BY <1>4, <1>8, <2>2 DEF TurnedAway, Become, Resting, Ended
  <2>3. CASE ~At(s, "polling")
    <3>1. guest' = [guest EXCEPT ![s] = Onward(guest[s])]
      BY <1>8, <2>3 DEF TurnedAway, Become
    <3>2. ~Waiting(s, "main")'
      BY <1>3, <1>8 DEF TurnedAway
    <3> QED BY <1>2, <2>1, <3>1, <3>2, MoveOK
  <2> QED BY <2>2, <2>3
<1> QED BY <1>5, <1>6, <1>7, <1>8

\* The broker answers a call.
LEMMA ServeOK ==
  ASSUME ClientOK, RunsOK, AnswersInv, NEW h \in Handlers, ServeGuest(h),
         told.started \subseteq told'.started
  PROVE  ClientOK'
<1> DEFINE s == conn[h].s
           c == body[h]
<1>0. IInv /\ HeldOK /\ conn \in [Handlers -> Calls \cup {Idle}]
  BY DEF AnswersInv, IInv, RestOK
<1>1. s \in Sessions /\ conn[h] # Idle
  <2>1. conn[h].op \in {"poll", "ack", "result", "revoke"}
    BY DEF ServeGuest, ServePoll, ServeAck, ServeResult, ServeRevoke, PollDeliver,
           PollEmpty, GuestRevoke, Serving
  <2>2. Idle.op \notin {"poll", "ack", "result", "revoke"}
    BY DEF Idle
  <2> QED BY <1>0, <2>1, <2>2, ServedReal
<1>2. ASSUME caller[h] = "main", Running(s)
      PROVE  /\ Onward(guest[s]) \in Guests /\ Onward(guest[s]).at \in Resting
             /\ conn[h].op = Call[guest[s].at] /\ c = guest[s].c /\ Calling(s)
  BY <1>1, <1>2, OnwardOK DEF ClientOK, WaitsOK, Waits
<1>3. ASSUME Answer(h, Onward(guest[s])), Return(h) PROVE ClientOK'
  <2>1. caller[h] = "main" /\ Running(s) =>
          /\ Onward(guest[s]) \in Guests
          /\ Onward(guest[s]).at \in Resting
    BY <1>2
  <2>2. \A place \in Resting : place \notin {"acking", "executing"}
    BY DEF Resting, Ended
  <2> QED BY <1>0, <1>1, <1>3, <2>1, <2>2, AnswerOK
<1>4. CASE ServePoll(h)
  <2>1. CASE PollEmpty(h) /\ Answer(h, Onward(guest[s]))
    BY <1>3, <2>1 DEF PollEmpty
  <2>2. CASE PollDeliver(h) /\ conn'[h] # Idle /\ UNCHANGED guestVars
    <3>1. UNCHANGED conn
      BY <1>0, <2>2 DEF PollDeliver, Return
    <3> QED BY <2>2, <3>1, StillOK DEF guestVars, ClientOK, GuestTypes
  <2>3. ASSUME PollDeliver(h), conn'[h] = Idle PROVE Return(h)
    BY <1>1, <2>3 DEF PollDeliver
  <2>4. CASE PollDeliver(h) /\ conn'[h] = Idle /\ Answer(h, Onward(guest[s]))
    BY <1>3, <2>3, <2>4
  <2>5. ASSUME NEW d \in Commands, PollDeliver(h), conn'[h] = Idle,
               Answer(h, [at |-> "acking", c |-> d, last |-> p[s].payload[d] = Disconnect])
        PROVE  ClientOK'
    <3>1. [at |-> "acking", c |-> d, last |-> p[s].payload[d] = Disconnect] \in Guests
      BY DEF Guests, Places
    <3>2. Return(h)
      BY <2>3, <2>5
    <3> QED BY <1>0, <1>1, <2>5, <3>1, <3>2, AnswerOK
  <2> QED BY <1>4, <2>1, <2>2, <2>4, <2>5 DEF ServePoll
<1>5. CASE ServeAck(h)
  <2>1. CASE Refuse(h) /\ Answer(h, Onward(guest[s]))
    BY <1>3, <2>1 DEF Refuse
  <2>2. CASE /\ Serving(h, "ack") /\ c \in Commands /\ Ack(h, c)
             /\ Answer(h, IF <<s, c>> \in told'.started
                            THEN [guest[s] EXCEPT !.at = "executing"]
                            ELSE Onward(guest[s]))
    <3>1. Return(h)
      BY <2>2 DEF Ack
    <3>2. CASE <<s, c>> \notin told'.started
      BY <1>3, <2>2, <3>1, <3>2
    <3>3. CASE <<s, c>> \in told'.started
      <4> DEFINE g == [guest[s] EXCEPT !.at = "executing"]
      <4>1. runs[<<s, c>>] = 0
        <5>1. <<s, c>> \notin told.started
          BY <2>2, AckTold DEF Acks
        <5> QED BY <1>1, <2>2, <5>1 DEF RunsOK, Ran, ClientOK, GuestTypes
      <4>2. guest[s] \in Guests
        BY <1>1 DEF ClientOK, GuestTypes
      <4>3. g \in Guests /\ g.at = "executing" /\ g.c = guest[s].c
        BY <4>2 DEF Guests, Places
      <4>4. Answer(h, g)
        BY <2>2, <3>3
      <4>5. caller[h] = "main" /\ Running(s) => g.c = c
        BY <1>2, <4>3
      <4> HIDE DEF g
      <4> QED BY <1>0, <1>1, <2>2, <3>1, <3>3, <4>1, <4>3, <4>4, <4>5, AnswerOK
    <3> QED BY <3>2, <3>3
  <2> QED BY <1>5, <2>1, <2>2 DEF ServeAck
<1>6. CASE ServeResult(h)
  BY <1>3, <1>6 DEF ServeResult, Result, Refuse
<1>7. CASE ServeRevoke(h)
  BY <1>3, <1>7 DEF ServeRevoke, GuestRevoke
<1> QED BY <1>4, <1>5, <1>6, <1>7 DEF ServeGuest

LEMMA RestartUnderOK ==
  ASSUME ClientOK, RestartUnder PROVE ClientOK'
<1>1. /\ \A s \in Sessions : guest'[s] \in {guest[s], Idling("gone"), Onward(guest[s])}
      /\ \A s \in Sessions : \/ guest'[s] \in {guest[s], Idling("gone")}
                             \/ /\ guest'[s] = Onward(guest[s]) /\ Running(s)
                                /\ Waiting(s, "main")
      /\ guest' = [s \in Sessions |-> guest'[s]]
      /\ conn' = [h \in Handlers |-> Idle] /\ caller' = [h \in Handlers |-> "nobody"]
      /\ body' = [h \in Handlers |-> NoCommand]
      /\ UNCHANGED <<signalled, runs, told>>
  BY DEF RestartUnder, Restart
<1>2. Idling("gone") \in Guests /\ Idling("gone").at = "gone"
  BY DEF Idling, Guests, Places, Ended
<1>3. \A s \in Sessions :
        \/ guest'[s] = guest[s]
        \/ guest'[s] \in Guests /\ guest'[s].at \in Resting
  <2>1. ASSUME NEW s \in Sessions, Running(s), Waiting(s, "main") PROVE Calling(s)
    BY <2>1 DEF ClientOK, WaitsOK, Waiting
  <2> QED BY <1>1, <1>2, <2>1, OnwardOK DEF ClientOK, Resting, Ended
<1>4. GuestTypes'
  <2>1. \A s \in Sessions : guest'[s] \in Guests
    BY <1>3 DEF ClientOK, GuestTypes
  <2> QED BY <1>1, <2>1 DEF ClientOK, GuestTypes
<1>5. WaitsOK'
  BY <1>1 DEF WaitsOK, Waits
<1>6. PlacesOK'
  BY <1>1, <1>3 DEF ClientOK, PlacesOK, At, Ready, Ran, Resting, Ended
<1>7. ReportsOK'
  BY <1>1 DEF ReportsOK, Serving, Idle
<1> QED BY <1>4, <1>5, <1>6, <1>7 DEF ClientOK

\* Only the client runs commands, one per step.
LEMMA RunsStep ==
  ASSUME [GuestNext]_allVars
  PROVE  UNCHANGED runs \/ \E s \in Sessions : Execute(s)
  BY DEF GuestNext, allVars, PairUp, Client, Learn, Ask, LoseCall, Interrupt, Crash, Connect,
         NotApproved, TurnedAway, Send, Signal, GiveUpRevoke, SendRevoke, ServeGuest,
         ServePoll, ServeAck, ServeResult, ServeRevoke, Answer, Elsewhere, guestVars,
         RestartUnder

LEMMA StartedGrows ==
  ASSUME AnswersInv, [GuestNext]_allVars
  PROVE  told.started \subseteq told'.started
<1>1. told \in Told
  BY DEF AnswersInv, IInv, RestOK
<1>2. ASSUME NEW h \in Handlers, Acks(h) PROVE told.started \subseteq told'.started
  BY <1>2, AckTold
<1>3. ASSUME NEW h \in Handlers, Results(h) PROVE told.started \subseteq told'.started
  BY <1>3, ResultTold
<1> QED BY <1>1, <1>2, <1>3, PlainTold, GuestKinds

LEMMA ClientStep ==
  ASSUME AnswersInv, GInv, [GuestNext]_allVars
  PROVE  ClientOK'
<1>0. /\ IInv /\ HeldOK /\ ClientOK /\ RunsOK /\ told.started \subseteq told'.started
      /\ signalled \subseteq Sessions
  BY StartedGrows DEF AnswersInv, GInv, ClientOK, GuestTypes
<1>1. ASSUME NEW s \in Sessions,
             PairUp(s) \/ Client(s) \/ LoseCall(s) \/ Interrupt(s) \/ Crash(s)
      PROVE  ClientOK'
  <2>1. CASE \/ PairUp(s) \/ Connect(s) \/ NotApproved(s) \/ TurnedAway(s)
             \/ GiveUpRevoke(s) \/ Crash(s)
    BY <1>0, <2>1, MovesOK
  <2>2. CASE Execute(s)
    BY <1>0, <2>2, ExecuteOK
  <2>3. ASSUME NEW h \in Handlers, Send(s, h) \/ SendRevoke(s, h) PROVE ClientOK'
    BY <1>0, <2>3, SendOK
  <2>4. CASE LoseCall(s)
    BY <1>0, <2>4, LoseOK
  <2>5. CASE Signal(s)
    <3>1. UNCHANGED <<guest, caller, body, runs, conn>> /\ signalled' \subseteq Sessions
      BY <1>0, <2>5 DEF Signal, vars
    <3> QED BY <1>0, <3>1, StillOK
  <2> QED BY <1>1, <2>1, <2>2, <2>3, <2>4, <2>5 DEF Client, Learn, Ask, Interrupt
<1>2. ASSUME NEW h \in Handlers, ServeGuest(h) PROVE ClientOK'
  BY <1>0, <1>2, ServeOK
<1>3. CASE Elsewhere
  <2>1. UNCHANGED conn
    BY <1>3 DEF Elsewhere, Operator, Time, Approve, Reject, AdminRevoke, ConsumeResults,
       Enqueue, Age, Expire, Lapse, Janitor
  <2> QED BY <1>0, <1>3, <2>1, StillOK DEF Elsewhere, guestVars
<1>4. CASE RestartUnder
  BY <1>0, <1>4, RestartUnderOK
<1>5. CASE UNCHANGED allVars
  BY <1>0, <1>5, StillOK DEF allVars
<1> QED BY <1>1, <1>2, <1>3, <1>4, <1>5 DEF GuestNext

LEMMA RunsOKStep ==
  ASSUME AnswersInv, AnswersInv', GInv, ClientOK', [GuestNext]_allVars
  PROVE  RunsOK'
<1>0. /\ IInv /\ IInv' /\ HeldOK /\ ClientOK /\ RunsOK
      /\ told.started \subseteq told'.started
  BY StartedGrows DEF AnswersInv, GInv
<1>1. ASSUME NEW t \in Sessions, NEW d \in Commands
      PROVE  /\ Ran(t, d) => Ran(t, d)'
             /\ Ran(t, d)' => Ran(t, d) \/ <<t, d>> \in told.started
  <2>1. CASE UNCHANGED runs
    BY <2>1 DEF Ran
  <2>2. ASSUME NEW s \in Sessions, Execute(s)
        PROVE  /\ Ran(t, d) => Ran(t, d)'
               /\ Ran(t, d)' => Ran(t, d) \/ <<t, d>> \in told.started
    <3>1. /\ guest[s].c \in Commands /\ Ready(s, guest[s].c)
          /\ runs' = [runs EXCEPT ![<<s, guest[s].c>>] = @ + 1]
          /\ runs \in [Sessions \X Commands -> {0, 1}]
      BY <1>0, <2>2, ExecuteOK DEF Execute, ClientOK, GuestTypes
    <3> QED BY <3>1 DEF Ran, Ready
  <2> QED BY <2>1, <2>2, RunsStep
<1>2. ASSUME NEW t \in Sessions, NEW d \in Commands, Ran(t, d)'
      PROVE  <<t, d>> \in told'.started
  BY <1>0, <1>1, <1>2 DEF RunsOK
<1>3. ASSUME NEW t \in Sessions, NEW d \in Commands, Over(t, d)' PROVE Ran(t, d)'
  <2>1. CASE Over(t, d)
    BY <1>0, <1>1, <2>1 DEF RunsOK, Over
  <2>2. CASE Plain
    BY <1>0, <1>3, <2>1, <2>2, PlainOver
  <2>3. ASSUME NEW h \in Handlers, Acks(h) PROVE Ran(t, d)'
    BY <1>3, <2>1, <2>3, AckTold
  <2>4. ASSUME NEW h \in Handlers, Results(h) PROVE Ran(t, d)'
    <3>1. Ran(conn[h].s, body[h])
      BY <1>0, <2>4 DEF Results, ClientOK, ReportsOK
    <3>2. Over(t, d) \/ (t = conn[h].s /\ d = body[h])
      BY <1>3, <2>4, ResultTold
    <3> QED BY <1>1, <2>1, <3>1, <3>2
  <2> QED BY <2>2, <2>3, <2>4, GuestKinds
<1> QED BY <1>2, <1>3 DEF RunsOK, Over

-----------------------------------------------------------------------------
(* The theorems.                                                           *)

LEMMA InitGInv == GuestInit => GInv
<1> SUFFICES ASSUME GuestInit PROVE GInv
  OBVIOUS
<1>1. GuestTypes
  BY DEF GuestInit, GuestTypes, Idling, Guests, Places
<1>2. WaitsOK /\ PlacesOK /\ ReportsOK
  BY DEF GuestInit, Init, WaitsOK, Waits, PlacesOK, At, Idling, ReportsOK, Serving, Idle
<1>3. RunsOK
  BY DEF GuestInit, Init, RunsOK, Ran, NoEntry
<1> QED BY <1>1, <1>2, <1>3 DEF GInv, ClientOK

LEMMA GuestAnswers == GuestSpec => []AnswersInv
  BY GuestIsBroker, AnswersInvariance, PTL

\* GInv holds of every reachable state of client and broker.
THEOREM GuestInvariance == GuestSpec => []GInv
<1>1. AnswersInv /\ AnswersInv' /\ GInv /\ [GuestNext]_allVars => GInv'
  BY ClientStep, RunsOKStep DEF GInv
<1> QED BY <1>1, InitGInv, GuestAnswers, PTL DEF GuestSpec

\* Type correctness of client and connection.
THEOREM GuestTypeCorrect == GuestSpec => []GuestTypeOK
<1>1. GInv /\ TypeOK => GuestTypeOK
  BY DEF GInv, ClientOK, GuestTypes, WaitsOK, GuestTypeOK
<1> QED BY <1>1, GuestInvariance, GuestIsBroker, TypeCorrect, PTL

\* While the client executes a command the broker keeps it running.
THEOREM RunsAtBrokerCorrect == GuestSpec => []RunsAtBroker
<1>1. AnswersInv /\ GInv => RunsAtBroker
  <2> SUFFICES ASSUME AnswersInv, GInv, NEW s \in Sessions, At(s, "executing"),
                      p[s].status # "gone"
               PROVE  p[s].cmd[guest[s].c] = "running"
    BY DEF RunsAtBroker
  <2>1. guest[s].c \in Commands /\ Ready(s, guest[s].c)
    BY DEF GInv, ClientOK, PlacesOK
  <2>2. p[s].cmd[guest[s].c] \in Done
    BY <2>1 DEF AnswersInv, StartedStays, Ready
  <2>3. p[s].cmd[guest[s].c] # "completed"
    BY <2>1 DEF GInv, RunsOK, Ran, Ready
  <2> QED BY <2>2, <2>3 DEF Done
<1> QED BY <1>1, GuestAnswers, GuestInvariance, PTL

LEMMA LifecycleStep ==
  ASSUME AnswersInv, GInv, [GuestNext]_allVars
  PROVE  [Lifecycle!Next]_(Lifecycle!vars)
<1>0. /\ told \in Told /\ ClientOK
      /\ ReportsOK /\ GuestTypes
  BY DEF AnswersInv, IInv, RestOK, GInv, ClientOK
<1>1. ASSUME NEW s \in Sessions, Execute(s) PROVE Lifecycle!Next
  <2> DEFINE x == <<s, guest[s].c>>
  <2>1. /\ x \in Sessions \X Commands /\ x \in told.started /\ runs[x] = 0
        /\ UNCHANGED told /\ runs' = [runs EXCEPT ![x] = @ + 1]
    BY <1>0, <1>1, ExecuteOK DEF Ready, Execute, vars
  <2>2. runs' = [runs EXCEPT ![x] = 1]
    BY <1>0, <2>1 DEF GuestTypes
  <2>3. Lifecycle!Run(x)
    BY <2>1, <2>2 DEF Lifecycle!Run
  <2> QED BY <2>1, <2>3 DEF Lifecycle!Next
<1>2. ASSUME UNCHANGED runs, Plain PROVE UNCHANGED Lifecycle!vars
  BY <1>0, <1>2, PlainTold DEF Lifecycle!vars
<1>3. ASSUME UNCHANGED runs, NEW h \in Handlers, Acks(h)
      PROVE  Lifecycle!Next \/ UNCHANGED Lifecycle!vars
  <2> DEFINE x == <<conn[h].s, body[h]>>
  <2>1. /\ x \in Sessions \X Commands /\ x \notin told.started
        /\ told'.accepted = told.accepted
        /\ told'.started \in {told.started, told.started \cup {x}}
    BY <1>3, AckTold DEF Acks
  <2>2. CASE told'.started = told.started
    BY <1>3, <2>1, <2>2 DEF Lifecycle!vars
  <2>3. CASE told'.started = told.started \cup {x}
    BY <1>3, <2>1, <2>3 DEF Lifecycle!Next, Lifecycle!Start
  <2> QED BY <2>1, <2>2, <2>3
<1>4. ASSUME UNCHANGED runs, NEW h \in Handlers, Results(h)
      PROVE  Lifecycle!Next \/ UNCHANGED Lifecycle!vars
  <2> DEFINE x == <<conn[h].s, body[h]>>
  <2>1. /\ x \in Sessions \X Commands /\ x \notin told.accepted
        /\ told'.started = told.started
        /\ told'.accepted \in {told.accepted, told.accepted \cup {x}}
    BY <1>4, ResultTold DEF Results
  <2>2. runs[x] = 1
    BY <1>0, <1>4 DEF ReportsOK, Results, Ran
  <2>3. CASE told'.accepted = told.accepted
    BY <1>4, <2>1, <2>3 DEF Lifecycle!vars
  <2>4. CASE told'.accepted = told.accepted \cup {x}
    BY <1>4, <2>1, <2>2, <2>4 DEF Lifecycle!Next, Lifecycle!Accept
  <2> QED BY <2>1, <2>3, <2>4
<1> QED BY <1>1, <1>2, <1>3, <1>4, RunsStep, GuestKinds

\* Client and broker, over a connection that loses and delays calls and with
\* a broker that crashes, implement CommandLifecycle: no command is run twice,
\* or without having been started; no result is accepted of one that was not.
THEOREM AtMostOnceCorrect == GuestSpec => AtMostOnce
<1>1. GuestInit => Lifecycle!Init
  BY DEF GuestInit, Init, Lifecycle!Init
<1>2. AnswersInv /\ GInv /\ [GuestNext]_allVars => [Lifecycle!Next]_(Lifecycle!vars)
  BY LifecycleStep
<1> QED BY <1>1, <1>2, GuestAnswers, GuestInvariance, PTL
        DEF GuestSpec, AtMostOnce, Lifecycle!Spec

-----------------------------------------------------------------------------
(***************************************************************************)
(* RevokesOnPurpose.  A client whose session is forgotten may still be     *)
(* about to close; it reaches no handler then, so PurposeOK excepts it.    *)
(***************************************************************************)

\* The broker has c as a session.disconnect, or nothing of the session at all.
Ordered(s, c) ==
  p[s].status = "gone" \/ (p[s].cmd[c] # "absent" /\ p[s].payload[c] = Disconnect)

Meant(s) ==
  s \in signalled \/ \E c \in Commands : runs[<<s, c>>] # 0 /\ Ordered(s, c)

PurposeOK ==
  /\ \A s \in Sessions : At(s, "closing") => Meant(s)
  /\ \A s \in Sessions :
       guest[s].last => guest[s].c \in Commands /\ Ordered(s, guest[s].c)
  /\ \A h \in Handlers : Serving(h, "revoke") => Meant(conn[h].s)

\* The payload of a known command is never exchanged.
LEMMA OrderedStep ==
  ASSUME AnswersInv, [Next]_vars, NEW s \in Sessions, NEW c \in Commands, Ordered(s, c)
  PROVE  Ordered(s, c)'
<1>0. /\ IInv /\ HeldOK /\ EntriesOK /\ EntryOK(p[s]) /\ p \in [Sessions -> Entry]
  BY DEF AnswersInv, IInv, EntriesOK
<1>1. ASSUME NEW e, NEW f, Forward(e, f), e.cmd[c] # "absent"
      PROVE  f.cmd[c] # "absent" /\ f.payload[c] = e.payload[c]
  BY <1>1 DEF Forward, Moves
<1>2. p[s].status # "none"
  BY <1>0 DEF Ordered, EntryOK, Unstarted, Issued, InState
<1>3. ASSUME NEW t \in Sessions, Write(t, p'[t]) PROVE Ordered(s, c)'
  <2>1. CASE s = t
    BY <1>1, <1>3, <2>1 DEF Write, Ordered, Real
  <2>2. CASE s # t
    BY <1>0, <1>3, <2>2 DEF Write, Ordered
  <2> QED BY <2>1, <2>2
<1>4. ASSUME NEW t \in Sessions, Pair(t) PROVE Ordered(s, c)'
  BY <1>0, <1>2, <1>4 DEF Pair, Ordered
<1>5. CASE Janitor \/ UNCHANGED <<p, disk, live>>
  BY <1>5 DEF Janitor, Ordered
<1>6. CASE Restart
  <2>1. CASE Forward(disk[s], p'[s]) /\ disk[s].status # "none"
    <3>1. Real(p[s]) /\ SameIds(p[s], disk[s])
      BY <2>1 DEF AnswersInv, FileIds
    <3>2. disk[s].cmd[c] # "absent" /\ disk[s].payload[c] = Disconnect
      BY <3>1 DEF Ordered, Real, SameIds, Issued, InState
    <3> QED BY <1>1, <2>1, <3>2 DEF Ordered
  <2>2. CASE p'[s].status = "gone"
    BY <2>2 DEF Ordered
  <2> QED BY <1>0, <1>2, <1>6, <2>1, <2>2, RestartEntry
<1> QED BY <1>0, <1>3, <1>4, <1>5, <1>6, StepKinds

LEMMA SignalledStep ==
  ASSUME [GuestNext]_allVars
  PROVE  signalled \subseteq signalled'
<1>1. UNCHANGED signalled \/ \E s \in Sessions : Signal(s)
  BY DEF GuestNext, allVars, PairUp, Client, Learn, Ask, LoseCall, Interrupt, Crash, Connect,
         NotApproved, TurnedAway, Send, Execute, GiveUpRevoke, SendRevoke, ServeGuest,
         ServePoll, ServeAck, ServeResult, ServeRevoke, Answer, Elsewhere, guestVars,
         RestartUnder
<1> QED BY <1>1 DEF Signal

LEMMA MeantStep ==
  ASSUME AnswersInv, GInv, [GuestNext]_allVars, NEW s \in Sessions, Meant(s)
  PROVE  Meant(s)'
<1>1. CASE s \in signalled
  BY <1>1, SignalledStep DEF Meant
<1>2. ASSUME NEW c \in Commands, runs[<<s, c>>] # 0, Ordered(s, c) PROVE Meant(s)'
  <2>1. Ordered(s, c)'
    BY <1>2, OrderedStep, GuestStep
  <2>2. runs'[<<s, c>>] # 0
    <3>1. ASSUME NEW t \in Sessions, Execute(t) PROVE runs'[<<s, c>>] # 0
      <4>1. /\ runs \in [Sessions \X Commands -> {0, 1}]
            /\ runs' = [runs EXCEPT ![<<t, guest[t].c>>] = @ + 1]
        BY <3>1 DEF GInv, ClientOK, GuestTypes, Execute
      <4>2. runs[<<s, c>>] = 1
        BY <1>2, <4>1
      <4> QED BY <4>1, <4>2
    <3> QED BY <1>2, <3>1, RunsStep
  <2> QED BY <2>1, <2>2 DEF Meant
<1> QED BY <1>1, <1>2 DEF Meant

\* Where a client may go in a step.
GoesOn(s) ==
  \/ /\ guest'[s].at \in {guest[s].at} \cup (Places \ {"closing"})
     /\ guest'[s].last => guest[s].last /\ guest'[s].c = guest[s].c
  \/ Calling(s) /\ guest'[s] = Onward(guest[s])
  \/ \E c \in Commands :
       /\ guest'[s].at = "acking" /\ guest'[s].c = c
       /\ guest'[s].last => p[s].payload[c] = Disconnect
       /\ p'[s].cmd[c] = "leased" /\ Forward(p[s], p'[s])

LEMMA DeliverForward ==
  ASSUME AnswersInv, NEW h \in Handlers, PollDeliver(h)
  PROVE  conn[h].s \in Sessions /\ Forward(p[conn[h].s], p'[conn[h].s])
<1> DEFINE s == conn[h].s
<1>1. s \in Sessions /\ EntriesOK /\ p \in [Sessions -> Entry]
  BY ServedReal DEF AnswersInv, IInv, EntriesOK, PollDeliver, Serving
<1>2. PICK order \in SetToSeqs(Overdue(s)) :
        LET e == Requeued(p[s], order) IN
        /\ e.queue # <<>>
        /\ Saved(s, Popped(e)) \/ Unsaved(s, Popped(e))
  BY DEF PollDeliver
<1>3. p'[s] = Popped(Requeued(p[s], order))
  BY <1>1, <1>2 DEF Saved, Unsaved
<1> QED BY <1>1, <1>2, <1>3, ForwardPoll

LEMMA ServeGoes ==
  ASSUME AnswersInv, GInv, NEW h \in Handlers, ServeGuest(h), NEW s \in Sessions
  PROVE  GoesOn(s)
<1> DEFINE r == conn[h].s
           c == body[h]
<1>0. /\ r \in Sessions /\ conn[h] # Idle
      /\ guest \in [Sessions -> Guests]
  <2>1. conn[h].op \in {"poll", "ack", "result", "revoke"}
    BY DEF ServeGuest, ServePoll, ServeAck, ServeResult, ServeRevoke, PollDeliver,
           PollEmpty, GuestRevoke, Serving
  <2> QED BY <2>1, ServedReal DEF AnswersInv, GInv, ClientOK, GuestTypes, Idle
<1>1. CASE guest'[s] = guest[s]
  BY <1>1 DEF GoesOn
<1>2. CASE guest'[s] = Idling("gone")
  BY <1>2 DEF GoesOn, Idling, Places, Ended
<1>3. ASSUME NEW g, Answer(h, g)
      PROVE  \/ guest'[s] = guest[s] \/ guest'[s] = Idling("gone")
             \/ s = r /\ guest'[s] = g /\ caller[h] = "main" /\ Running(s)
  BY <1>0, <1>3 DEF Answer
<1>4. caller[h] = "main" /\ Running(r) => Calling(r)
  BY <1>0 DEF GInv, ClientOK, WaitsOK, Waits
<1>5. CASE Answer(h, Onward(guest[r]))
  BY <1>1, <1>2, <1>3, <1>4, <1>5 DEF GoesOn
<1>6. CASE Answer(h, [guest[r] EXCEPT !.at = "executing"])
  <2> DEFINE g == [guest[r] EXCEPT !.at = "executing"]
  <2>1. g.at = "executing" /\ g.last = guest[r].last /\ g.c = guest[r].c
    BY <1>0 DEF Guests
  <2>2. "executing" \in Places \ {"closing"}
    BY DEF Places
  <2> HIDE DEF g
  <2>3. s = r /\ guest'[s] = g => GoesOn(s)
    BY <2>1, <2>2 DEF GoesOn
  <2>4. \/ guest'[s] = guest[s] \/ guest'[s] = Idling("gone")
        \/ s = r /\ guest'[s] = g
    BY <1>3, <1>6 DEF g
  <2> QED BY <1>1, <1>2, <2>3, <2>4
<1>7. ASSUME NEW d \in Commands, PollDeliver(h), Delivers(r, d),
             Answer(h, [at |-> "acking", c |-> d, last |-> p[r].payload[d] = Disconnect])
      PROVE  GoesOn(s)
  <2> DEFINE g == [at |-> "acking", c |-> d, last |-> p[r].payload[d] = Disconnect]
  <2>1. p'[r].cmd[d] = "leased" /\ Forward(p[r], p'[r])
    BY <1>7, DeliverForward DEF Delivers
  <2>2. g.at = "acking" /\ g.c = d /\ (g.last => p[r].payload[d] = Disconnect)
    OBVIOUS
  <2> HIDE DEF g
  <2>3. s = r /\ guest'[s] = g => GoesOn(s)
    BY <2>1, <2>2 DEF GoesOn
  <2>4. \/ guest'[s] = guest[s] \/ guest'[s] = Idling("gone")
        \/ s = r /\ guest'[s] = g
    BY <1>3, <1>7 DEF g
  <2> QED BY <1>1, <1>2, <2>3, <2>4
<1>8. CASE ServePoll(h)
  BY <1>1, <1>5, <1>7, <1>8 DEF ServePoll, guestVars
<1>9. CASE ServeAck(h)
  BY <1>5, <1>6, <1>9 DEF ServeAck
<1>10. CASE ServeResult(h) \/ ServeRevoke(h)
  BY <1>5, <1>10 DEF ServeResult, ServeRevoke
<1> QED BY <1>8, <1>9, <1>10 DEF ServeGuest

LEMMA GuestGoes ==
  ASSUME AnswersInv, GInv, [GuestNext]_allVars, NEW s \in Sessions
  PROVE  GoesOn(s)
<1>0. guest \in [Sessions -> Guests]
  BY DEF GInv, ClientOK, GuestTypes
<1>1. ASSUME guest'[s] = guest[s] PROVE GoesOn(s)
  BY <1>1 DEF GoesOn
<1>2. ASSUME NEW place \in Places \ {"closing"}, guest'[s] = Idling(place)
      PROVE  GoesOn(s)
  BY <1>2 DEF GoesOn, Idling
<1>3. {"pairing", "polling", "gone"} \subseteq Places \ {"closing"}
  BY DEF Places, Ended
<1>4. ASSUME NEW t \in Sessions,
             PairUp(t) \/ Client(t) \/ LoseCall(t) \/ Interrupt(t) \/ Crash(t)
      PROVE  GoesOn(s)
  <2>1. ASSUME NEW place \in {"pairing", "polling", "gone"}, Become(t, Idling(place))
        PROVE  GoesOn(s)
    BY <1>0, <1>1, <1>2, <1>3, <2>1 DEF Become
  <2>2. CASE Become(t, Onward(guest[t])) /\ Calling(t)
    <3>1. CASE s = t
      BY <1>0, <2>2, <3>1 DEF Become, GoesOn
    <3>2. CASE s # t
      BY <1>0, <1>1, <2>2, <3>2 DEF Become
    <3> QED BY <3>1, <3>2
  <2>3. CASE UNCHANGED guest
    BY <1>1, <2>3
  <2>4. CASE Execute(t)
    <3>1. guest' = [guest EXCEPT ![t].at = "reporting"]
      BY <2>4 DEF Execute
    <3>2. "reporting" \in Places \ {"closing"}
      BY DEF Places
    <3>3. CASE s = t
      BY <1>0, <3>1, <3>2, <3>3 DEF GoesOn, Guests
    <3>4. CASE s # t
      BY <1>0, <1>1, <3>1, <3>4
    <3> QED BY <3>3, <3>4
  <2>5. CASE TurnedAway(t)
    BY <2>1, <2>2, <2>5 DEF TurnedAway
  <2>6. CASE LoseCall(t)
    BY <2>2, <2>6 DEF LoseCall
  <2>7. CASE PairUp(t) \/ Connect(t) \/ NotApproved(t) \/ GiveUpRevoke(t) \/ Crash(t)
    BY <2>1, <2>7 DEF PairUp, Connect, NotApproved, GiveUpRevoke, Crash
  <2>8. CASE Signal(t) \/ \E h \in Handlers : Send(t, h) \/ SendRevoke(t, h)
    BY <2>3, <2>8 DEF Signal, Send, SendRevoke
  <2> QED BY <1>4, <2>4, <2>5, <2>6, <2>7, <2>8 DEF Client, Learn, Ask, Interrupt
<1>5. ASSUME NEW h \in Handlers, ServeGuest(h) PROVE GoesOn(s)
  BY <1>5, ServeGoes
<1>6. CASE Elsewhere \/ UNCHANGED allVars
  BY <1>1, <1>6 DEF Elsewhere, guestVars, allVars
<1>7. CASE RestartUnder
  <2>1. \/ guest'[s] \in {guest[s], Idling("gone")}
        \/ guest'[s] = Onward(guest[s]) /\ Running(s) /\ Waiting(s, "main")
    BY <1>7 DEF RestartUnder
  <2>2. Running(s) /\ Waiting(s, "main") => Calling(s)
    BY DEF GInv, ClientOK, WaitsOK, Waiting
  <2> QED BY <1>1, <1>2, <1>3, <2>1, <2>2 DEF GoesOn
<1> QED BY <1>4, <1>5, <1>6, <1>7 DEF GuestNext

\* A handler serves a revocation because a client that is closing, or one that
\* was signalled, sent it.
LEMMA RevokeSent ==
  ASSUME AnswersInv, [GuestNext]_allVars, NEW h \in Handlers, Serving(h, "revoke")'
  PROVE  \/ conn'[h] = conn[h]
         \/ /\ conn'[h].s \in Sessions
            /\ At(conn'[h].s, "closing") \/ conn'[h].s \in signalled
<1>0. conn \in [Handlers -> Calls \cup {Idle}]
  BY DEF AnswersInv, IInv, RestOK
<1>1. CASE UNCHANGED conn
  BY <1>1
<1>2. ASSUME NEW g \in Handlers, Return(g) PROVE conn'[h] = conn[h]
  BY <1>0, <1>2 DEF Return, Serving, Idle
<1>3. ASSUME NEW s \in Sessions, NEW g \in Handlers, Send(s, g)
      PROVE  conn'[h] = conn[h] \/ (conn'[h].s = s /\ At(s, "closing"))
  BY <1>0, <1>3 DEF Send, Authenticate, Serving, Calling, Call, At
<1>4. ASSUME NEW s \in Sessions, NEW g \in Handlers, SendRevoke(s, g)
      PROVE  conn'[h] = conn[h] \/ (conn'[h].s = s /\ s \in signalled)
  BY <1>0, <1>4 DEF SendRevoke, Authenticate
<1>5. CASE Restart
  BY <1>5 DEF Restart, Serving, Idle
<1>6. \/ UNCHANGED conn
      \/ \E g \in Handlers : Return(g)
      \/ \E s \in Sessions, g \in Handlers : Send(s, g) \/ SendRevoke(s, g)
      \/ Restart
  BY DEF GuestNext, allVars, vars, PairUp, Pair, Client, Learn, Ask, Connect, Status, NotApproved,
         TurnedAway, Execute, LoseCall, Interrupt, Signal, GiveUpRevoke, Crash,
         ServeGuest, ServePoll, ServeAck, ServeResult, ServeRevoke, PollDeliver,
         PollEmpty, Ack, Result, Refuse, GuestRevoke, Elsewhere, Operator, Time,
         Approve, Reject, AdminRevoke, ConsumeResults, Enqueue, Age, Expire, Lapse,
         Janitor, RestartUnder
<1> QED BY <1>1, <1>2, <1>3, <1>4, <1>5, <1>6

LEMMA PurposeStep ==
  ASSUME AnswersInv, AnswersInv', GInv, [GuestNext]_allVars, PurposeOK
  PROVE  PurposeOK'
<1>0. [Next]_vars /\ ClientOK /\ guest \in [Sessions -> Guests]
  BY GuestStep DEF GInv, ClientOK, GuestTypes
<1>1. ASSUME NEW s \in Sessions, At(s, "closing")' PROVE Meant(s)'
  <2> SUFFICES Meant(s)
    BY MeantStep
  <2>1. CASE At(s, "closing")
    BY <2>1 DEF PurposeOK
  <2>2. CASE Calling(s) /\ guest'[s] = Onward(guest[s])
    <3>1. At(s, "closing") \/ (At(s, "reporting") /\ guest[s].last)
      BY <1>1, <2>2 DEF Calling, Call, Onward, Idling, At
    <3>2. CASE At(s, "reporting") /\ guest[s].last
      BY <1>0, <3>2 DEF PurposeOK, ClientOK, PlacesOK, Ran, Meant
    <3> QED BY <2>1, <3>1, <3>2
  <2> QED BY <1>1, <2>1, <2>2, GuestGoes DEF GoesOn, At
<1>2. ASSUME NEW s \in Sessions, guest'[s].last
      PROVE  guest'[s].c \in Commands /\ Ordered(s, guest[s].c)'
  <2>1. CASE guest[s].last /\ guest'[s].c = guest[s].c
    <3>1. guest[s].c \in Commands /\ Ordered(s, guest[s].c)
      BY <2>1 DEF PurposeOK
    <3>2. \A c \in Commands : Ordered(s, c) => Ordered(s, c)'
      BY <1>0, OrderedStep
    <3> QED BY <2>1, <3>1, <3>2 DEF Ordered
  <2>2. CASE Calling(s) /\ guest'[s] = Onward(guest[s])
    <3>1. guest'[s] = guest[s]
      BY <1>2, <2>2 DEF Calling, Call, Onward, Idling
    <3> QED BY <1>2, <2>1, <3>1
  <2>3. ASSUME NEW c \in Commands, guest'[s].c = c, p[s].payload[c] = Disconnect,
               p'[s].cmd[c] = "leased", Forward(p[s], p'[s])
        PROVE  Ordered(s, c)'
    BY <2>3 DEF Ordered, Forward, Moves
  <2> QED BY <1>2, <2>1, <2>2, <2>3, GuestGoes DEF GoesOn, Ordered
<1>3. ASSUME NEW h \in Handlers, Serving(h, "revoke")' PROVE Meant(conn[h].s)'
  <2>1. CASE conn'[h] = conn[h]
    <3>1. Serving(h, "revoke") /\ conn[h].s \in Sessions
      BY <1>3, <2>1, ServedReal DEF Serving, AnswersInv
    <3>2. Meant(conn[h].s)
      BY <3>1 DEF PurposeOK
    <3>3. \A s \in Sessions : Meant(s) => Meant(s)'
      BY MeantStep
    <3> QED BY <2>1, <3>1, <3>2, <3>3 DEF Meant, Ordered
  <2>2. ASSUME NEW s \in Sessions, conn'[h].s = s, At(s, "closing") \/ s \in signalled
        PROVE  Meant(s)'
    <3>1. Meant(s)
      BY <2>2 DEF PurposeOK, Meant
    <3> QED BY <3>1, MeantStep
  <2> QED BY <1>3, <2>1, <2>2, RevokeSent DEF Meant, Ordered
<1> QED BY <1>1, <1>2, <1>3 DEF PurposeOK

\* A revocation that the broker serves for a client was asked for: by Ctrl+C at
\* the client, or by a session.disconnect that it has run.  No expiry, refused
\* token, broken connection or restart makes a client revoke its session.
THEOREM PurposeCorrect == GuestSpec => []RevokesOnPurpose
<1>1. GuestInit => PurposeOK
  BY DEF GuestInit, Init, PurposeOK, At, Idling, Serving, Idle
<1>2. /\ AnswersInv /\ AnswersInv' /\ GInv /\ PurposeOK /\ [GuestNext]_allVars
         => PurposeOK'
  BY PurposeStep
<1>3. AnswersInv /\ PurposeOK => RevokesOnPurpose
  <2> SUFFICES ASSUME AnswersInv, PurposeOK, NEW h \in Handlers, Serving(h, "revoke")
               PROVE  \/ conn[h].s \in signalled
                      \/ \E c \in Commands : /\ runs[<<conn[h].s, c>>] # 0
                                              /\ p[conn[h].s].payload[c] = Disconnect
    BY DEF RevokesOnPurpose
  <2>1. Real(p[conn[h].s])
    BY ServedReal DEF AnswersInv, Serving
  <2> QED BY <2>1 DEF PurposeOK, Meant, Ordered, Real
<1> QED BY <1>1, <1>2, <1>3, GuestAnswers, GuestInvariance, PTL DEF GuestSpec
===============================================================================
