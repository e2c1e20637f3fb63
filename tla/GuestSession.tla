---------------------------- MODULE GuestSession ----------------------------
(***************************************************************************)
(* The portable client of cmd/bridge-client together with the broker: one  *)
(* client per session, which pairs, polls, acknowledges, executes and      *)
(* reports commands one after the other, over a connection that may lose   *)
(* any request or answer, or time out while the broker still works on it.  *)
(*                                                                         *)
(* A request is served by a handler of Broker.  Its caller is the client's *)
(* main loop, the goroutine that waits for Ctrl+C, or nobody any more: the *)
(* client gave up, but the handler carries on.  So an answer that is lost  *)
(* is a call given up before its handler returned.                         *)
(***************************************************************************)
EXTENDS Broker

CONSTANTS
  Disconnect,   \* the payload of session.disconnect
  NoCommand     \* the body of a request that names no command

ASSUME GuestAssumption ==
  /\ Disconnect \in Control
  /\ NoCommand \notin Commands

VARIABLES
  guest,      \* where the main loop of each client is, and with which command
  caller,     \* who waits for the answer of each handler
  body,       \* the command that the request of each handler names
  signalled,  \* sessions whose client got Ctrl+C or a termination signal
  runs        \* history: how often each command was executed

guestVars == <<guest, caller, body, signalled, runs>>
allVars == <<p, live, disk, conn, aged, expired, lapsed, restarts, told,
             guest, caller, body, signalled, runs>>

\* "disconnected" has printed "session token revoked", "gone" has ended
\* without it.
Ended == {"disconnected", "gone"}
Places == {"new", "pairing", "polling", "acking", "executing", "reporting",
           "closing"} \cup Ended

\* last: the command at hand is session.disconnect.
Guests == [at : Places, c : Commands \cup {NoCommand}, last : BOOLEAN]
Idling(place) == [at |-> place, c |-> NoCommand, last |-> FALSE]

At(s, place) == guest[s].at = place
Running(s) == guest[s].at \notin Ended \cup {"new"}

\* A caller of session s waits for the answer of handler h.
Waits(s, who, h) == conn[h] # Idle /\ conn[h].s = s /\ caller[h] = who
Waiting(s, who) == \E h \in Handlers : Waits(s, who, h)

GuestInit ==
  /\ Init
  /\ guest = [s \in Sessions |-> Idling("new")]
  /\ caller = [h \in Handlers |-> "nobody"]
  /\ body = [h \in Handlers |-> NoCommand]
  /\ signalled = {}
  /\ runs = [sc \in Sessions \X Commands |-> 0]

-----------------------------------------------------------------------------
(* Pairing.                                                                *)

Become(s, g) == guest' = [guest EXCEPT ![s] = g]

PairUp(s) ==
  /\ At(s, "new")
  /\ Pair(s)
  /\ Become(s, Idling("pairing"))
  /\ UNCHANGED <<caller, body, signalled, runs>>

Connect(s) ==
  /\ At(s, "pairing")
  /\ Status(s)
  /\ Become(s, Idling(IF p[s].status = "approved" THEN "polling" ELSE "gone"))
  /\ UNCHANGED <<caller, body, signalled, runs>>

\* The status is rejected or unknown, or the session is over already.
NotApproved(s) ==
  /\ At(s, "pairing")
  /\ \/ s \notin live
     \/ p[s].status \in {"rejected", "revoked"}
     \/ p[s].status = "approved" /\ s \in expired
  /\ Become(s, Idling("gone"))
  /\ UNCHANGED <<vars, caller, body, signalled, runs>>

-----------------------------------------------------------------------------
(* The main loop.                                                          *)

\* Fault: an acknowledgement that fails is taken for one that was lost.
OnwardExecutes(g) ==
  CASE g.at = "polling" -> g
    [] g.at = "acking" -> [g EXCEPT !.at = "executing"]
    [] g.at = "reporting" -> Idling(IF g.last THEN "closing" ELSE "polling")
    [] g.at = "closing" -> Idling("disconnected")

\* Where the loop goes from a call that brought no command or permission: it
\* polls again, does not execute what was not acknowledged, and ignores the
\* outcome of a report and of the last revocation.
Onward(g) ==
  CASE g.at = "polling" -> g
    [] g.at = "acking" -> Idling("polling")
    [] g.at = "reporting" -> Idling(IF g.last THEN "closing" ELSE "polling")
    [] g.at = "closing" -> Idling("disconnected")

\* The call that the loop makes at each place.
Call == [polling |-> "poll", acking |-> "ack", reporting |-> "result",
         closing |-> "revoke"]
Calling(s) == guest[s].at \in DOMAIN Call

\* The request reaches the broker, which accepts its token.
Send(s, h) ==
  /\ Calling(s)
  /\ ~Waiting(s, "main")
  /\ Authenticate(h, Call[guest[s].at], s)
  /\ caller' = [caller EXCEPT ![h] = "main"]
  /\ body' = [body EXCEPT ![h] = guest[s].c]
  /\ UNCHANGED <<guest, signalled, runs>>

\* session() finds the token, and it is still good.
Honoured(s) ==
  /\ s \in live
  /\ p[s].token # 0
  /\ p[s].token = told.token[s]
  /\ p[s].status = "approved"
  /\ s \notin expired

\* Fault: the loop ends with a revocation, whatever ended it.
TurnedAwayRevokes(s) ==
  /\ Calling(s)
  /\ ~Waiting(s, "main")
  /\ ~Honoured(s)
  /\ Become(s, IF At(s, "polling") THEN Idling("closing") ELSE Onward(guest[s]))
  /\ UNCHANGED <<vars, caller, body, signalled, runs>>

\* Fault: a poll is repeated whatever the broker answers.
TurnedAwayRetries(s) ==
  /\ Calling(s)
  /\ ~Waiting(s, "main")
  /\ ~Honoured(s)
  /\ Become(s, Onward(guest[s]))
  /\ UNCHANGED <<vars, caller, body, signalled, runs>>

\* 401, or the client's own look at the clock: a poll ends the loop, and the
\* client does not revoke.
TurnedAway(s) ==
  /\ Calling(s)
  /\ ~Waiting(s, "main")
  /\ ~Honoured(s)
  /\ Become(s, IF At(s, "polling") THEN Idling("gone") ELSE Onward(guest[s]))
  /\ UNCHANGED <<vars, caller, body, signalled, runs>>

\* Fault: the client hangs up, and still takes the answer when it comes.
LoseCallKept(s) ==
  /\ Calling(s)
  /\ Become(s, Onward(guest[s]))
  /\ UNCHANGED <<vars, caller, body, signalled, runs>>

\* The request or its answer is lost, or the client hangs up after 35 s; the
\* handler, if there is one, goes on.
LoseCall(s) ==
  /\ Calling(s)
  /\ Become(s, Onward(guest[s]))
  /\ caller' = [h \in Handlers |-> IF Waits(s, "main", h) THEN "nobody"
                                                         ELSE caller[h]]
  /\ UNCHANGED <<vars, body, signalled, runs>>

\* local.Execute comes back.  It need not: a program's time limit ends the
\* program, but Run waits for everyone who holds its output (see OneShot).
Execute(s) ==
  /\ At(s, "executing")
  /\ guest' = [guest EXCEPT ![s].at = "reporting"]
  /\ runs' = [runs EXCEPT ![<<s, guest[s].c>>] = @ + 1]
  /\ UNCHANGED <<vars, caller, body, signalled>>

-----------------------------------------------------------------------------
(* Ctrl+C, and the end of the process.                                     *)

\* The goroutine listens until the loop is left.
Signal(s) ==
  /\ guest[s].at \in {"polling", "acking", "executing", "reporting"}
  /\ s \notin signalled
  /\ signalled' = signalled \cup {s}
  /\ UNCHANGED <<vars, guest, caller, body, runs>>

\* It revokes the session while the main loop carries on ...
SendRevoke(s, h) ==
  /\ Running(s)
  /\ s \in signalled
  /\ ~Waiting(s, "signal")
  /\ Authenticate(h, "revoke", s)
  /\ caller' = [caller EXCEPT ![h] = "signal"]
  /\ UNCHANGED <<guest, body, signalled, runs>>

\* ... and ends the process after its only attempt, also when that was lost
\* or refused.
GiveUpRevoke(s) ==
  /\ Running(s)
  /\ s \in signalled
  /\ Become(s, Idling("gone"))
  /\ UNCHANGED <<vars, caller, body, signalled, runs>>

\* The window is closed, the machine is switched off, or pairing ran into an
\* error, which is fatal.
Crash(s) ==
  /\ Running(s)
  /\ Become(s, Idling("gone"))
  /\ UNCHANGED <<vars, caller, body, signalled, runs>>

-----------------------------------------------------------------------------
(* The broker serves the clients' requests.                                *)

\* Handler h answers: its caller moves on, if it is still there.
Answer(h, g) ==
  LET s == conn[h].s IN
  /\ guest' = CASE caller[h] = "main" /\ Running(s) -> [guest EXCEPT ![s] = g]
                [] caller[h] = "signal" /\ Running(s) ->
                     [guest EXCEPT ![s] = Idling("gone")]
                [] OTHER -> guest
  /\ caller' = [caller EXCEPT ![h] = "nobody"]
  /\ body' = [body EXCEPT ![h] = NoCommand]
  /\ UNCHANGED <<signalled, runs>>

\* The command that a poll just leased: the head of the queue, or the overdue
\* one that came first into an empty queue.
Delivers(s, c) ==
  /\ p'[s].cmd[c] = "leased"
  /\ IF p[s].queue # <<>> THEN c = Head(p[s].queue) ELSE c \in Overdue(s)

\* 200 with the command when the lease was saved, 500 when it was not.
ServePoll(h) ==
  \/ /\ PollDeliver(h)
     /\ LET s == conn[h].s IN
        IF conn'[h] # Idle THEN UNCHANGED guestVars
        ELSE \/ /\ disk' = Snapshot(p', live)
                /\ \E c \in Commands :
                     /\ Delivers(s, c)
                     /\ Answer(h, [at |-> "acking", c |-> c,
                                   last |-> p[s].payload[c] = Disconnect])
             \/ /\ disk' = disk
                /\ Answer(h, Onward(guest[s]))
  \/ /\ PollEmpty(h)
     /\ Answer(h, Onward(guest[conn[h].s]))

\* Only a 200 lets the client execute the command.
ServeAck(h) ==
  LET s == conn[h].s
      c == body[h]
  IN  \/ /\ Serving(h, "ack") /\ c \in Commands /\ Ack(h, c)
         /\ Answer(h, IF <<s, c>> \in told'.started
                        THEN [guest[s] EXCEPT !.at = "executing"]
                        ELSE Onward(guest[s]))
      \/ /\ Serving(h, "ack") /\ Refuse(h)
         /\ Answer(h, Onward(guest[s]))

ServeResult(h) ==
  /\ Serving(h, "result")
  /\ (body[h] \in Commands /\ Result(h, body[h])) \/ Refuse(h)
  /\ Answer(h, Onward(guest[conn[h].s]))

ServeRevoke(h) ==
  /\ GuestRevoke(h)
  /\ Answer(h, Onward(guest[conn[h].s]))

ServeGuest(h) == ServePoll(h) \/ ServeAck(h) \/ ServeResult(h) \/ ServeRevoke(h)

\* The broker dies: every call in progress ends with an error.
RestartUnder ==
  /\ Restart
  /\ guest' = [s \in Sessions |->
                 CASE Running(s) /\ Waiting(s, "signal") -> Idling("gone")
                   [] Running(s) /\ ~Waiting(s, "signal") /\ Waiting(s, "main") ->
                        Onward(guest[s])
                   [] OTHER -> guest[s]]
  /\ caller' = [h \in Handlers |-> "nobody"]
  /\ body' = [h \in Handlers |-> NoCommand]
  /\ UNCHANGED <<signalled, runs>>

-----------------------------------------------------------------------------
\* The client learns what became of its pairing request.
Learn(s) == Connect(s) \/ NotApproved(s)

\* A call of the main loop reaches the broker, or its refusal the client.
Ask(s) == TurnedAway(s) \/ \E h \in Handlers : Send(s, h)

\* What the client does by itself, one step after the other.
Client(s) == Learn(s) \/ Ask(s) \/ Execute(s)

Interrupt(s) ==
  Signal(s) \/ GiveUpRevoke(s) \/ \E h \in Handlers : SendRevoke(s, h)

Elsewhere == (Operator \/ Time \/ Janitor) /\ UNCHANGED guestVars

GuestNext ==
  \/ \E s \in Sessions :
       PairUp(s) \/ Client(s) \/ LoseCall(s) \/ Interrupt(s) \/ Crash(s)
  \/ \E h \in Handlers : ServeGuest(h)
  \/ Elsewhere
  \/ RestartUnder

GuestSpec == GuestInit /\ [][GuestNext]_allVars

(***************************************************************************)
(* Fairness.  Nothing is assumed of the disk, the operator, the programs   *)
(* that a client executes, or the process's life.                          *)
(***************************************************************************)

\* Every call of the client ends: with the broker's answer, with an error, or
\* after 35 s.  An error while pairing is fatal and one of an acknowledgement, a
\* report or a revocation sends the loop on (Crash, LoseCall), so for these this
\* asks nothing of the network.  A poll is repeated until it is answered: of
\* polls without end, one reaches the broker, and a refusal the client.
FairNetwork == \A s \in Sessions : WF_allVars(Learn(s)) /\ WF_allVars(Ask(s))

\* A handler that serves a request is scheduled and takes the mutex, and leases
\* run out by the clock.
FairBroker ==
  /\ \A h \in Handlers : WF_allVars(ServeGuest(h))
  /\ \A s \in Sessions, c \in Commands : WF_allVars(Lapse(s, c) /\ UNCHANGED guestVars)

GuestFairness == FairNetwork /\ FairBroker

LiveGuestSpec == GuestSpec /\ GuestFairness

-----------------------------------------------------------------------------
(* Properties.                                                             *)

\* Values of the client's variables; a caller of the main loop waits for the
\* call that belongs to the place the loop is at, about its own command.
GuestTypeOK ==
  /\ TypeOK
  /\ guest \in [Sessions -> Guests]
  /\ caller \in [Handlers -> {"main", "signal", "nobody"}]
  /\ body \in [Handlers -> Commands \cup {NoCommand}]
  /\ signalled \subseteq Sessions
  /\ runs \in [Sessions \X Commands -> Nat]
  /\ \A s \in Sessions, h \in Handlers :
       Running(s) /\ Waits(s, "main", h) =>
         /\ Calling(s)
         /\ conn[h].op = Call[guest[s].at]
         /\ body[h] = guest[s].c

Lifecycle == INSTANCE CommandLifecycle
               WITH started <- told.started, accepted <- told.accepted

\* Client and broker together implement CommandLifecycle: whatever is lost,
\* late or repeated, a command is run at most once and only if it was started,
\* and only the result of a command that was run is accepted.
AtMostOnce == Lifecycle!Spec

\* While a client executes a command the broker holds it as running, or has
\* forgotten the session: no late handler, lapsed lease or restart takes the
\* command back or completes it under the client.
RunsAtBroker ==
  \A s \in Sessions :
    At(s, "executing") =>
      p[s].status = "gone" \/ p[s].cmd[guest[s].c] = "running"

\* A client revokes its session only after Ctrl+C or session.disconnect; an
\* expiry, a rejected token or a broken connection does not make it revoke.
RevokesOnPurpose ==
  \A h \in Handlers :
    Serving(h, "revoke") =>
      LET s == conn[h].s IN
      \/ s \in signalled
      \/ \E c \in Commands : runs[<<s, c>>] # 0 /\ p[s].payload[c] = Disconnect

\* Every command that the client executes comes back: the antecedent of what is
\* promised of its only loop.
CommandsReturn(s) == []<>~At(s, "executing")

\* A client whose session is over does not poll for ever: it ends, unless a
\* broker that was restarted brings the session back or a command hangs.
GuestLeaves ==
  \A s \in Sessions : CommandsReturn(s) =>
    (Running(s) /\ ~At(s, "pairing") /\ ~Active(s) ~> ~Running(s) \/ Active(s))

\* As long as its client lives and no command hangs, no queued command of an
\* active session is passed over for ever, whichever saves fail and however
\* often answers are lost and leases run out.
QueuedIsOffered ==
  \A s \in Sessions, c \in Commands : CommandsReturn(s) =>
    (Active(s) /\ p[s].cmd[c] = "queued"
       ~> p[s].cmd[c] # "queued" \/ ~Active(s) \/ ~Running(s))

\* A delivery that was not acknowledged in time goes back to the queue: its
\* lease does not stay overdue while the session and its client live and no
\* command hangs.
OverdueReturns ==
  \A s \in Sessions, c \in Commands : CommandsReturn(s) =>
    (Active(s) /\ <<s, c>> \in lapsed
       ~> <<s, c>> \notin lapsed \/ ~Active(s) \/ ~Running(s))

\* No command waits for ever, in the queue or in a lease that ran out, unless the
\* client hangs in another one.
CommandsGoOn == QueuedIsOffered /\ OverdueReturns

\* Every guest request is answered, the long poll of an idle session included.
CallsReturn == \A h \in Handlers : conn[h] # Idle ~> conn[h] = Idle
=============================================================================
