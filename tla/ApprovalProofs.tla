---------------------------- MODULE ApprovalProofs ----------------------------
(***************************************************************************)
(* Approval by chat, for any number of requests, prompts and callbacks.    *)
(* Its steps are steps of the broker, so what BrokerProofs shows holds of  *)
(* it.  A decision is taken of a pending request only, and no other step   *)
(* of the broker makes a decided request pending again (Calm): that is     *)
(* what keeps concurrent callbacks from deciding twice.                    *)
(***************************************************************************)
EXTENDS Approval, BrokerProofs

LEMMA OutcomeValues ==
  /\ Actions = {"approve", "reject"}
  /\ Outcome["approve"] = "approved" /\ Outcome["reject"] = "rejected"
  BY DEF Actions, Outcome

-----------------------------------------------------------------------------
(* Types.                                                                  *)

LEMMA HandlerType ==
  ASSUME ApprovalTypeOK, NEW k \in Callbacks, callback[k] # NoCallback
  PROVE  /\ callback[k] \in Handling
         /\ callback[k].s \in Sessions /\ callback[k].action \in Actions
         /\ callback[k].i \in DOMAIN prompts[callback[k].s]
<1>1. callback[k] \in Handling
  BY DEF ApprovalTypeOK
<1> QED BY <1>1 DEF ApprovalTypeOK, Handling

LEMMA Handled ==
  ASSUME ApprovalTypeOK, NEW k \in Callbacks,
         NEW S \in SUBSET {"missing", "mismatch", "found", "sent", "abandoned", "done"}, Handler(k, S)
  PROVE  callback[k] # NoCallback
  BY DEF Handler, NoCallback, Stages

\* One callback moves to a later stage; prompts stay.
LEMMA StageType ==
  ASSUME ApprovalTypeOK, NEW k \in Callbacks, NEW g \in Handling,
         g.i \in DOMAIN prompts[g.s],
         callback' = [callback EXCEPT ![k] = g],
         UNCHANGED <<prompts, todo, posted, marked>>,
         decisions' \in [Sessions -> Seq(Actions)]
  PROVE  ApprovalTypeOK'
<1>1. callback' \in [Callbacks -> Handling \cup {NoCallback}]
  BY DEF ApprovalTypeOK
<1>2. ASSUME NEW q \in Callbacks, callback'[q] # NoCallback
      PROVE  callback'[q].i \in DOMAIN prompts'[callback'[q].s]
  <2>1. CASE q = k
    BY <2>1 DEF ApprovalTypeOK
  <2>2. CASE q # k
    <3>1. callback'[q] = callback[q]
      BY <2>2 DEF ApprovalTypeOK
    <3> QED BY <1>2, <3>1 DEF ApprovalTypeOK, Handler
  <2> QED BY <2>1, <2>2
<1> QED BY <1>1, <1>2 DEF ApprovalTypeOK, Handler

\* A step that only moves one callback.
LEMMA MoveType ==
  ASSUME ApprovalTypeOK, NEW k \in Callbacks,
         UNCHANGED <<prompts, todo, posted, marked, decisions>>,
         \/ Leave(k)
         \/ \E stage \in {"sent", "abandoned", "done"} :
              callback[k] # NoCallback /\ Go(k, stage)
  PROVE  ApprovalTypeOK'
<1>1. CASE Leave(k)
  BY <1>1 DEF ApprovalTypeOK, Leave, Handler
<1>2. ASSUME NEW stage \in {"sent", "abandoned", "done"},
             callback[k] # NoCallback, Go(k, stage)
      PROVE  ApprovalTypeOK'
  <2>1. callback[k] \in Handling
    BY <1>2, HandlerType
  <2> DEFINE g == [callback[k] EXCEPT !.at = stage]
  <2>2. g \in Handling /\ g.s = callback[k].s /\ g.i = callback[k].i
    BY <1>2, <2>1 DEF Handling, Stages
  <2>3. callback' = [callback EXCEPT ![k] = g]
    BY <1>2 DEF Go
  <2>4. decisions' \in [Sessions -> Seq(Actions)]
    BY DEF ApprovalTypeOK
  <2>5. g.i \in DOMAIN prompts[g.s]
    BY <1>2, <2>2, HandlerType
  <2> HIDE DEF g
  <2> QED BY <2>2, <2>3, <2>4, <2>5, StageType
<1> QED BY <1>1, <1>2

LEMMA EditType ==
  ASSUME ApprovalTypeOK, NEW k \in Callbacks, callback[k] # NoCallback,
         NEW text \in Shows, Edit(k, text)
  PROVE  ApprovalTypeOK'
<1> DEFINE s == callback[k].s
           i == callback[k].i
<1>1. s \in Sessions /\ i \in DOMAIN prompts[s] /\ prompts[s] \in Seq(Shows)
  BY HandlerType DEF ApprovalTypeOK
<1>2. [prompts[s] EXCEPT ![i] = text] \in Seq(Shows)
  BY <1>1
<1>3. DOMAIN [prompts[s] EXCEPT ![i] = text] = DOMAIN prompts[s]
  OBVIOUS
<1>4. /\ prompts' = [prompts EXCEPT ![s] = [prompts[s] EXCEPT ![i] = text]]
      /\ callback' = [callback EXCEPT ![k] = NoCallback]
      /\ UNCHANGED <<todo, posted, marked, decisions>>
  BY DEF Edit, Leave
<1>5. prompts' \in [Sessions -> Seq(Shows)]
  BY <1>1, <1>2, <1>4 DEF ApprovalTypeOK
<1>6. \A t \in Sessions : DOMAIN prompts'[t] = DOMAIN prompts[t]
  BY <1>1, <1>3, <1>4 DEF ApprovalTypeOK
<1> QED BY <1>1, <1>4, <1>5, <1>6, HandlerType DEF ApprovalTypeOK, Handler

LEMMA DecideType ==
  ASSUME ApprovalTypeOK, NEW s \in Sessions, NEW action \in Actions, Decide(s, action)
  PROVE  decisions' \in [Sessions -> Seq(Actions)]
<1>1. Append(decisions[s], action) \in Seq(Actions)
  BY DEF ApprovalTypeOK
<1> QED BY <1>1 DEF ApprovalTypeOK, Decide

LEMMA NotifierType ==
  ASSUME ApprovalTypeOK, Notifier
  PROVE  ApprovalTypeOK'
<1>1. CASE List \/ Mark \/ Abort
  BY <1>1 DEF List, Mark, Abort, ApprovalTypeOK, Handler
<1>2. ASSUME NEW s \in Sessions, Skip(s) PROVE ApprovalTypeOK'
  BY <1>2 DEF Skip, ApprovalTypeOK, Handler
<1>3. ASSUME NEW s \in Sessions, Post(s) PROVE ApprovalTypeOK'
  <2>1. prompts[s] \in Seq(Shows) /\ "buttons" \in Shows
    BY DEF ApprovalTypeOK, Shows
  <2>2. /\ Append(prompts[s], "buttons") \in Seq(Shows)
        /\ DOMAIN prompts[s] \subseteq DOMAIN Append(prompts[s], "buttons")
    BY <2>1
  <2>3. /\ prompts' = [prompts EXCEPT ![s] = Append(prompts[s], "buttons")]
        /\ todo' = todo \ {s} /\ posted' = {s}
        /\ UNCHANGED <<callback, marked, decisions>>
    BY <1>3 DEF Post
  <2>4. \A t \in Sessions : DOMAIN prompts[t] \subseteq DOMAIN prompts'[t]
    BY <2>2, <2>3 DEF ApprovalTypeOK
  <2>5. prompts' \in [Sessions -> Seq(Shows)]
    BY <2>2, <2>3 DEF ApprovalTypeOK
  <2> QED BY <2>3, <2>4, <2>5, HandlerType DEF ApprovalTypeOK, Handler
<1> QED BY <1>1, <1>2, <1>3 DEF Notifier

LEMMA PluginType ==
  ASSUME ApprovalTypeOK, NEW k \in Callbacks, Plugin(k)
  PROVE  ApprovalTypeOK'
<1>1. CASE ShowExpired(k) \/ ShowMismatch(k) \/ ShowOutcome(k)
  <2>1. callback[k] # NoCallback
    BY <1>1, Handled DEF ShowExpired, ShowMismatch, ShowOutcome
  <2>2. Outcome[callback[k].action] \in Shows
    BY <2>1, HandlerType, OutcomeValues DEF Shows
  <2>3. "expired" \in Shows /\ "mismatch" \in Shows
    BY DEF Shows
  <2> QED BY <1>1, <2>1, <2>2, <2>3, EditType DEF ShowExpired, ShowMismatch, ShowOutcome
<1>2. CASE SendDecision(k) \/ RefuseDecision(k) \/ Drop(k) \/ Timeout(k)
  <2>1. SendDecision(k) \/ Timeout(k) => callback[k] # NoCallback
    BY Handled DEF SendDecision, Timeout, Stages
  <2> QED BY <1>2, <2>1, MoveType DEF SendDecision, RefuseDecision, Drop, Timeout
<1>3. CASE ServeDecision(k)
  <2>1. callback[k] # NoCallback
    BY <1>3, Handled DEF ServeDecision, Stages
  <2>2. decisions' \in [Sessions -> Seq(Actions)]
    BY <1>3, <2>1, HandlerType, DecideType DEF ServeDecision
  <2>3. UNCHANGED <<prompts, todo, posted, marked>>
    BY <1>3 DEF ServeDecision
  <2>4. CASE Leave(k)
    BY <2>2, <2>3, <2>4 DEF ApprovalTypeOK, Leave, Handler
  <2>5. CASE Go(k, "done")
    <3> DEFINE g == [callback[k] EXCEPT !.at = "done"]
    <3>1. g \in Handling /\ g.s = callback[k].s /\ g.i = callback[k].i
      BY <2>1, HandlerType DEF Handling, Stages
    <3>2. callback' = [callback EXCEPT ![k] = g]
      BY <2>5 DEF Go
    <3>3. g.i \in DOMAIN prompts[g.s]
      BY <2>1, <3>1, HandlerType
    <3> HIDE DEF g
    <3> QED BY <2>2, <2>3, <3>1, <3>2, <3>3, StageType
  <2> QED BY <1>3, <2>4, <2>5 DEF ServeDecision
<1>4. ASSUME NEW s \in Sessions, NEW action \in Actions,
             NEW i \in DOMAIN prompts[s], Look(k, s, i, action)
      PROVE  ApprovalTypeOK'
  <2>1. i \in Nat
    BY DEF ApprovalTypeOK
  <2>2. PICK stage \in {"found", "mismatch", "missing"} :
          callback' = [callback EXCEPT ![k] = [at |-> stage, s |-> s, i |-> i,
                                               action |-> action]]
    BY <1>4 DEF Look
  <2> QED BY <1>4, <2>1, <2>2 DEF Look, ApprovalTypeOK, Handling, Stages
<1> QED BY <1>1, <1>2, <1>3, <1>4 DEF Plugin

LEMMA TypeStep == ApprovalTypeOK /\ [ApprovalNext]_approvalVars => ApprovalTypeOK'
<1> SUFFICES ASSUME ApprovalTypeOK, [ApprovalNext]_approvalVars PROVE ApprovalTypeOK'
  OBVIOUS
<1>1. CASE CommandLine
  BY <1>1, DecideType DEF CommandLine, chatVars, ApprovalTypeOK, Handler
<1>2. CASE Undecided \/ UNCHANGED approvalVars
  BY <1>2 DEF Undecided, approvalVars, ApprovalTypeOK, Handler
<1> QED BY <1>1, <1>2, NotifierType, PluginType DEF ApprovalNext

LEMMA TypeInit == ApprovalInit => ApprovalTypeOK
  BY DEF ApprovalInit, ApprovalTypeOK, Handler, NoCallback

\* Callbacks stay on their prompts (approval-handler.js), for any number of
\* callbacks and of prompts for one request.
THEOREM ApprovalTypeCorrect == ApprovalSpec => []ApprovalTypeOK
  BY TypeInit, TypeStep, PTL DEF ApprovalSpec

-----------------------------------------------------------------------------
(* The broker's steps.                                                     *)

LEMMA DecideStep ==
  ASSUME NEW s \in Sessions, NEW action \in Actions, Decide(s, action)
  PROVE  Operator
  BY DEF Decide, Operator

LEMMA UndecidedStep == Undecided => Next
  BY DEF Undecided, Next, Operator

LEMMA BrokerStep == ApprovalTypeOK /\ [ApprovalNext]_approvalVars => [Next]_vars
<1> SUFFICES ASSUME ApprovalTypeOK, [ApprovalNext]_approvalVars PROVE [Next]_vars
  OBVIOUS
<1>1. CASE Notifier
  BY <1>1 DEF Notifier, List, Mark, Abort, Skip, Post
<1>2. ASSUME NEW k \in Callbacks, Plugin(k) PROVE [Next]_vars
  <2>1. CASE ServeDecision(k)
    <3>1. callback[k].s \in Sessions /\ callback[k].action \in Actions
      BY <2>1, Handled, HandlerType DEF ServeDecision
    <3> QED BY <2>1, <3>1, DecideStep DEF ServeDecision, Next
  <2> QED BY <1>2, <2>1 DEF Plugin, ShowExpired, ShowMismatch, SendDecision,
            RefuseDecision, ShowOutcome, Drop, Timeout, Edit, Look
<1>3. CASE CommandLine
  BY <1>3, DecideStep DEF CommandLine, Next
<1>4. CASE UNCHANGED approvalVars
  BY <1>4 DEF approvalVars, vars
<1> QED BY <1>1, <1>2, <1>3, <1>4, UndecidedStep DEF ApprovalNext

\* The chat only uses the broker through its requests: every theorem of
\* BrokerProofs holds with notifier and plugin at work.
THEOREM ApprovalIsBroker == ApprovalSpec => Spec
<1>1. ApprovalInit => Init
  BY DEF ApprovalInit
<1> QED BY <1>1, BrokerStep, ApprovalTypeCorrect, PTL DEF ApprovalSpec, Spec

-----------------------------------------------------------------------------
(* Decisions.                                                              *)

\* A status agrees with the decision on its request; "none" is also what the
\* file says of an entry that it has not.
Agrees(status, decision) ==
  /\ status = "pending" => decision = <<>>
  /\ status = "approved" => decision = <<"approve">>
  /\ status = "rejected" => decision = <<"reject">>

DecisionsOK ==
  \A s \in Sessions :
    /\ decisions[s] \in {<<>>, <<"approve">>, <<"reject">>}
    /\ p[s].status = "none" => decisions[s] = <<>>
    /\ Agrees(p[s].status, decisions[s])
    /\ Agrees(disk[s].status, decisions[s])

\* What a step of the broker that takes no decision does to a status.
Calm(s) ==
  LET was == p[s].status
      is == p'[s].status
  IN  /\ \/ is \in {was, "revoked", "gone"}
         \/ was = "none" /\ is = "pending"
         \/ is # "none" /\ is = disk[s].status
      /\ disk'[s].status \in {disk[s].status, is, "none"}

LEMMA SnapshotStatus ==
  ASSUME p' \in [Sessions -> Entry], NEW keys, NEW s \in Sessions
  PROVE  Snapshot(p', keys)[s].status = IF s \in keys THEN p'[s].status ELSE "none"
  BY DEF Snapshot, NoEntry, Entry

\* An entry was written that keeps its status or is revoked.
LEMMA CalmWrite ==
  ASSUME EntriesOK, EntriesOK', NEW s \in Sessions, NEW e,
         e.status \in {p[s].status, "revoked"} \/ (p[s].status = "none" /\ e.status = "pending"),
         p' = [p EXCEPT ![s] = e],
         NEW keys, disk' = Snapshot(p', keys) \/ disk' = disk
  PROVE  \A t \in Sessions : Calm(t)
<1> SUFFICES ASSUME NEW t \in Sessions PROVE Calm(t)
  OBVIOUS
<1>1. p \in [Sessions -> Entry] /\ p' \in [Sessions -> Entry]
  BY DEF EntriesOK
<1>2. p'[t] = IF t = s THEN e ELSE p[t]
  BY <1>1
<1>3. \/ p'[t].status \in {p[t].status, "revoked"}
      \/ p[t].status = "none" /\ p'[t].status = "pending"
  BY <1>2
<1>4. disk'[t].status \in {disk[t].status, p'[t].status, "none"}
  <2>1. CASE disk' = disk
    <3>1. disk'[t].status = disk[t].status
      BY <2>1, Zenon
    <3> QED BY <3>1
  <2>2. CASE disk' = Snapshot(p', keys)
    <3>1. disk'[t] = IF t \in keys THEN [p'[t] EXCEPT !.clear = 0] ELSE NoEntry("none")
      BY <2>2 DEF Snapshot
    <3>2. CASE t \in keys
      <4>1. p'[t] \in Entry
        BY <1>1
      <4>2. disk'[t].status = p'[t].status
        BY <3>1, <3>2, <4>1 DEF Entry
      <4> QED BY <4>2
    <3>3. CASE t \notin keys
      <4>1. disk'[t].status = "none"
        BY <3>1, <3>3 DEF NoEntry
      <4> QED BY <4>1
    <3> QED BY <3>2, <3>3
  <2> QED BY <2>1, <2>2
<1> QED BY <1>3, <1>4 DEF Calm

LEMMA CalmStatus ==
  ASSUME NEW e \in Entry
  PROVE  /\ Consumed(e).status = e.status
         /\ RevokedByAdmin(e).status = "revoked"
         /\ RevokedByGuest(e).status = "revoked"
         /\ Reissued(e).status = e.status
         /\ \A c \in Commands : /\ Acknowledged(e, c).status = e.status
                                /\ Completed(e, c).status = e.status
                                /\ \A pl \in Payloads : Enqueued(e, c, pl).status = e.status
         /\ \A order : Popped(Requeued(e, order)).status = e.status
  BY DEF Entry, Consumed, RevokedByAdmin, RevokedByGuest, Reissued, Acknowledged,
         Completed, Enqueued, Popped, Requeued

LEMMA UndecidedCalm ==
  ASSUME IInv, EntriesOK', Undecided
  PROVE  \A s \in Sessions : Calm(s)
<1> DEFINE C == \A s \in Sessions : Calm(s)
<1>0. EntriesOK /\ \A s \in Sessions : p[s] \in Entry
  BY DEF IInv, EntriesOK
<1>1. ASSUME NEW s \in Sessions, AdminRevoke(s) \/ ConsumeResults(s) PROVE C
  BY <1>0, <1>1, CalmStatus, CalmWrite DEF AdminRevoke, ConsumeResults, Saved, Unsaved
<1>2. ASSUME NEW s \in Sessions, NEW c \in Commands, NEW pl \in Payloads,
             Enqueue(s, c, pl)
      PROVE  C
  BY <1>0, <1>2, CalmStatus, CalmWrite DEF Enqueue, Saved
<1>3. ASSUME UNCHANGED <<p, disk>> PROVE C
  BY <1>3 DEF Calm
<1>4. CASE Guest
  <2>1. ASSUME NEW s \in Sessions, Pair(s) PROVE C
    <3>1. NewEntry.status = "pending"
      BY DEF NewEntry, NoEntry
    <3> QED BY <1>0, <2>1, <3>1, CalmWrite DEF Pair
  <2>2. ASSUME NEW s \in Sessions, Status(s) PROVE C
    BY <1>0, <1>3, <2>2, CalmStatus, CalmWrite DEF Status, Saved
  <2>3. ASSUME NEW s \in Sessions, NEW h \in Handlers, NEW op, Authenticate(h, op, s)
        PROVE  C
    BY <1>3, <2>3 DEF Authenticate
  <2> QED BY <1>4, <2>1, <2>2, <2>3 DEF Guest
<1>5. ASSUME NEW h \in Handlers, Serve(h) PROVE C
  <2>0. conn[h] # Idle => conn[h].s \in Sessions
    BY DEF IInv, RestOK, Calls
  <2>1. CASE PollEmpty(h) \/ Refuse(h)
    BY <1>3, <2>1 DEF PollEmpty, Refuse
  <2>2. CASE PollDeliver(h)
    <3>1. conn[h].s \in Sessions
      BY <2>0, <2>2 DEF PollDeliver, Serving, Idle
    <3>2. PICK order \in SetToSeqs(Overdue(conn[h].s)) :
            LET e == Popped(Requeued(p[conn[h].s], order)) IN
            Saved(conn[h].s, e) \/ Unsaved(conn[h].s, e)
      BY <2>2 DEF PollDeliver
    <3> QED BY <1>0, <3>1, <3>2, CalmStatus, CalmWrite DEF Saved, Unsaved
  <2>3. CASE GuestRevoke(h)
    <3>1. conn[h].s \in Sessions
      BY <2>0, <2>3 DEF GuestRevoke, Serving, Idle
    <3> QED BY <1>0, <2>3, <3>1, CalmStatus, CalmWrite DEF GuestRevoke, Saved, Unsaved
  <2>4. ASSUME NEW c \in Commands, Ack(h, c) \/ Result(h, c) PROVE C
    <3>1. conn[h].s \in Sessions
      BY <2>0, <2>4 DEF Ack, Result, Serving, Idle
    <3> QED BY <1>0, <2>4, <3>1, CalmStatus, CalmWrite DEF Ack, Result, Saved, Unsaved
  <2> QED BY <1>5, <2>1, <2>2, <2>3, <2>4 DEF Serve
<1>6. CASE Time
  BY <1>3, <1>6 DEF Time, Age, Expire, Lapse
<1>7. CASE Janitor
  <2>1. UNCHANGED p /\ (disk' = Snapshot(p', live') \/ disk' = disk)
    BY <1>7 DEF Janitor
  <2>2. \A s \in Sessions : disk'[s].status \in {disk[s].status, p'[s].status, "none"}
    BY <2>1, SnapshotEntry DEF EntriesOK, NoEntry
  <2> QED BY <2>1, <2>2 DEF Calm
<1>8. CASE Restart
  <2> SUFFICES ASSUME NEW s \in Sessions PROVE Calm(s)
    OBVIOUS
  <2>1. disk'[s].status \in {p'[s].status, "none"}
    BY <1>8, SnapshotEntry DEF Restart, EntriesOK, NoEntry
  <2>2. \/ p'[s].status = disk[s].status /\ disk[s].status # "none"
        \/ p'[s].status = IF p[s].status = "none" THEN "none" ELSE "gone"
    BY <1>0, <1>8, RestartEntry
  <2> QED BY <2>1, <2>2 DEF Calm
<1> QED BY <1>1, <1>2, <1>4, <1>5, <1>6, <1>7, <1>8 DEF Undecided

LEMMA CalmDecisions ==
  ASSUME DecisionsOK, UNCHANGED decisions, \A s \in Sessions : Calm(s)
  PROVE  DecisionsOK'
<1> SUFFICES ASSUME NEW s \in Sessions
             PROVE  /\ p'[s].status = "none" => decisions[s] = <<>>
                    /\ Agrees(p'[s].status, decisions[s])
                    /\ Agrees(disk'[s].status, decisions[s])
  BY DEF DecisionsOK, Agrees
<1>1. /\ p'[s].status = "none" => decisions[s] = <<>>
      /\ Agrees(p'[s].status, decisions[s])
  BY DEF DecisionsOK, Agrees, Calm
<1> QED BY <1>1 DEF DecisionsOK, Agrees, Calm

LEMMA DecideDecisions ==
  ASSUME IInv, EntriesOK', DecisionsOK, ApprovalTypeOK,
         NEW s \in Sessions, NEW action \in Actions, Decide(s, action)
  PROVE  /\ DecisionsOK'
         /\ decisions[s] = <<>> /\ decisions' = [decisions EXCEPT ![s] = <<action>>]
<1>0. /\ p \in [Sessions -> Entry] /\ p' \in [Sessions -> Entry] /\ p[s] \in Entry
      /\ decisions \in [Sessions -> Seq(Actions)]
  BY DEF IInv, EntriesOK, ApprovalTypeOK
<1>1. s \in live /\ p[s].status = "pending" /\ UNCHANGED live
  BY DEF Decide, Approve, Reject
<1>2. PICK e : /\ p' = [p EXCEPT ![s] = e]
               /\ disk' = Snapshot(p', live)
               /\ e.status = Outcome[action]
  <2>1. Approved(p[s]).status = "approved" /\ [p[s] EXCEPT !.status = "rejected"].status = "rejected"
    BY <1>0 DEF Approved, Entry
  <2>2. CASE action = "approve" /\ Approve(s)
    BY <2>1, <2>2, OutcomeValues DEF Approve, Saved
  <2>3. CASE action = "reject" /\ Reject(s)
    BY <2>1, <2>3, OutcomeValues DEF Reject, Saved
  <2> QED BY <2>2, <2>3 DEF Decide
<1>3. decisions[s] = <<>>
  BY <1>1 DEF DecisionsOK, Agrees
<1>4. decisions' = [decisions EXCEPT ![s] = <<action>>]
  <2>1. Append(<<>>, action) = <<action>>
    OBVIOUS
  <2> QED BY <1>0, <1>3, <2>1 DEF Decide
<1>5. DecisionsOK'
  <2> SUFFICES ASSUME NEW t \in Sessions
               PROVE  /\ decisions'[t] \in {<<>>, <<"approve">>, <<"reject">>}
                      /\ p'[t].status = "none" => decisions'[t] = <<>>
                      /\ Agrees(p'[t].status, decisions'[t])
                      /\ Agrees(disk'[t].status, decisions'[t])
    BY DEF DecisionsOK, Agrees
  <2>1. disk'[t].status = IF t \in live THEN p'[t].status ELSE "none"
    <3>1. Snapshot(p', live)[t].status = IF t \in live THEN p'[t].status ELSE "none"
      BY <1>0, SnapshotStatus
    <3> QED BY <1>2, <3>1
  <2>2. CASE t = s
    BY <1>0, <1>1, <1>2, <1>4, <2>1, <2>2, OutcomeValues DEF Agrees
  <2>3. CASE t # s
    <3>1. p'[t] = p[t] /\ decisions'[t] = decisions[t]
      BY <1>0, <1>2, <1>4, <2>3
    <3> QED BY <2>1, <3>1 DEF DecisionsOK, Agrees
  <2> QED BY <2>2, <2>3
<1> QED BY <1>3, <1>4, <1>5

\* What the prompts show, what handlers are about to show, and what the
\* markers say.
ShownOK ==
  /\ PromptIsRight
  /\ \A k \in Callbacks :
       Handler(k, {"done"}) => decisions[callback[k].s] = <<callback[k].action>>

MarkersOK == \A s \in marked \cup posted : prompts[s] # <<>>

AInv == ApprovalTypeOK /\ DecisionsOK /\ ShownOK /\ MarkersOK

LEMMA InitAInv == ApprovalInit => AInv
<1> SUFFICES ASSUME ApprovalInit PROVE AInv
  OBVIOUS
<1>1. DecisionsOK
  BY DEF ApprovalInit, Init, NoEntry, DecisionsOK, Agrees
<1>2. ShownOK /\ MarkersOK
  BY DEF ApprovalInit, ShownOK, PromptIsRight, MarkersOK, Handler, NoCallback
<1> QED BY <1>1, <1>2, TypeInit DEF AInv

LEMMA DecisionsStep ==
  ASSUME AInv, IInv, IInv', [ApprovalNext]_approvalVars
  PROVE  DecisionsOK'
<1>0. EntriesOK' /\ DecisionsOK /\ ApprovalTypeOK
  BY DEF IInv, AInv
<1>1. CASE UNCHANGED <<p, disk, decisions>>
  BY <1>0, <1>1 DEF DecisionsOK
<1>2. CASE Notifier
  BY <1>1, <1>2 DEF Notifier, List, Mark, Abort, Skip, Post, vars
<1>3. ASSUME NEW k \in Callbacks, Plugin(k) PROVE DecisionsOK'
  <2>1. CASE ServeDecision(k)
    <3>1. callback[k].s \in Sessions /\ callback[k].action \in Actions
      BY <1>0, <2>1, Handled, HandlerType DEF ServeDecision
    <3> QED BY <1>0, <2>1, <3>1, DecideDecisions DEF ServeDecision
  <2> QED BY <1>1, <1>3, <2>1 DEF Plugin, ShowExpired, ShowMismatch, SendDecision,
            RefuseDecision, ShowOutcome, Drop, Timeout, Edit, Look, vars
<1>4. CASE CommandLine
  BY <1>0, <1>4, DecideDecisions DEF CommandLine
<1>5. CASE Undecided
  BY <1>0, <1>5, UndecidedCalm, CalmDecisions DEF Undecided
<1>6. CASE UNCHANGED approvalVars
  BY <1>1, <1>6 DEF approvalVars
<1> QED BY <1>2, <1>3, <1>4, <1>5, <1>6 DEF ApprovalNext

\* A decision is taken once, so what is shown of it stays right.
LEMMA DecideShown ==
  ASSUME AInv, IInv, EntriesOK', UNCHANGED prompts,
         NEW s \in Sessions, NEW action \in Actions, Decide(s, action)
  PROVE  /\ PromptIsRight'
         /\ decisions'[s] = <<action>>
         /\ \A k \in Callbacks : Handler(k, {"done"}) =>
              decisions'[callback[k].s] = <<callback[k].action>>
<1>1. decisions[s] = <<>> /\ decisions' = [decisions EXCEPT ![s] = <<action>>]
  BY DecideDecisions DEF AInv
<1>2. decisions \in [Sessions -> Seq(Actions)]
  BY DEF AInv, ApprovalTypeOK
<1>3. \A t \in Sessions : decisions[t] # <<>> => decisions'[t] = decisions[t]
  BY <1>1, <1>2
<1>4. \A a \in Actions : <<a>> # <<>>
  OBVIOUS
<1>5. PromptIsRight'
  BY <1>3, <1>4 DEF AInv, ShownOK, PromptIsRight
<1>6. ASSUME NEW k \in Callbacks, Handler(k, {"done"})
      PROVE  decisions'[callback[k].s] = <<callback[k].action>>
  <2>1. callback[k].s \in Sessions /\ callback[k].action \in Actions
    BY <1>6, Handled, HandlerType DEF AInv
  <2> QED BY <1>3, <1>4, <1>6, <2>1 DEF AInv, ShownOK
<1> QED BY <1>1, <1>2, <1>5, <1>6

LEMMA ShownStep ==
  ASSUME AInv, IInv, IInv', [ApprovalNext]_approvalVars
  PROVE  ShownOK'
<1>0. EntriesOK' /\ ApprovalTypeOK /\ ShownOK
  BY DEF IInv, AInv
<1>1. CASE UNCHANGED <<prompts, callback, decisions>>
  BY <1>0, <1>1 DEF ShownOK, PromptIsRight, Handler
<1>2. ASSUME NEW s \in Sessions, Post(s) PROVE ShownOK'
  <2>1. prompts[s] \in Seq(Shows) /\ prompts \in [Sessions -> Seq(Shows)]
    BY <1>0 DEF ApprovalTypeOK
  <2>2. \A i \in DOMAIN Append(prompts[s], "buttons") :
          \/ Append(prompts[s], "buttons")[i] = "buttons"
          \/ i \in DOMAIN prompts[s] /\ Append(prompts[s], "buttons")[i] = prompts[s][i]
    BY <2>1
  <2>3. \A action \in Actions : Outcome[action] # "buttons"
    BY OutcomeValues
  <2>4. /\ prompts' = [prompts EXCEPT ![s] = Append(prompts[s], "buttons")]
        /\ UNCHANGED <<callback, decisions>>
    BY <1>2 DEF Post
  <2>5. ASSUME NEW t \in Sessions, NEW i \in DOMAIN prompts'[t], NEW action \in Actions,
               prompts'[t][i] = Outcome[action]
        PROVE  decisions[t] = <<action>>
    <3>1. i \in DOMAIN prompts[t] /\ prompts'[t][i] = prompts[t][i]
      BY <2>1, <2>2, <2>3, <2>4, <2>5
    <3>2. prompts[t][i] = Outcome[action]
      BY <2>5, <3>1
    <3>3. PromptIsRight
      BY <1>0 DEF ShownOK
    <3> QED BY <3>1, <3>2, <3>3 DEF PromptIsRight
  <2> QED BY <1>0, <2>4, <2>5 DEF ShownOK, PromptIsRight, Handler
<1>3. CASE Notifier
  BY <1>1, <1>2, <1>3 DEF Notifier, List, Mark, Abort, Skip
<1>4. ASSUME NEW k \in Callbacks, Plugin(k) PROVE ShownOK'
  <2>0. ASSUME NEW S \in SUBSET {"missing", "mismatch", "found", "sent", "abandoned", "done"}, Handler(k, S)
        PROVE  /\ callback[k].s \in Sessions /\ callback[k].action \in Actions
               /\ callback[k].i \in DOMAIN prompts[callback[k].s]
    BY <1>0, <2>0, Handled, HandlerType
  <2>1. CASE ServeDecision(k)
    <3> DEFINE s == callback[k].s
               action == callback[k].action
    <3>1. s \in Sessions /\ action \in Actions /\ Decide(s, action) /\ UNCHANGED prompts
      BY <2>0, <2>1 DEF ServeDecision
    <3>2. /\ PromptIsRight' /\ decisions'[s] = <<action>>
          /\ \A q \in Callbacks : Handler(q, {"done"}) =>
               decisions'[callback[q].s] = <<callback[q].action>>
      BY <1>0, <3>1, DecideShown
    <3>3. \/ callback' = [callback EXCEPT ![k] = NoCallback]
          \/ callback' = [callback EXCEPT ![k].at = "done"]
      BY <2>1 DEF ServeDecision, Leave, Go
    <3>4. callback[k] \in Handling
      BY <1>0, <2>1, Handled, HandlerType DEF ServeDecision
    <3>5. ASSUME NEW q \in Callbacks, callback'[q].at = "done"
          PROVE  decisions'[callback'[q].s] = <<callback'[q].action>>
      <4>1. CASE q = k
        <5>1. callback'[k].s = s /\ callback'[k].action = action
          BY <1>0, <3>3, <3>4, <3>5, <4>1 DEF ApprovalTypeOK, Handling, NoCallback
        <5> QED BY <3>2, <4>1, <5>1
      <4>2. CASE q # k
        <5>1. callback'[q] = callback[q]
          BY <1>0, <3>3, <4>2 DEF ApprovalTypeOK
        <5> QED BY <3>2, <3>5, <5>1 DEF Handler
      <4> QED BY <4>1, <4>2
    <3> QED BY <3>2, <3>5 DEF ShownOK, Handler
  <2>2. ASSUME NEW text \in {"expired", "mismatch"} \cup {Outcome[callback[k].action]},
               NEW S \in SUBSET {"found", "mismatch", "missing", "done"}, Handler(k, S),
               text = Outcome[callback[k].action] => Handler(k, {"done"}), Edit(k, text)
        PROVE  ShownOK'
    <3> DEFINE s == callback[k].s
               i == callback[k].i
    <3>1. s \in Sessions /\ i \in DOMAIN prompts[s] /\ callback[k].action \in Actions
      BY <2>0, <2>2
    <3>2. /\ prompts' = [prompts EXCEPT ![s] = [prompts[s] EXCEPT ![i] = text]]
          /\ callback' = [callback EXCEPT ![k] = NoCallback]
          /\ UNCHANGED decisions
      BY <2>2 DEF Edit, Leave
    <3>3. \A action \in Actions : text = Outcome[action] => decisions[s] = <<action>>
      BY <1>0, <2>2, <3>1, OutcomeValues DEF ShownOK
    <3>4. \A t \in Sessions : \A j \in DOMAIN prompts'[t] :
            j \in DOMAIN prompts[t] /\ prompts'[t][j] \in {prompts[t][j]} \cup
              (IF t = s THEN {text} ELSE {})
      BY <1>0, <3>1, <3>2 DEF ApprovalTypeOK
    <3>5. PromptIsRight'
      BY <1>0, <3>2, <3>3, <3>4 DEF ShownOK, PromptIsRight
    <3>6. \A q \in Callbacks : callback'[q].at = "done" => callback'[q] = callback[q]
      BY <1>0, <3>2 DEF ApprovalTypeOK, NoCallback
    <3> QED BY <1>0, <3>2, <3>5, <3>6 DEF ShownOK, Handler
  <2>3. CASE ShowExpired(k) \/ ShowMismatch(k) \/ ShowOutcome(k)
    <3>1. \A action \in Actions : Outcome[action] \notin {"expired", "mismatch"}
      BY OutcomeValues
    <3> QED BY <2>0, <2>2, <2>3, <3>1 DEF ShowExpired, ShowMismatch, ShowOutcome
  <2>4. ASSUME UNCHANGED <<prompts, decisions>>,
               \A q \in Callbacks : callback'[q].at = "done" => callback'[q] = callback[q]
        PROVE  ShownOK'
    BY <1>0, <2>4 DEF ShownOK, PromptIsRight, Handler
  <2>5. CASE SendDecision(k) \/ RefuseDecision(k) \/ Drop(k) \/ Timeout(k)
    <3>1. /\ UNCHANGED <<prompts, decisions>>
          /\ \/ callback' = [callback EXCEPT ![k] = NoCallback]
             \/ \E stage \in {"sent", "abandoned"} :
                  callback[k] # NoCallback /\ callback' = [callback EXCEPT ![k].at = stage]
      BY <1>0, <2>5, Handled DEF SendDecision, RefuseDecision, Drop, Timeout, Leave, Go
    <3>2. callback[k] # NoCallback => callback[k] \in Handling
      BY <1>0, HandlerType
    <3>3. \A q \in Callbacks : callback'[q].at = "done" => callback'[q] = callback[q]
      BY <1>0, <3>1, <3>2 DEF ApprovalTypeOK, NoCallback, Handling
    <3> QED BY <2>4, <3>1, <3>3
  <2>6. ASSUME NEW s \in Sessions, NEW action \in Actions,
               NEW i \in DOMAIN prompts[s], Look(k, s, i, action)
        PROVE  ShownOK'
    <3>1. PICK stage \in {"found", "mismatch", "missing"} :
            callback' = [callback EXCEPT ![k] = [at |-> stage, s |-> s, i |-> i,
                                                 action |-> action]]
      BY <2>6 DEF Look
    <3>2. \A q \in Callbacks : callback'[q].at = "done" => callback'[q] = callback[q]
      BY <1>0, <3>1 DEF ApprovalTypeOK
    <3> QED BY <2>4, <2>6, <3>2 DEF Look
  <2> QED BY <1>4, <2>1, <2>3, <2>5, <2>6 DEF Plugin
<1>5. CASE CommandLine
  <2>1. PICK s \in Sessions, action \in Actions : Decide(s, action)
    BY <1>5 DEF CommandLine
  <2>2. UNCHANGED <<prompts, callback>>
    BY <1>5 DEF CommandLine, chatVars
  <2> QED BY <1>0, <2>1, <2>2, DecideShown DEF ShownOK, Handler
<1>6. CASE Undecided \/ UNCHANGED approvalVars
  BY <1>1, <1>6 DEF Undecided, approvalVars
<1> QED BY <1>3, <1>4, <1>5, <1>6 DEF ApprovalNext

LEMMA MarkersStep ==
  ASSUME AInv, [ApprovalNext]_approvalVars
  PROVE  MarkersOK'
<1>0. ApprovalTypeOK /\ MarkersOK
  BY DEF AInv
<1>1. CASE UNCHANGED <<prompts, marked, posted>>
  BY <1>0, <1>1 DEF MarkersOK
<1>2. ASSUME NEW s \in Sessions, Post(s) PROVE MarkersOK'
  <2>1. Append(prompts[s], "buttons") # <<>>
    <3>1. prompts[s] \in Seq(Shows)
      BY <1>0 DEF ApprovalTypeOK
    <3>2. Len(Append(prompts[s], "buttons")) = Len(prompts[s]) + 1 /\ Len(prompts[s]) \in Nat
      BY <3>1
    <3> QED BY <3>2
  <2> QED BY <1>0, <1>2, <2>1 DEF Post, MarkersOK, ApprovalTypeOK
<1>3. CASE Notifier
  BY <1>0, <1>1, <1>2, <1>3 DEF Notifier, List, Mark, Abort, Skip, MarkersOK
<1>4. ASSUME NEW k \in Callbacks, NEW text, callback[k] # NoCallback, Edit(k, text)
      PROVE  MarkersOK'
  <2> DEFINE s == callback[k].s
  <2>1. s \in Sessions /\ callback[k].i \in DOMAIN prompts[s] /\ prompts[s] \in Seq(Shows)
    BY <1>0, <1>4, HandlerType DEF ApprovalTypeOK
  <2>2. prompts[s] # <<>> /\ [prompts[s] EXCEPT ![callback[k].i] = text] # <<>>
    BY <2>1
  <2>3. prompts' = [prompts EXCEPT ![s] = [prompts[s] EXCEPT ![callback[k].i] = text]]
    BY <1>4 DEF Edit
  <2> QED BY <1>0, <1>4, <2>1, <2>2, <2>3 DEF Edit, MarkersOK, ApprovalTypeOK
<1>5. ASSUME NEW k \in Callbacks, Plugin(k) PROVE MarkersOK'
  <2>1. CASE ShowExpired(k) \/ ShowMismatch(k) \/ ShowOutcome(k)
    BY <1>0, <1>4, <2>1, Handled DEF ShowExpired, ShowMismatch, ShowOutcome
  <2> QED BY <1>1, <1>5, <2>1 DEF Plugin, SendDecision, ServeDecision,
            RefuseDecision, Drop, Timeout, Look
<1>6. CASE CommandLine \/ Undecided \/ UNCHANGED approvalVars
  BY <1>1, <1>6 DEF CommandLine, chatVars, Undecided, approvalVars
<1> QED BY <1>3, <1>5, <1>6 DEF ApprovalNext

\* Types, decisions, prompts and markers hold in every reachable state.
THEOREM ApprovalInvariance == ApprovalSpec => []AInv
<1>1. AInv /\ IInv /\ IInv' /\ [ApprovalNext]_approvalVars => AInv'
  BY TypeStep, DecisionsStep, ShownStep, MarkersStep DEF AInv
<1> QED BY <1>1, InitAInv, ApprovalIsBroker, Invariance, PTL DEF ApprovalSpec

\* Of all who may decide on a request (approveRequest, rejectRequest) one does,
\* and the session is what it decided.
THEOREM DecidedOnceCorrect == ApprovalSpec => []DecidedOnce
<1>1. AInv => DecidedOnce
  <2>1. Len(<<>>) <= 1 /\ Len(<<"approve">>) <= 1 /\ Len(<<"reject">>) <= 1
    OBVIOUS
  <2> SUFFICES ASSUME AInv, NEW s \in Sessions
               PROVE  /\ Len(decisions[s]) <= 1
                      /\ Agrees(p[s].status, decisions[s])
                      /\ Agrees(disk[s].status, decisions[s])
    BY DEF DecidedOnce, Agrees
  <2> QED BY <2>1 DEF AInv, DecisionsOK
<1> QED BY <1>1, ApprovalInvariance, PTL

\* A prompt edited to a decision (approval-handler.js) shows the one taken.
THEOREM PromptCorrect == ApprovalSpec => []PromptIsRight
<1>1. AInv => PromptIsRight
  BY DEF AInv, ShownOK
<1> QED BY <1>1, ApprovalInvariance, PTL

\* The notifier script forgets no request that it has marked.
THEOREM MarkedCorrect == ApprovalSpec => []MarkedWasPosted
<1>1. AInv => MarkedWasPosted
  BY DEF AInv, MarkersOK, MarkedWasPosted
<1> QED BY <1>1, ApprovalInvariance, PTL

\* An outcome shown was decided, and what is marked was announced.
THEOREM PromptsCorrect == ApprovalSpec => []PromptsAreRight
<1>1. PromptIsRight /\ MarkedWasPosted => PromptsAreRight
  BY DEF PromptsAreRight
<1> QED BY PromptCorrect, MarkedCorrect, <1>1, PTL
-----------------------------------------------------------------------------
(* Buttons.                                                                *)

\* A prompt of the request has lost its buttons, or is about to.
Closed(s) ==
  \/ \E i \in DOMAIN prompts[s] : prompts[s][i] \notin {"buttons", "mismatch"}
  \/ \E k \in Callbacks : Handler(k, {"missing", "done"}) /\ callback[k].s = s

\* What chat and notifier know of exists; and until the broker restarts, a
\* request that has been closed does not become pending again.
ClosedOK ==
  \A s \in Sessions :
    /\ s \in todo \/ prompts[s] # <<>> => p[s].status # "none"
    /\ restarts = 0 /\ Closed(s) => ~IsPending(s)

LEMMA ClosedKnown ==
  ASSUME ApprovalTypeOK, NEW s \in Sessions, Closed(s)
  PROVE  prompts[s] # <<>>
<1>1. ASSUME NEW k \in Callbacks, Handler(k, {"missing", "done"}), callback[k].s = s
      PROVE  prompts[s] # <<>>
  <2>1. callback[k].i \in DOMAIN prompts[s]
    BY <1>1, Handled, HandlerType
  <2> QED BY <2>1
<1> QED BY <1>1 DEF Closed

LEMMA StatusStays ==
  ASSUME AnswersInv, [Next]_vars, NEW s \in Sessions, p[s].status # "none"
  PROVE  p'[s].status # "none"
<1>0. IInv /\ HeldOK /\ EntriesOK /\ p \in [Sessions -> Entry]
  BY DEF AnswersInv, IInv, EntriesOK
<1>1. ASSUME NEW t \in Sessions, Pair(t) PROVE p'[s].status # "none"
  BY <1>0, <1>1 DEF Pair, NewEntry, NoEntry
<1>2. CASE Restart
  BY <1>0, <1>2, RestartEntry
<1>3. ASSUME NEW t \in Sessions, Write(t, p'[t]) PROVE p'[s].status # "none"
  BY <1>0, <1>3 DEF Write, Forward, Real
<1> QED BY <1>0, <1>1, <1>2, <1>3, StepKinds DEF Janitor

LEMMA NotAgain ==
  ASSUME AnswersInv, [Next]_vars, NEW s \in Sessions, p[s].status # "none",
         restarts' = 0, ~IsPending(s)
  PROVE  ~IsPending(s)'
<1>0. IInv /\ HeldOK /\ p \in [Sessions -> Entry] /\ restarts \in Nat
  BY LimitsAssumption DEF AnswersInv, IInv, EntriesOK, RestOK
<1>1. ASSUME NEW t \in Sessions, Pair(t) PROVE ~IsPending(s)'
  BY <1>0, <1>1 DEF Pair, IsPending
<1>2. CASE Restart
  BY <1>0, <1>2 DEF Restart
<1>3. CASE Janitor
  BY <1>3 DEF Janitor, IsPending
<1>4. ASSUME NEW t \in Sessions, Write(t, p'[t]) PROVE ~IsPending(s)'
  BY <1>0, <1>4 DEF Write, Forward, IsPending
<1> QED BY <1>0, <1>1, <1>2, <1>3, <1>4, StepKinds DEF IsPending

\* restarts only grows.
LEMMA NoRestartYet ==
  ASSUME IInv, [Next]_vars, restarts' = 0
  PROVE  restarts = 0
<1>1. restarts \in Nat
  BY LimitsAssumption DEF IInv, RestOK
<1>2. CASE Restart
  BY <1>1, <1>2 DEF Restart
<1>3. CASE UNCHANGED restarts
  BY <1>3
<1>4. CASE Operator
  BY <1>3, <1>4 DEF Operator, Approve, Reject, AdminRevoke, ConsumeResults, Enqueue
<1>5. CASE Guest
  BY <1>3, <1>5 DEF Guest, Pair, Status, Authenticate
<1>6. ASSUME NEW h \in Handlers, Serve(h) PROVE restarts = 0
  <2>1. CASE PollDeliver(h) \/ PollEmpty(h) \/ Refuse(h) \/ GuestRevoke(h)
    BY <1>3, <2>1 DEF PollDeliver, PollEmpty, Refuse, GuestRevoke
  <2>2. ASSUME NEW c \in Commands, Ack(h, c) \/ Result(h, c) PROVE restarts = 0
    BY <1>3, <2>2 DEF Ack, Result
  <2> QED BY <1>6, <2>1, <2>2 DEF Serve
<1>7. CASE Time \/ Janitor \/ UNCHANGED vars
  BY <1>3, <1>7 DEF Time, Age, Expire, Lapse, Janitor, vars
<1> QED BY <1>2, <1>4, <1>5, <1>6, <1>7 DEF Next

\* A step closes no prompt of a request that it leaves pending.
LEMMA ClosedStays ==
  ASSUME AnswersInv, [Next]_vars, AInv, ClosedOK,
         \A s \in Sessions :
           /\ s \in todo' \/ prompts'[s] # <<>> =>
                s \in todo \/ prompts[s] # <<>> \/ p[s].status # "none"
           /\ Closed(s)' => Closed(s) \/ ~IsPending(s)'
  PROVE  ClosedOK'
<1> SUFFICES ASSUME NEW s \in Sessions
             PROVE  /\ s \in todo' \/ prompts'[s] # <<>> => p'[s].status # "none"
                    /\ restarts' = 0 /\ Closed(s)' => ~IsPending(s)'
  BY DEF ClosedOK
<1>1. s \in todo' \/ prompts'[s] # <<>> => p'[s].status # "none"
  BY StatusStays DEF ClosedOK
<1>2. ASSUME restarts' = 0, Closed(s)', Closed(s) PROVE ~IsPending(s)'
  <2>1. Closed(s) /\ restarts = 0
    BY <1>2, NoRestartYet DEF AnswersInv
  <2>2. p[s].status # "none"
    BY <2>1, ClosedKnown DEF AInv, ClosedOK
  <2> QED BY <1>2, <2>1, <2>2, NotAgain DEF ClosedOK
<1> QED BY <1>1, <1>2
\* An edit closes at most the prompt it edits.
LEMMA EditCloses ==
  ASSUME AInv, NEW k \in Callbacks, callback[k] # NoCallback, NEW text, Edit(k, text),
         text = "mismatch" \/ Closed(callback[k].s), NEW s \in Sessions, Closed(s)'
  PROVE  Closed(s)
<1> DEFINE u == callback[k].s
           i == callback[k].i
<1>1. /\ u \in Sessions /\ prompts[u] \in Seq(Shows)
      /\ prompts \in [Sessions -> Seq(Shows)]
      /\ callback \in [Callbacks -> Handling \cup {NoCallback}]
  BY HandlerType DEF AInv, ApprovalTypeOK
<1>2. /\ prompts' = [prompts EXCEPT ![u] = [prompts[u] EXCEPT ![i] = text]]
      /\ callback' = [callback EXCEPT ![k] = NoCallback]
  BY DEF Edit, Leave
<1>3. ASSUME NEW j \in DOMAIN prompts'[s], prompts'[s][j] \notin {"buttons", "mismatch"}
      PROVE  Closed(s)
  <2>1. CASE s = u /\ j = i
    BY <1>1, <1>2, <1>3, <2>1
  <2>2. CASE ~(s = u /\ j = i)
    <3>1. j \in DOMAIN prompts[s] /\ prompts'[s][j] = prompts[s][j]
      BY <1>1, <1>2, <2>2
    <3> QED BY <1>3, <3>1 DEF Closed
  <2> QED BY <2>1, <2>2
<1>4. ASSUME NEW q \in Callbacks, Handler(q, {"missing", "done"})', callback'[q].s = s
      PROVE  Closed(s)
  <2>1. callback'[q] = callback[q]
    BY <1>1, <1>2, <1>4 DEF Handler, NoCallback
  <2> QED BY <1>4, <2>1 DEF Closed, Handler
<1> QED BY <1>3, <1>4 DEF Closed

\* One callback moves on, and nothing else in the chat.
LEMMA MoveCloses ==
  ASSUME AInv, NEW k \in Callbacks, NEW g, callback' = [callback EXCEPT ![k] = g],
         UNCHANGED prompts, NEW s \in Sessions, Closed(s)',
         g.at \in {"missing", "done"} => g.s # s
  PROVE  Closed(s)
<1>1. callback \in [Callbacks -> Handling \cup {NoCallback}]
  BY DEF AInv, ApprovalTypeOK
<1>2. ASSUME NEW q \in Callbacks, Handler(q, {"missing", "done"})', callback'[q].s = s
      PROVE  Closed(s)
  <2>1. callback'[q] = callback[q]
    BY <1>1, <1>2 DEF Handler
  <2> QED BY <1>2, <2>1 DEF Closed, Handler
<1> QED BY <1>2 DEF Closed

LEMMA NotifierCloses ==
  ASSUME AnswersInv, [Next]_vars, AInv, ClosedOK, Notifier
  PROVE  ClosedOK'
<1>1. \A s \in Sessions : UNCHANGED <<prompts, callback>> => (Closed(s)' => Closed(s))
  BY DEF Closed, Handler
<1>2. CASE List
  <2>1. \A s \in Sessions : s \in todo' => p[s].status # "none"
    BY <1>2 DEF List, IsPending
  <2> QED BY <1>1, <1>2, <2>1, ClosedStays DEF List
<1>3. ASSUME NEW s \in Sessions, Skip(s) PROVE ClosedOK'
  BY <1>1, <1>3, ClosedStays DEF Skip
<1>4. CASE Mark \/ Abort
  BY <1>1, <1>4, ClosedStays DEF Mark, Abort
<1>5. ASSUME NEW s \in Sessions, Post(s) PROVE ClosedOK'
  <2>1. prompts \in [Sessions -> Seq(Shows)] /\ prompts[s] \in Seq(Shows)
    BY DEF AInv, ApprovalTypeOK
  <2>2. /\ prompts' = [prompts EXCEPT ![s] = Append(prompts[s], "buttons")]
        /\ s \in todo /\ todo' \subseteq todo /\ UNCHANGED callback
    BY <1>5 DEF Post
  <2>3. \A j \in DOMAIN Append(prompts[s], "buttons") :
          \/ Append(prompts[s], "buttons")[j] = "buttons"
          \/ j \in DOMAIN prompts[s] /\ Append(prompts[s], "buttons")[j] = prompts[s][j]
    BY <2>1
  <2>4. \A t \in Sessions : \A j \in DOMAIN prompts'[t] :
          prompts'[t][j] = "buttons" \/
          (j \in DOMAIN prompts[t] /\ prompts'[t][j] = prompts[t][j])
    BY <2>1, <2>2, <2>3
  <2>5. \A t \in Sessions : Closed(t)' => Closed(t)
    BY <2>2, <2>4 DEF Closed, Handler
  <2>6. \A t \in Sessions : t # s => prompts'[t] = prompts[t]
    BY <2>1, <2>2
  <2> QED BY <2>2, <2>5, <2>6, ClosedStays
<1> QED BY <1>2, <1>3, <1>4, <1>5 DEF Notifier

LEMMA PluginCloses ==
  ASSUME AnswersInv, [Next]_vars, AInv, ClosedOK, NEW k \in Callbacks, Plugin(k)
  PROVE  ClosedOK'
<1>0. ApprovalTypeOK /\ callback \in [Callbacks -> Handling \cup {NoCallback}]
  BY DEF AInv, ApprovalTypeOK
<1>1. ASSUME NEW S \in SUBSET {"missing", "mismatch", "found", "sent", "abandoned", "done"}, Handler(k, S)
      PROVE  callback[k] # NoCallback /\ callback[k].s \in Sessions /\ callback[k] \in Handling
  BY <1>0, <1>1, Handled, HandlerType
<1>2. ASSUME UNCHANGED <<prompts, todo>>,
             \A s \in Sessions : Closed(s)' => Closed(s) \/ ~IsPending(s)'
      PROVE  ClosedOK'
  BY <1>2, ClosedStays
<1>3. CASE ShowExpired(k) \/ ShowMismatch(k) \/ ShowOutcome(k)
  <2>1. PICK text : Edit(k, text) /\ (text = "mismatch" \/ Handler(k, {"missing", "done"}))
    BY <1>3 DEF ShowExpired, ShowMismatch, ShowOutcome, Handler
  <2>2. callback[k] # NoCallback /\ callback[k].s \in Sessions
    BY <1>1, <1>3 DEF ShowExpired, ShowMismatch, ShowOutcome
  <2>3. \A s \in Sessions : Closed(s)' => Closed(s)
    BY <2>1, <2>2, EditCloses DEF Closed
  <2>4. \A s \in Sessions : prompts'[s] # <<>> => prompts[s] # <<>>
    <3>1. prompts[callback[k].s] # <<>>
      BY <1>0, <2>2, HandlerType
    <3>2. \A s \in Sessions : s # callback[k].s => prompts'[s] = prompts[s]
      BY <1>0, <2>1, <2>2 DEF Edit, ApprovalTypeOK
    <3> QED BY <3>1, <3>2
  <2> QED BY <2>1, <2>3, <2>4, ClosedStays DEF Edit
<1>4. CASE SendDecision(k) \/ RefuseDecision(k) \/ Drop(k) \/ Timeout(k)
  <2>1. PICK g : callback' = [callback EXCEPT ![k] = g] /\ g.at \notin {"missing", "done"}
    <3>1. CASE Leave(k)
      <4>1. NoCallback.at = "idle"
        BY DEF NoCallback
      <4> WITNESS NoCallback
      <4> QED BY <3>1, <4>1 DEF Leave
    <3>2. ASSUME NEW stage \in {"sent", "abandoned"}, Go(k, stage), callback[k] \in Handling
          PROVE  \E g : callback' = [callback EXCEPT ![k] = g] /\ g.at \notin {"missing", "done"}
      <4>1. [callback[k] EXCEPT !.at = stage].at = stage
        BY <3>2 DEF Handling
      <4> WITNESS [callback[k] EXCEPT !.at = stage]
      <4> QED BY <3>2, <4>1 DEF Go
    <3>3. Leave(k) \/ \E stage \in {"sent", "abandoned"} : Go(k, stage)
      BY <1>4 DEF SendDecision, RefuseDecision, Drop, Timeout
    <3>4. callback[k] = NoCallback => Leave(k)
      BY <1>4, <3>3, Handled DEF SendDecision, RefuseDecision, Drop, Timeout, AInv
    <3>5. callback[k] # NoCallback => callback[k] \in Handling
      BY <1>0
    <3> QED BY <3>1, <3>2, <3>3, <3>4, <3>5
  <2>2. UNCHANGED <<prompts, todo>>
    BY <1>4 DEF SendDecision, RefuseDecision, Drop, Timeout
  <2>3. \A s \in Sessions : Closed(s)' => Closed(s)
    BY <2>1, <2>2, MoveCloses
  <2> QED BY <1>2, <2>2, <2>3
<1>5. CASE ServeDecision(k)
  <2>0. callback[k] \in Handling /\ callback[k].s \in Sessions
    BY <1>1, <1>5 DEF ServeDecision
  <2>1. PICK u \in Sessions : u = callback[k].s
    BY <2>0
  <2>2. UNCHANGED <<prompts, todo>>
    BY <1>5 DEF ServeDecision
  <2>3. ~IsPending(u)'
    <3>1. p[u] \in Entry /\ p \in [Sessions -> Entry]
      BY <2>1 DEF AnswersInv, IInv, EntriesOK
    <3>2. Approved(p[u]).status = "approved" /\ [p[u] EXCEPT !.status = "rejected"].status = "rejected"
      BY <3>1 DEF Approved, Entry
    <3>3. p'[u].status \in {"approved", "rejected"}
      <4>1. CASE Approve(u)
        BY <2>1, <3>1, <3>2, <4>1 DEF Approve, Saved
      <4>2. CASE Reject(u)
        BY <2>1, <3>1, <3>2, <4>2 DEF Reject, Saved
      <4> QED BY <1>5, <2>1, <4>1, <4>2 DEF ServeDecision, Decide
    <3> QED BY <3>3 DEF IsPending
  <2>4. PICK g : callback' = [callback EXCEPT ![k] = g] /\ (g.at = "done" => g.s = u)
                 /\ g.at # "missing"
    <3>1. CASE Leave(k)
      <4>1. NoCallback.at = "idle"
        BY DEF NoCallback
      <4> WITNESS NoCallback
      <4> QED BY <3>1, <4>1 DEF Leave
    <3>2. CASE Go(k, "done")
      <4> DEFINE g == [callback[k] EXCEPT !.at = "done"]
      <4>1. g.at = "done" /\ g.s = u
        BY <2>0, <2>1 DEF Handling
      <4>2. callback' = [callback EXCEPT ![k] = g]
        BY <3>2 DEF Go
      <4> HIDE DEF g
      <4> WITNESS g
      <4> QED BY <4>1, <4>2
    <3> QED BY <1>5, <3>1, <3>2 DEF ServeDecision
  <2>5. \A s \in Sessions : Closed(s)' => Closed(s) \/ s = u
    BY <2>2, <2>4, MoveCloses
  <2> QED BY <1>2, <2>2, <2>3, <2>5
<1>6. ASSUME NEW s \in Sessions, NEW action \in Actions,
             NEW i \in DOMAIN prompts[s], Look(k, s, i, action)
      PROVE  ClosedOK'
  <2>0. PICK stage \in (IF IsPending(s) THEN {"found", "mismatch"} ELSE {"missing"}) :
          callback' = [callback EXCEPT ![k] = [at |-> stage, s |-> s, i |-> i,
                                               action |-> action]]
    BY <1>6 DEF Look
  <2> DEFINE g == [at |-> stage, s |-> s, i |-> i, action |-> action]
  <2>1. callback' = [callback EXCEPT ![k] = g] /\ UNCHANGED <<prompts, todo, p, live>>
    BY <1>6, <2>0 DEF Look, vars
  <2>2. g.s = s /\ (g.at \in {"missing", "done"} => ~IsPending(s)')
    BY <2>0, <2>1 DEF IsPending
  <2>3. \A t \in Sessions : Closed(t)' => Closed(t) \/ ~IsPending(t)'
    <3> HIDE DEF g
    <3>1. \A t \in Sessions : Closed(t)' /\ (g.at \in {"missing", "done"} => g.s # t) => Closed(t)
      BY <2>1, MoveCloses
    <3> QED BY <2>2, <3>1
  <2> QED BY <1>2, <2>1, <2>3
<1> QED BY <1>3, <1>4, <1>5, <1>6 DEF Plugin

LEMMA ClosedStep ==
  AnswersInv /\ [Next]_vars /\ AInv /\ ClosedOK /\ [ApprovalNext]_approvalVars => ClosedOK'
<1> SUFFICES ASSUME AnswersInv, [Next]_vars, AInv, ClosedOK, [ApprovalNext]_approvalVars
             PROVE  ClosedOK'
  OBVIOUS
<1>1. CASE CommandLine \/ Undecided \/ UNCHANGED approvalVars
  <2>1. UNCHANGED <<prompts, callback, todo>>
    BY <1>1 DEF CommandLine, chatVars, Undecided, approvalVars
  <2>2. \A s \in Sessions : Closed(s)' => Closed(s)
    BY <2>1 DEF Closed, Handler
  <2> QED BY <2>1, <2>2, ClosedStays
<1> QED BY <1>1, NotifierCloses, PluginCloses DEF ApprovalNext

\* A failure leaves the buttons (approval-handler.js): a prompt that lost them is
\* about a request that is decided, gone or never was, for any number of prompts
\* of a request and callbacks of a prompt.
THEOREM ButtonsCorrect == ApprovalSpec => []ButtonsStay
<1>1. ApprovalInit => ClosedOK
  BY DEF ApprovalInit, ClosedOK, Closed, Handler, NoCallback
<1>2. ClosedOK => ButtonsStay
  BY DEF ClosedOK, Closed, ButtonsStay
<1> QED BY <1>1, <1>2, ClosedStep, ApprovalIsBroker, AnswersInvariance,
           ApprovalInvariance, PTL DEF ApprovalSpec, Spec
===============================================================================
