------------------------------- MODULE Approval -------------------------------
(***************************************************************************)
(* Approval by chat: the notifier script posts a prompt with two buttons   *)
(* for every pending request, the plugin handles the callbacks of the      *)
(* buttons, asks the broker through bridge-operator, and edits the prompt. *)
(*                                                                         *)
(* The handler of a callback is an asynchronous function: between its      *)
(* awaits other callbacks of the same prompt, the operator on the command  *)
(* line, the janitor and the guest go on.  Any await may throw, which ends *)
(* the handler.  The notifier is a script that a timer starts: one run at  *)
(* a time, which may fail or be killed at any line.                        *)
(***************************************************************************)
EXTENDS Broker

CONSTANTS
  Callbacks,    \* callbacks that are handled at a time
  MaxPrompts    \* bound: prompts that are posted for one request

ASSUME ApprovalAssumption == MaxPrompts \in Nat

VARIABLES
  prompts,    \* what each prompt of a request shows now, in the order posted
  callback,   \* what the plugin does for each callback
  todo,       \* requests that the notifier's run has yet to look at
  posted,     \* the request whose prompt was sent and not marked yet, if any
  marked,     \* requests with a marker file
  decisions   \* history: the decisions that the broker took on each request

chatVars == <<prompts, callback, todo, posted, marked>>
approvalVars == <<p, live, disk, conn, aged, expired, lapsed, restarts, told,
                  prompts, callback, todo, posted, marked, decisions>>

\* How a prompt ends.
Outcome == [approve |-> "approved", reject |-> "rejected"]
Actions == DOMAIN Outcome
Shows == {"buttons", "approved", "rejected", "expired", "mismatch"}

\* mismatch: the comparison code in the callback is not that of the request.
NoCallback == [at |-> "idle"]
Stages == {"missing", "mismatch", "found", "sent", "abandoned", "done"}
Handling == [at : Stages, s : Sessions, i : Nat, action : Actions]

ApprovalInit ==
  /\ Init
  /\ prompts = [s \in Sessions |-> <<>>]
  /\ callback = [k \in Callbacks |-> NoCallback]
  /\ todo = {}
  /\ posted = {}
  /\ marked = {}
  /\ decisions = [s \in Sessions |-> <<>>]

IsPending(s) == s \in live /\ p[s].status = "pending"

-----------------------------------------------------------------------------
(* The notifier.                                                           *)

\* bridge-operator pending.
List ==
  /\ todo = {} /\ posted = {}
  /\ todo' = {s \in Sessions : IsPending(s)}
  /\ UNCHANGED <<vars, prompts, callback, posted, marked, decisions>>

Skip(s) ==
  /\ posted = {}
  /\ s \in todo \cap marked
  /\ todo' = todo \ {s}
  /\ UNCHANGED <<vars, prompts, callback, posted, marked, decisions>>

\* Fault: the marker is written before the message is sent.
PostMarked(s) ==
  /\ posted = {}
  /\ s \in todo \ marked
  /\ Len(prompts[s]) < MaxPrompts
  /\ marked' = marked \cup {s}
  /\ \/ prompts' = [prompts EXCEPT ![s] = Append(@, "buttons")]
     \/ UNCHANGED prompts
  /\ todo' = todo \ {s}
  /\ UNCHANGED <<vars, callback, posted, decisions>>

\* openclaw message send.
Post(s) ==
  /\ posted = {}
  /\ s \in todo \ marked
  /\ Len(prompts[s]) < MaxPrompts
  /\ prompts' = [prompts EXCEPT ![s] = Append(@, "buttons")]
  /\ todo' = todo \ {s}
  /\ posted' = {s}
  /\ UNCHANGED <<vars, callback, marked, decisions>>

Mark ==
  /\ posted # {}
  /\ marked' = marked \cup posted
  /\ posted' = {}
  /\ UNCHANGED <<vars, prompts, callback, todo, decisions>>

\* set -e: a send that fails, whether or not the message went out, ends the
\* run, and so does a kill.
Abort ==
  /\ todo \cup posted # {}
  /\ todo' = {}
  /\ posted' = {}
  /\ UNCHANGED <<vars, prompts, callback, marked, decisions>>

Notifier == List \/ Mark \/ Abort \/ \E s \in Sessions : Skip(s) \/ Post(s)

-----------------------------------------------------------------------------
(* The plugin.                                                             *)

Handler(k, stages) == callback[k].at \in stages
Go(k, stage) == callback' = [callback EXCEPT ![k].at = stage]
Leave(k) == callback' = [callback EXCEPT ![k] = NoCallback]

\* editMessage, which also takes the buttons away.
Edit(k, text) ==
  /\ prompts' = [prompts EXCEPT ![callback[k].s][callback[k].i] = text]
  /\ Leave(k)
  /\ UNCHANGED <<vars, todo, posted, marked, decisions>>

\* A callback of a prompt arrives, maybe twice and long after the button was
\* pressed, and asks bridge-operator for the pending requests.  A callback that
\* is malformed or not from an approver changes nothing.
Look(k, s, i, action) ==
  /\ callback[k] = NoCallback
  /\ \E stage \in (IF IsPending(s) THEN {"found", "mismatch"} ELSE {"missing"}) :
       callback' = [callback EXCEPT ![k] = [at |-> stage, s |-> s, i |-> i, action |-> action]]
  /\ UNCHANGED <<vars, prompts, todo, posted, marked, decisions>>

ShowExpired(k) == Handler(k, {"missing"}) /\ Edit(k, "expired")

ShowMismatch(k) == Handler(k, {"mismatch"}) /\ Edit(k, "mismatch")

\* runOperator(["approve", ...]) or runOperator(["reject", ...]).
SendDecision(k) ==
  /\ Handler(k, {"found"})
  /\ Go(k, "sent")
  /\ UNCHANGED <<vars, prompts, todo, posted, marked, decisions>>

Decide(s, action) ==
  /\ \/ action = "approve" /\ Approve(s)
     \/ action = "reject" /\ Reject(s)
  /\ decisions' = [decisions EXCEPT ![s] = Append(@, action)]

\* The broker takes the decision; its answer may be lost, or come to nobody.
ServeDecision(k) ==
  /\ Handler(k, {"sent", "abandoned"})
  /\ Decide(callback[k].s, callback[k].action)
  /\ Leave(k) \/ (Handler(k, {"sent"}) /\ Go(k, "done"))
  /\ UNCHANGED <<prompts, todo, posted, marked>>

\* Fault: a decision that the broker refuses is shown as taken.
RefusedShown(k) ==
  /\ Handler(k, {"sent", "abandoned"})
  /\ Go(k, "done")
  /\ UNCHANGED <<vars, prompts, todo, posted, marked, decisions>>

\* Fault: a decision that fails closes the prompt.
RefusedCloses(k) == Handler(k, {"sent", "abandoned"}) /\ Edit(k, "expired")

\* 404, 500 or no connection: runOperator throws and the prompt stays.
RefuseDecision(k) ==
  /\ Handler(k, {"sent", "abandoned"})
  /\ Leave(k)
  /\ UNCHANGED <<vars, prompts, todo, posted, marked, decisions>>

ShowOutcome(k) == Handler(k, {"done"}) /\ Edit(k, Outcome[callback[k].action])

\* An await throws, or the gateway ends.
Drop(k) ==
  /\ Handler(k, {"missing", "mismatch", "found", "done"})
  /\ Leave(k)
  /\ UNCHANGED <<vars, prompts, todo, posted, marked, decisions>>

\* bridge-operator is killed after ten seconds; its request may be under way.
Timeout(k) ==
  /\ Handler(k, {"sent"})
  /\ Go(k, "abandoned")
  /\ UNCHANGED <<vars, prompts, todo, posted, marked, decisions>>

Plugin(k) ==
  \/ ShowExpired(k) \/ ShowMismatch(k) \/ SendDecision(k)
  \/ ServeDecision(k) \/ RefuseDecision(k) \/ ShowOutcome(k)
  \/ Drop(k) \/ Timeout(k)
  \/ \E s \in Sessions, action \in Actions :
       \E i \in DOMAIN prompts[s] : Look(k, s, i, action)

-----------------------------------------------------------------------------
\* bridge-operator approve and reject on the command line, or a tool call.
CommandLine ==
  /\ \E s \in Sessions, action \in Actions : Decide(s, action)
  /\ UNCHANGED chatVars

\* Everything else that happens at the broker.
Undecided ==
  /\ \/ \E s \in Sessions :
          \/ AdminRevoke(s) \/ ConsumeResults(s)
          \/ \E c \in Commands, pl \in Payloads : Enqueue(s, c, pl)
     \/ Guest \/ (\E h \in Handlers : Serve(h)) \/ Time \/ Janitor \/ Restart
  /\ UNCHANGED <<prompts, callback, todo, posted, marked, decisions>>

ApprovalNext ==
  Notifier \/ (\E k \in Callbacks : Plugin(k)) \/ CommandLine \/ Undecided

ApprovalSpec == ApprovalInit /\ [][ApprovalNext]_approvalVars

-----------------------------------------------------------------------------
(* Properties.                                                             *)

\* Values of the variables; a callback stays on its prompt.
ApprovalTypeOK ==
  /\ prompts \in [Sessions -> Seq(Shows)]
  /\ callback \in [Callbacks -> Handling \cup {NoCallback}]
  /\ todo \subseteq Sessions
  /\ posted \subseteq Sessions
  /\ marked \subseteq Sessions
  /\ decisions \in [Sessions -> Seq(Actions)]
  /\ \A k \in Callbacks : callback[k] # NoCallback =>
       callback[k].i \in DOMAIN prompts[callback[k].s]

\* A request is decided at most once, whoever decides: callbacks that found it
\* pending at the same time, retries after a lost answer, the command line,
\* before and after a restart.  A session is approved only if that was the
\* decision.
DecidedOnce ==
  \A s \in Sessions :
    /\ Len(decisions[s]) <= 1
    /\ "approved" \in {p[s].status, disk[s].status} => decisions[s] = <<"approve">>
    /\ "rejected" \in {p[s].status, disk[s].status} => decisions[s] = <<"reject">>

\* A prompt that shows a decision shows the one that the broker took, whatever
\* another callback or the command line did meanwhile.  It need not go on showing
\* it: see DuplicateIsNoOp.
PromptIsRight ==
  \A s \in Sessions : \A i \in DOMAIN prompts[s] : \A action \in Actions :
    prompts[s][i] = Outcome[action] => decisions[s] = <<action>>

\* A failure leaves the buttons, so that the callback can be retried: a prompt
\* whose buttons are gone is about a request that is not pending any more, or
\* had a wrong code.  Only a restart can make a request pending again, after a
\* revocation that was not saved.
ButtonsStay ==
  \A s \in Sessions : \A i \in DOMAIN prompts[s] :
    IsPending(s) /\ restarts = 0 => prompts[s][i] \in {"buttons", "mismatch"}

\* A request with a marker has a prompt: a run of the notifier that fails or is
\* killed between two lines does not make it forget a request.
MarkedWasPosted == \A s \in marked : prompts[s] # <<>>

\* The chat shows no outcome that was not decided, and no request is marked as
\* announced that was not.  A decision that was taken may be shown as expired or
\* not at all, and a request may be announced more than once.
PromptsAreRight == PromptIsRight /\ MarkedWasPosted

\* SKILL.md: "A duplicate callback must remain a no-op and must never restore a
\* resolved keyboard."  A prompt that shows a decision goes on showing it.
DuplicateIsNoOp ==
  [][\A s \in Sessions : \A i \in DOMAIN prompts[s] :
       prompts[s][i] \in {"approved", "rejected"} => prompts'[s][i] = prompts[s][i]
    ]_approvalVars
===============================================================================
