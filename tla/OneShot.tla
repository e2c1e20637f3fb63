------------------------------- MODULE OneShot -------------------------------
(* shell.run, powershell.run and the inspections: one program, run to its    *)
(* end or to the deadline of the command, with its output collected.         *)
(* exec.CommandContext kills the program, and only the program, when the     *)
(* context is over; Run returns when the program has ended and nobody holds  *)
(* its output any more, a child it left behind included.                     *)
EXTENDS Naturals

CONSTANTS
  MaxOutput,     \* stands for 1 MiB
  MaxWritten     \* bound: what the program and its child write

ASSUME OneShotAssumption == MaxOutput \in Nat /\ MaxWritten \in Nat

VARIABLES
  context,   \* of the command: running out, and what became of it
  program,   \* the program that was started
  child,     \* one that it left behind, with its output
  out,       \* what was written, and what the buffer kept of it
  reply      \* the result of the command

oneShotVars == <<context, program, child, out, reply>>

NoReply == [state |-> "none", timeout |-> FALSE, truncated |-> FALSE, kept |-> 0]

OneShotTypeOK ==
  /\ context \in {"open", "over"}
  /\ program \in {"none", "running", "ended", "killed"}
  /\ child \in {"none", "running", "ended"}
  /\ out.written \in 0..MaxWritten /\ out.kept \in 0..MaxOutput
  /\ reply \in [state : {"none", "returned", "sent"}, timeout : BOOLEAN, truncated : BOOLEAN, kept : 0..MaxOutput]

OneShotInit ==
  /\ context = "open" /\ program = "none" /\ child = "none"
  /\ out = [written |-> 0, kept |-> 0] /\ reply = NoReply

\* The result's truncated.
Filled(kept) == kept >= MaxOutput

\* Fault: only a program that was not started counts as late.
LateBeforeStart == context = "over" /\ program = "none"

\* The context is asked after Run returned.
Late == context = "over"

Reply ==
  reply' = [state |-> "sent", timeout |-> Late, truncated |-> Filled(out.kept), kept |-> out.kept]

\* The command's deadline passes, in some cases before the program starts.
Deadline ==
  /\ context = "open" /\ reply.state # "sent"
  /\ context' = "over"
  /\ UNCHANGED <<program, child, out, reply>>

\* x.Run: the program is started unless the context is over by then.
StartProgram ==
  /\ program = "none" /\ reply.state = "none"
  /\ IF context = "over" THEN Reply /\ UNCHANGED program
                         ELSE program' = "running" /\ UNCHANGED reply
  /\ UNCHANGED <<context, child, out>>

\* Fault: the buffer keeps everything.
WriteAll ==
  /\ program = "running" \/ child = "running"
  /\ out.written < MaxWritten
  /\ out' = [out EXCEPT !.written = @ + 1, !.kept = @ + 1]
  /\ UNCHANGED <<context, program, child, reply>>

\* capped.Write: what exceeds the buffer is dropped, and the writer not told.
Write ==
  /\ program = "running" \/ child = "running"
  /\ out.written < MaxWritten
  /\ out' = [out EXCEPT !.written = @ + 1,
                        !.kept = IF @ < MaxOutput THEN @ + 1 ELSE @]
  /\ UNCHANGED <<context, program, child, reply>>

LeaveChild ==
  /\ program = "running" /\ child = "none"
  /\ child' = "running"
  /\ UNCHANGED <<context, program, out, reply>>

ProgramEnds ==
  /\ program = "running"
  /\ program' = "ended"
  /\ UNCHANGED <<context, child, out, reply>>

ChildEnds ==
  /\ child = "running"
  /\ child' = "ended"
  /\ UNCHANGED <<context, program, out, reply>>

\* Fault: the program is started without the context.
KillNever == FALSE /\ UNCHANGED oneShotVars

\* exec's watcher: the program is killed when the context is over.
Kill ==
  /\ program = "running" /\ context = "over"
  /\ program' = "killed"
  /\ UNCHANGED <<context, child, out, reply>>

\* Fault: Run does not wait for whoever holds the output.
ReturnsAtOnce ==
  /\ program \in {"ended", "killed"} /\ reply.state = "none"
  /\ reply' = [reply EXCEPT !.state = "returned"]
  /\ UNCHANGED <<context, program, child, out>>

\* x.Run returns ...
Returns ==
  /\ program \in {"ended", "killed"} /\ child # "running" /\ reply.state = "none"
  /\ reply' = [reply EXCEPT !.state = "returned"]
  /\ UNCHANGED <<context, program, child, out>>

\* ... the output is taken, the context is asked, and the command answered.
Replies ==
  /\ reply.state = "returned"
  /\ Reply
  /\ UNCHANGED <<context, program, child, out>>

OneShotStep == StartProgram \/ Kill \/ Returns \/ Replies

OneShotNext == OneShotStep \/ Deadline \/ Write \/ LeaveChild \/ ProgramEnds \/ ChildEnds

-----------------------------------------------------------------------------
(* Properties.                                                             *)

\* A result that is not marked as truncated holds all that the program and the
\* processes it left behind ever wrote.
WholeUnlessTruncated ==
  reply.state = "sent" /\ ~reply.truncated => reply.kept = out.written /\ child # "running"

\* A program that was killed is never taken for one that ended.
KilledIsTold == reply.state = "sent" /\ program = "killed" => reply.timeout

\* The flags of a result are right, however the end of the program, of its children
\* and of the deadline fall together.
ReplyIsHonest == WholeUnlessTruncated /\ KilledIsTold

\* Past its deadline the client has a result to send, unless the program left a
\* process behind that keeps the output open.  Whether the broker takes the result
\* is another matter: quoted as JSON it may be longer than the broker reads.
LateIsAnswered == (context = "over") ~> (reply.state = "sent" \/ child = "running")
=============================================================================
