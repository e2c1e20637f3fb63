-------------------------- MODULE CommandLifecycle --------------------------
(***************************************************************************)
(* What the bridge promises about a command, without broker, guest, leases *)
(* or network: it is started at most once, run at most once and only when  *)
(* it was started, and a result is accepted at most once and only of a     *)
(* command that was run.  Nothing promises that a started command is run:  *)
(* the guest may never learn that it was started.                          *)
(***************************************************************************)
EXTENDS Naturals

CONSTANTS Sessions, Commands

VARIABLES
  started,   \* <<session, command>> the broker let its guest run
  runs,      \* how often each command was run
  accepted   \* <<session, command>> with an accepted result

vars == <<started, runs, accepted>>

Init ==
  /\ started = {}
  /\ runs = [sc \in Sessions \X Commands |-> 0]
  /\ accepted = {}

Start(sc) ==
  /\ sc \notin started
  /\ started' = started \cup {sc}
  /\ UNCHANGED <<runs, accepted>>

Run(sc) ==
  /\ sc \in started
  /\ runs[sc] = 0
  /\ runs' = [runs EXCEPT ![sc] = 1]
  /\ UNCHANGED <<started, accepted>>

Accept(sc) ==
  /\ runs[sc] = 1
  /\ sc \notin accepted
  /\ accepted' = accepted \cup {sc}
  /\ UNCHANGED <<started, runs>>

Next == \E sc \in Sessions \X Commands : Start(sc) \/ Run(sc) \/ Accept(sc)

Spec == Init /\ [][Next]_vars
=============================================================================
