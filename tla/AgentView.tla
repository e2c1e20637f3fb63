------------------------------ MODULE AgentView ------------------------------
(* The results of a session as an agent is shown them (view=agent): cleaned  *)
(* of control characters and broken bytes, and cut twice, each output to the *)
(* size the agent asks for and all of them to one total.  Consuming forgets  *)
(* the results in the same call.                                             *)
EXTENDS Naturals, Sequences, FiniteSets, SequencesExt

CONSTANTS
  Outputs,       \* what a command can have written, as sequences of Pieces
  Asked,         \* sizes an agent asks for
  LeastAsked,    \* stands for 1 KiB
  MostAsked,     \* stands for 64 KiB
  DefaultShown,  \* stands for 16 KiB
  TotalShown,    \* stands for 256 KiB
  MaxResults     \* bound: results that wait

\* A character of one byte, one of two, a control character, a byte that is no
\* character, and the mark of three bytes that stands for such bytes.
Pieces == {"plain", "wide", "control", "broken", "mark"}

Width(piece) ==
  CASE piece = "wide" -> 2
    [] piece = "mark" -> 3
    [] OTHER -> 1

ASSUME ViewAssumption ==
  /\ Outputs \subseteq Seq(Pieces) /\ Asked \subseteq Nat
  /\ {LeastAsked, MostAsked, TotalShown, MaxResults} \subseteq Nat
  /\ DefaultShown \in LeastAsked..MostAsked

VARIABLES
  results,   \* what the broker has
  shown      \* the last answer: the results it was made of, the size used, and the views

viewVars == <<results, shown>>

NothingShown == [of |-> <<>>, size |-> 0, views |-> <<>>]

\* len: the bytes of the characters.
Weight(output) ==
  Cardinality({byte \in (1..Len(output)) \X (1..3) : byte[2] <= Width(output[byte[1]])})

\* sanitizeGuestText: a run of broken bytes becomes one mark, and the control
\* characters are dropped.
Sanitized(output) ==
  LET kept == {k \in DOMAIN output :
                /\ output[k] # "control"
                /\ output[k] = "broken" => k = 1 \/ output[k - 1] # "broken"}
      place(j) == CHOOSE k \in kept : Cardinality({i \in kept : i < k}) = j - 1
  IN  [j \in 1..Cardinality(kept) |->
        IF output[place(j)] = "broken" THEN "mark" ELSE output[place(j)]]

\* Fault: an output of just the size is cut as well.
FitsBelow(size, limit) == size < limit

Fits(size, limit) == size <= limit

\* truncateUTF8: as many whole characters as fit.
Cut(output, limit) ==
  LET fitting == {n \in 0..Len(output) : Fits(Weight(SubSeq(output, 1, n)), limit)}
      most == CHOOSE n \in fitting : \A m \in fitting : m <= n
  IN  SubSeq(output, 1, IF fitting = {} THEN 0 ELSE most)

\* Fault: cut is what lost bytes, the cleaning included.
TruncatedByBytes(output, limit) == Weight(output) > limit

Truncated(output, limit) == Weight(Sanitized(output)) > limit

\* Fault: the total is not used up.
LeftAll(left, output) == left

Left(left, output) == left - Weight(output)

View(output, limit) ==
  [output |-> Cut(Sanitized(output), limit), truncated |-> Truncated(output, limit)]

\* agentResultEnvelope: each output is cut to what it may have and what is left.
Envelope(outputs, size) ==
  LET Limit(left) == IF size < left THEN size ELSE left
      remaining[k \in 0..Len(outputs)] ==
        IF k = 0 THEN TotalShown
        ELSE Left(remaining[k - 1], View(outputs[k], Limit(remaining[k - 1])).output)
  IN  [k \in 1..Len(outputs) |-> View(outputs[k], Limit(remaining[k - 1]))]

\* A size outside the bounds is replaced by the default.
SizeFor(asked) == IF asked \in LeastAsked..MostAsked THEN asked ELSE DefaultShown

ViewInit == results = <<>> /\ shown = NothingShown

\* A command ended.
ResultArrives(output) ==
  /\ Len(results) < MaxResults
  /\ results' = Append(results, output)
  /\ UNCHANGED shown

\* GET /v1/admin/results?view=agent: s.mu is held.
ShowResults(asked, consume) ==
  /\ shown' = [of |-> results, size |-> SizeFor(asked), views |-> Envelope(results, SizeFor(asked))]
  /\ results' = IF consume THEN <<>> ELSE results

ViewNext ==
  \/ \E output \in Outputs : ResultArrives(output)
  \/ \E asked \in Asked, consume \in BOOLEAN : ShowResults(asked, consume)

ViewTypeOK ==
  /\ results \in Seq(Outputs) /\ Len(results) <= MaxResults
  /\ shown.of \in Seq(Outputs) /\ shown.size \in LeastAsked..MostAsked \cup {0}
  /\ DOMAIN shown.views = DOMAIN shown.of

-----------------------------------------------------------------------------
(* Properties.                                                             *)

\* What the first views have together.
Used(views) ==
  LET used[k \in 0..Len(views)] ==
        IF k = 0 THEN 0 ELSE used[k - 1] + Weight(views[k].output)
  IN  used

\* What an agent is shown stays within both limits, however many results wait
\* and although the mark of a broken byte is wider than the byte.
ViewBounded ==
  /\ \A k \in DOMAIN shown.views : Weight(shown.views[k].output) <= shown.size
  /\ Used(shown.views)[Len(shown.views)] <= TotalShown

\* Every view begins as the cleaned output does and is marked as truncated
\* exactly when characters of that are missing; it has no broken bytes and no
\* control characters.
CutIsTold ==
  \A k \in DOMAIN shown.views :
    LET whole == Sanitized(shown.of[k])
        view == shown.views[k]
    IN  /\ IsPrefix(view.output, whole)
        /\ view.truncated <=> view.output # whole
        /\ \A j \in DOMAIN view.output : view.output[j] \in Pieces \ {"control", "broken"}

\* An output is cut only where its next character would exceed its limit or what
\* the outputs before it have left.
CutIsNeeded ==
  \A k \in DOMAIN shown.views :
    LET whole == Sanitized(shown.of[k])
        used == Used(shown.views)[k - 1]
        n == Len(shown.views[k].output)
    IN  n < Len(whole) =>
          \/ Weight(SubSeq(whole, 1, n + 1)) > shown.size
          \/ used + Weight(SubSeq(whole, 1, n + 1)) > TotalShown

\* The views are as much of the outputs as the two limits allow, and say so.
ViewIsExact == ViewBounded /\ CutIsTold /\ CutIsNeeded
=============================================================================
