---------------------------- MODULE BrokerProofs ----------------------------
(***************************************************************************)
(* Proofs about Broker for every value of its constants: any number of     *)
(* sessions, commands, goroutines and restarts, and any limits.            *)
(***************************************************************************)
EXTENDS Broker, SequenceTheorems, FiniteSetTheorems, TLAPS

-----------------------------------------------------------------------------
(* Sequences without repetition: the queues and the stored results.        *)

LEMMA AppendDistinct ==
  ASSUME NEW S, NEW q \in Seq(S), NEW c \in S, IsInjective(q), c \notin ToSet(q)
  PROVE  /\ Append(q, c) \in Seq(S)
         /\ IsInjective(Append(q, c))
         /\ ToSet(Append(q, c)) = ToSet(q) \cup {c}
<1> DEFINE r == Append(q, c)
<1>1. /\ r \in Seq(S) /\ Len(r) = Len(q) + 1 /\ Len(q) \in Nat
      /\ DOMAIN q = 1..Len(q) /\ DOMAIN r = 1..(Len(q) + 1)
  BY AppendProperties, LenProperties
<1>2. r[Len(q) + 1] = c /\ \A i \in 1..Len(q) : r[i] = q[i]
  BY AppendProperties
<1>3. \A i \in 1..Len(q) : q[i] \in ToSet(q)
  BY <1>1 DEF ToSet
<1>4. IsInjective(r)
  BY <1>1, <1>2, <1>3 DEF IsInjective
<1>5. ToSet(r) = ToSet(q) \cup {c}
  BY <1>1, <1>2 DEF ToSet
<1> QED BY <1>1, <1>4, <1>5

LEMMA ConcatDistinct ==
  ASSUME NEW S, NEW q \in Seq(S), NEW r \in Seq(S),
         IsInjective(q), IsInjective(r), ToSet(q) \cap ToSet(r) = {}
  PROVE  /\ q \o r \in Seq(S)
         /\ IsInjective(q \o r)
         /\ ToSet(q \o r) = ToSet(q) \cup ToSet(r)
<1> DEFINE t == q \o r
<1>1. /\ t \in Seq(S) /\ Len(t) = Len(q) + Len(r) /\ Len(q) \in Nat /\ Len(r) \in Nat
      /\ DOMAIN q = 1..Len(q) /\ DOMAIN r = 1..Len(r)
      /\ DOMAIN t = 1..(Len(q) + Len(r))
  BY ConcatProperties, LenProperties
<1>2. \A i \in 1..(Len(q) + Len(r)) :
         t[i] = IF i <= Len(q) THEN q[i] ELSE r[i - Len(q)]
  BY ConcatProperties
<1>3. \A i \in 1..Len(q), j \in 1..Len(r) : q[i] # r[j]
  BY <1>1 DEF ToSet
<1>4. IsInjective(t)
  <2> SUFFICES ASSUME NEW i \in DOMAIN t, NEW j \in DOMAIN t, t[i] = t[j]
               PROVE  i = j
    BY DEF IsInjective
  <2>1. CASE i <= Len(q) /\ j <= Len(q)
    BY <1>1, <1>2, <2>1 DEF IsInjective
  <2>2. CASE i > Len(q) /\ j > Len(q)
    <3>1. i - Len(q) \in DOMAIN r /\ j - Len(q) \in DOMAIN r
      BY <1>1, <2>2
    <3>2. r[i - Len(q)] = r[j - Len(q)]
      BY <1>1, <1>2, <2>2
    <3>3. i - Len(q) = j - Len(q)
      BY <3>1, <3>2 DEF IsInjective
    <3> QED BY <1>1, <3>3
  <2>3. CASE i <= Len(q) /\ j > Len(q)
    BY <1>1, <1>2, <1>3, <2>3
  <2>4. CASE i > Len(q) /\ j <= Len(q)
    BY <1>1, <1>2, <1>3, <2>4
  <2> QED BY <1>1, <2>1, <2>2, <2>3, <2>4
<1>5. ToSet(t) = ToSet(q) \cup ToSet(r)
  <2>1. ToSet(t) \subseteq ToSet(q) \cup ToSet(r)
    BY <1>1, <1>2 DEF ToSet
  <2>2. ToSet(q) \subseteq ToSet(t)
    BY <1>1, <1>2 DEF ToSet
  <2>3. ASSUME NEW j \in DOMAIN r PROVE r[j] \in ToSet(t)
    <3>1. Len(q) + j \in DOMAIN t /\ t[Len(q) + j] = r[j]
      BY <1>1, <1>2
    <3> QED BY <3>1 DEF ToSet
  <2> QED BY <2>1, <2>2, <2>3 DEF ToSet
<1> QED BY <1>1, <1>4, <1>5

LEMMA ConsDistinct ==
  ASSUME NEW S, NEW q \in Seq(S), NEW c \in S, IsInjective(q), c \notin ToSet(q)
  PROVE  /\ Cons(c, q) \in Seq(S)
         /\ IsInjective(Cons(c, q))
         /\ ToSet(Cons(c, q)) = ToSet(q) \cup {c}
<1> DEFINE one == <<c>>
<1>1. one \in Seq(S) /\ IsInjective(one) /\ ToSet(one) = {c}
  BY DEF IsInjective, ToSet
<1>2. Cons(c, q) = one \o q
  BY DEF Cons
<1> HIDE DEF one
<1>3. ToSet(one) \cap ToSet(q) = {}
  BY <1>1
<1>4. /\ one \o q \in Seq(S)
      /\ IsInjective(one \o q)
      /\ ToSet(one \o q) = ToSet(one) \cup ToSet(q)
  BY <1>1, <1>3, ConcatDistinct
<1> QED BY <1>1, <1>2, <1>4

LEMMA TailDistinct ==
  ASSUME NEW S, NEW q \in Seq(S), q # <<>>, IsInjective(q)
  PROVE  /\ Tail(q) \in Seq(S)
         /\ IsInjective(Tail(q))
         /\ Head(q) \in S
         /\ Head(q) \in ToSet(q)
         /\ ToSet(Tail(q)) = ToSet(q) \ {Head(q)}
<1> DEFINE t == Tail(q)
<1>1. /\ t \in Seq(S) /\ Len(t) = Len(q) - 1 /\ Len(q) \in Nat /\ Len(q) >= 1
      /\ DOMAIN q = 1..Len(q) /\ DOMAIN t = 1..(Len(q) - 1)
  BY HeadTailProperties, EmptySeq, LenProperties
<1>2. Head(q) = q[1] /\ \A i \in 1..(Len(q) - 1) : t[i] = q[i + 1]
  BY HeadTailProperties, <1>1
<1>3. IsInjective(t)
  BY <1>1, <1>2 DEF IsInjective
<1>4. Head(q) \in S /\ Head(q) \in ToSet(q)
  BY <1>1, <1>2 DEF ToSet
<1>5. ToSet(t) = ToSet(q) \ {Head(q)}
  <2>1. ASSUME NEW i \in DOMAIN t PROVE t[i] \in ToSet(q) \ {Head(q)}
    BY <1>1, <1>2 DEF ToSet, IsInjective
  <2>2. ASSUME NEW i \in DOMAIN q, q[i] # Head(q) PROVE q[i] \in ToSet(t)
    <3>1. i - 1 \in DOMAIN t /\ t[i - 1] = q[i]
      BY <1>1, <1>2, <2>2
    <3> QED BY <3>1 DEF ToSet
  <2> QED BY <2>1, <2>2 DEF ToSet
<1> QED BY <1>1, <1>3, <1>4, <1>5

\* An arrangement of a finite set lists each of its members once.
LEMMA OrderDistinct ==
  ASSUME NEW S, IsFiniteSet(S), NEW order \in SetToSeqs(S)
  PROVE  /\ order \in Seq(S)
         /\ IsInjective(order)
         /\ ToSet(order) = S
<1> DEFINE n == Cardinality(S)
<1>1. n \in Nat
  BY FS_CardinalityType
<1>2. /\ order \in [1..n -> S]
      /\ \A i, j \in 1..n : i # j => order[i] # order[j]
  BY DEF SetToSeqs
<1>3. order \in Seq(S)
  BY <1>1, <1>2
<1>4. IsInjective(order) /\ order \in Injection(1..n, S)
  BY <1>2 DEF IsInjective, Injection
<1>5. Cardinality(1..n) = n
  BY <1>1, FS_Interval
<1>6. order \in Surjection(1..n, S)
  BY <1>4, <1>5, FS_Injection
<1>7. ToSet(order) = S
  BY <1>2, <1>6 DEF Surjection, ToSet
<1> QED BY <1>3, <1>4, <1>7

-----------------------------------------------------------------------------
(* Entries.                                                                *)

Unstarted == {"none", "pending", "rejected", "gone"}

\* What holds of every entry, in memory or in the file.
EntryOK(e) ==
  /\ e \in Entry
  /\ Len(e.results) <= ResultCap
  /\ QueueExactIn(e)
  /\ ResultsOnceIn(e)
  /\ e.status \in Unstarted => Issued(e) = {}

USE CommandsAssumption, PayloadsAssumption, LimitsAssumption

-----------------------------------------------------------------------------
(* Every handler's change of an entry keeps EntryOK.                       *)

LEMMA NoEntryOK ==
  ASSUME NEW status \in {"none", "pending", "gone"}
  PROVE  EntryOK(NoEntry(status))
<1> DEFINE e == NoEntry(status)
<1>1. e \in Entry
  BY DEF NoEntry, Entry, EntryStates, CommandStates
<1>2. e.queue = <<>> /\ e.results = <<>> /\ \A c \in Commands : e.cmd[c] = "absent"
  BY DEF NoEntry
<1>3. IsInjective(<<>>) /\ ToSet(<<>>) = {} /\ Len(<<>>) = 0
  BY DEF IsInjective, ToSet
<1>4. InState(e, "queued") = {} /\ Issued(e) = {}
  BY <1>2 DEF InState, Issued
<1> QED BY <1>1, <1>2, <1>3, <1>4 DEF EntryOK, QueueExactIn, ResultsOnceIn

LEMMA ClearOK ==
  ASSUME NEW e, EntryOK(e)
  PROVE  EntryOK([e EXCEPT !.clear = 0])
<1> DEFINE f == [e EXCEPT !.clear = 0]
<1>1. f \in Entry /\ f.status = e.status /\ f.queue = e.queue /\ f.results = e.results
      /\ f.cmd = e.cmd
  BY DEF EntryOK, Entry
<1> QED BY <1>1 DEF EntryOK, QueueExactIn, ResultsOnceIn, InState, Issued

LEMMA ApprovedType ==
  ASSUME NEW e \in Entry, NEW n \in Nat, NEW q \in Seq(Commands)
  PROVE  [e EXCEPT !.status = "approved",
                   !.token  = n,
                   !.clear  = n,
                   !.cmd[InitialCommand] = "queued",
                   !.payload[InitialCommand] = InitialPayload,
                   !.queue  = q] \in Entry
  BY DEF Entry, EntryStates, CommandStates

LEMMA ApprovedOK ==
  ASSUME NEW e, EntryOK(e), e.status = "pending"
  PROVE  EntryOK(Approved(e))
<1> DEFINE f == Approved(e)
<1>1. /\ e \in Entry /\ Issued(e) = {} /\ QueueExactIn(e) /\ ResultsOnceIn(e)
      /\ InitialCommand \in Commands
  BY DEF EntryOK, Unstarted
<1>2. \A c \in Commands : e.cmd[c] = "absent"
  BY <1>1 DEF Issued, InState
<1>3. ToSet(e.queue) = {} /\ ToSet(e.results) = {}
  BY <1>1, <1>2 DEF QueueExactIn, ResultsOnceIn, InState
<1>4. /\ Append(e.queue, InitialCommand) \in Seq(Commands)
      /\ IsInjective(Append(e.queue, InitialCommand))
      /\ ToSet(Append(e.queue, InitialCommand)) = {InitialCommand}
  BY <1>1, <1>3, AppendDistinct DEF Entry, QueueExactIn
<1>5. /\ f.status = "approved"
      /\ f.queue = Append(e.queue, InitialCommand)
      /\ f.cmd = [e.cmd EXCEPT ![InitialCommand] = "queued"]
      /\ f.results = e.results
  BY <1>1 DEF Approved, Entry
<1>7. e.token + 1 \in Nat
  BY <1>1 DEF Entry
<1>8. f \in Entry
  BY <1>1, <1>4, <1>7, ApprovedType DEF Approved
<1>6. InState(f, "queued") = {InitialCommand}
  <2> HIDE DEF f
  <2> QED BY <1>1, <1>2, <1>5 DEF InState, Entry
<1> QED
  BY <1>1, <1>3, <1>4, <1>5, <1>6, <1>8 DEF EntryOK, QueueExactIn, ResultsOnceIn, Unstarted

LEMMA RejectedOK ==
  ASSUME NEW e, EntryOK(e), e.status = "pending"
  PROVE  EntryOK([e EXCEPT !.status = "rejected"])
<1> DEFINE f == [e EXCEPT !.status = "rejected"]
<1>1. /\ f \in Entry /\ f.status = "rejected"
      /\ f.queue = e.queue /\ f.results = e.results /\ f.cmd = e.cmd
  BY DEF EntryOK, Entry, EntryStates
<1> QED
  BY <1>1 DEF EntryOK, QueueExactIn, ResultsOnceIn, InState, Issued, Unstarted

LEMMA EnqueuedOK ==
  ASSUME NEW e, EntryOK(e), e.status = "approved",
         NEW c \in Commands, c \notin Issued(e), NEW pl \in Payloads
  PROVE  EntryOK(Enqueued(e, c, pl))
<1> DEFINE f == Enqueued(e, c, pl)
           q == IF pl \in Control THEN Cons(c, e.queue) ELSE Append(e.queue, c)
<1>1. e \in Entry /\ QueueExactIn(e) /\ ResultsOnceIn(e) /\ e.cmd[c] = "absent"
  BY DEF EntryOK, Issued, InState
<1>2. c \notin ToSet(e.queue) /\ e.queue \in Seq(Commands) /\ IsInjective(e.queue)
  BY <1>1 DEF QueueExactIn, InState, Entry
<1>3. q \in Seq(Commands) /\ IsInjective(q) /\ ToSet(q) = ToSet(e.queue) \cup {c}
  <2>1. CASE pl \in Control
    BY <1>2, <2>1, ConsDistinct
  <2>2. CASE pl \notin Control
    BY <1>2, <2>2, AppendDistinct
  <2> QED BY <2>1, <2>2
<1>4. /\ f \in Entry /\ f.status = e.status /\ f.queue = q /\ f.results = e.results
      /\ f.cmd = [e.cmd EXCEPT ![c] = "queued"]
  BY <1>1, <1>3 DEF Enqueued, Entry, CommandStates
<1>5. /\ InState(f, "queued") = InState(e, "queued") \cup {c}
      /\ InState(f, "completed") = InState(e, "completed")
  BY <1>1, <1>4 DEF InState, Entry
<1> QED
  BY <1>1, <1>3, <1>4, <1>5 DEF EntryOK, QueueExactIn, ResultsOnceIn, Unstarted

LEMMA RequeuedOK ==
  ASSUME NEW e, EntryOK(e), NEW S \in SUBSET InState(e, "leased"),
         NEW order \in SetToSeqs(S)
  PROVE  EntryOK(Requeued(e, order))
<1> DEFINE f == Requeued(e, order)
<1>1. e \in Entry /\ QueueExactIn(e) /\ ResultsOnceIn(e)
  BY DEF EntryOK
<1>2. S \subseteq Commands /\ IsFiniteSet(S)
  BY FS_Subset DEF InState
<1>3. order \in Seq(S) /\ IsInjective(order) /\ ToSet(order) = S
  BY <1>2, OrderDistinct
<1>4. order \in Seq(Commands) /\ e.queue \in Seq(Commands) /\ IsInjective(e.queue)
  BY <1>1, <1>2, <1>3 DEF Entry, QueueExactIn
<1>5. ToSet(e.queue) \cap ToSet(order) = {}
  BY <1>1, <1>3 DEF QueueExactIn, InState
<1>6. /\ e.queue \o order \in Seq(Commands)
      /\ IsInjective(e.queue \o order)
      /\ ToSet(e.queue \o order) = ToSet(e.queue) \cup S
  BY <1>3, <1>4, <1>5, ConcatDistinct
<1>7. /\ f \in Entry /\ f.status = e.status /\ f.queue = e.queue \o order
      /\ f.results = e.results
      /\ f.cmd = [c \in Commands |-> IF c \in S THEN "queued" ELSE e.cmd[c]]
  BY <1>1, <1>3, <1>6 DEF Requeued, Entry, CommandStates
<1>8. /\ InState(f, "queued") = InState(e, "queued") \cup S
      /\ InState(f, "completed") = InState(e, "completed")
      /\ Issued(f) = Issued(e)
  BY <1>1, <1>2, <1>7 DEF InState, Issued, Entry
<1> QED BY <1>1, <1>6, <1>7, <1>8 DEF EntryOK, QueueExactIn, ResultsOnceIn

LEMMA PoppedOK ==
  ASSUME NEW e, EntryOK(e), e.queue # <<>>
  PROVE  EntryOK(Popped(e)) /\ e.cmd[Head(e.queue)] = "queued"
<1> DEFINE f == Popped(e)
           c == Head(e.queue)
<1>1. e \in Entry /\ QueueExactIn(e) /\ ResultsOnceIn(e) /\ e.queue \in Seq(Commands)
  BY DEF EntryOK, Entry
<1>2. /\ Tail(e.queue) \in Seq(Commands) /\ IsInjective(Tail(e.queue))
      /\ c \in Commands /\ c \in ToSet(e.queue)
      /\ ToSet(Tail(e.queue)) = ToSet(e.queue) \ {c}
  BY <1>1, TailDistinct DEF QueueExactIn
<1>3. e.cmd[c] = "queued"
  BY <1>1, <1>2 DEF QueueExactIn, InState
<1>4. /\ f \in Entry /\ f.status = e.status /\ f.queue = Tail(e.queue)
      /\ f.results = e.results /\ f.cmd = [e.cmd EXCEPT ![c] = "leased"]
  BY <1>1, <1>2, <1>3 DEF Popped, Entry, CommandStates
<1>5. /\ InState(f, "queued") = InState(e, "queued") \ {c}
      /\ InState(f, "completed") = InState(e, "completed")
      /\ Issued(f) = Issued(e)
  BY <1>1, <1>2, <1>3, <1>4 DEF InState, Issued, Entry
<1> QED BY <1>1, <1>2, <1>3, <1>4, <1>5 DEF EntryOK, QueueExactIn, ResultsOnceIn

LEMMA AcknowledgedOK ==
  ASSUME NEW e, EntryOK(e), NEW c \in Commands, e.cmd[c] = "leased"
  PROVE  EntryOK(Acknowledged(e, c))
<1> DEFINE f == Acknowledged(e, c)
<1>1. e \in Entry /\ QueueExactIn(e) /\ ResultsOnceIn(e)
  BY DEF EntryOK
<1>2. /\ f \in Entry /\ f.status = e.status /\ f.queue = e.queue
      /\ f.results = e.results /\ f.cmd = [e.cmd EXCEPT ![c] = "running"]
  BY <1>1 DEF Acknowledged, Entry, CommandStates
<1>3. /\ InState(f, "queued") = InState(e, "queued")
      /\ InState(f, "completed") = InState(e, "completed")
      /\ Issued(f) = Issued(e)
  BY <1>1, <1>2 DEF InState, Issued, Entry
<1> QED BY <1>1, <1>2, <1>3 DEF EntryOK, QueueExactIn, ResultsOnceIn

LEMMA CompletedOK ==
  ASSUME NEW e, EntryOK(e), NEW c \in Commands, e.cmd[c] = "running"
  PROVE  EntryOK(Completed(e, c))
<1> DEFINE f == Completed(e, c)
           r == IF Len(e.results) < ResultCap THEN Append(e.results, c) ELSE e.results
<1>1. /\ e \in Entry /\ QueueExactIn(e) /\ ResultsOnceIn(e)
      /\ e.results \in Seq(Commands) /\ Len(e.results) <= ResultCap
  BY DEF EntryOK, Entry
<1>2. c \notin ToSet(e.results) /\ IsInjective(e.results)
  BY <1>1 DEF ResultsOnceIn, InState
<1>3. /\ r \in Seq(Commands) /\ IsInjective(r)
      /\ ToSet(r) \subseteq ToSet(e.results) \cup {c}
      /\ Len(r) <= ResultCap
  <2>1. CASE Len(e.results) < ResultCap
    <3>1. Len(r) = Len(e.results) + 1
      BY <1>1, <2>1, AppendProperties
    <3> QED BY <1>1, <1>2, <2>1, <3>1, AppendDistinct, LenProperties
  <2>2. CASE ~(Len(e.results) < ResultCap)
    BY <1>1, <1>2, <2>2
  <2> QED BY <2>1, <2>2
<1>4. /\ f \in Entry /\ f.status = e.status /\ f.queue = e.queue
      /\ f.results = r /\ f.cmd = [e.cmd EXCEPT ![c] = "completed"]
  BY <1>1, <1>3 DEF Completed, Entry, CommandStates
<1>5. /\ InState(f, "queued") = InState(e, "queued")
      /\ InState(f, "completed") = InState(e, "completed") \cup {c}
      /\ Issued(f) = Issued(e)
  BY <1>1, <1>4 DEF InState, Issued, Entry
<1> QED BY <1>1, <1>3, <1>4, <1>5 DEF EntryOK, QueueExactIn, ResultsOnceIn

LEMMA ConsumedOK ==
  ASSUME NEW e, EntryOK(e)
  PROVE  EntryOK(Consumed(e))
<1> DEFINE f == Consumed(e)
<1>1. /\ f \in Entry /\ f.status = e.status /\ f.queue = e.queue
      /\ f.results = <<>> /\ f.cmd = e.cmd
  <2>1. e \in Entry /\ <<>> \in Seq(Commands)
    BY EmptySeq DEF EntryOK
  <2>2. \A r \in Seq(Commands) : [e EXCEPT !.results = r] \in Entry
    BY <2>1 DEF Entry
  <2> QED BY <2>1, <2>2 DEF Entry, Consumed
<1>2. IsInjective(<<>>) /\ ToSet(<<>>) = {} /\ Len(<<>>) <= ResultCap
  BY DEF IsInjective, ToSet
<1> QED BY <1>1, <1>2 DEF EntryOK, QueueExactIn, ResultsOnceIn, InState, Issued

LEMMA RevokedOK ==
  ASSUME NEW e, EntryOK(e)
  PROVE  EntryOK(RevokedByAdmin(e)) /\ EntryOK(RevokedByGuest(e))
<1>1. e \in Entry /\ QueueExactIn(e) /\ ResultsOnceIn(e)
  BY DEF EntryOK
<1>2. IsInjective(<<>>) /\ ToSet(<<>>) = {}
  BY DEF IsInjective, ToSet
<1>3. EntryOK(RevokedByAdmin(e))
  <2> DEFINE f == RevokedByAdmin(e)
  <2>1. /\ f \in Entry /\ f.status = "revoked" /\ f.queue = <<>>
        /\ f.results = e.results /\ f.cmd = e.cmd
    <3>1. <<>> \in Seq(Commands)
      BY EmptySeq
    <3>2. \A q \in Seq(Commands) :
            [e EXCEPT !.status = "revoked", !.token = 0, !.queue = q] \in Entry
      BY <1>1 DEF Entry, EntryStates
    <3> QED BY <1>1, <3>1, <3>2 DEF Entry, RevokedByAdmin
  <2> QED
    BY <1>1, <1>2, <2>1
    DEF EntryOK, QueueExactIn, ResultsOnceIn, InState, Issued, Unstarted
<1>4. EntryOK(RevokedByGuest(e))
  <2> DEFINE f == RevokedByGuest(e)
  <2>1. /\ f \in Entry /\ f.status = "revoked" /\ f.queue = e.queue
        /\ f.results = e.results /\ f.cmd = e.cmd
    BY <1>1 DEF Entry, EntryStates, RevokedByGuest
  <2> QED
    BY <1>1, <2>1
    DEF EntryOK, QueueExactIn, ResultsOnceIn, InState, Issued, Unstarted
<1> QED BY <1>3, <1>4

LEMMA ReissuedOK ==
  ASSUME NEW e, EntryOK(e)
  PROVE  EntryOK(Reissued(e))
<1> DEFINE f == Reissued(e)
<1>1. e \in Entry /\ e.token + 1 \in Nat
  BY DEF EntryOK, Entry
<1>2. \A n \in Nat : [e EXCEPT !.token = n, !.clear = n] \in Entry
  BY <1>1 DEF Entry
<1>3. f \in Entry
  BY <1>1, <1>2 DEF Reissued
<1>4. f.status = e.status /\ f.queue = e.queue /\ f.results = e.results /\ f.cmd = e.cmd
  BY <1>1 DEF Entry, Reissued
<1> QED BY <1>3, <1>4 DEF EntryOK, QueueExactIn, ResultsOnceIn, InState, Issued

LEMMA RecoveredOK ==
  ASSUME NEW e, EntryOK(e), NEW order \in RecoveredQueues(e)
  PROVE  EntryOK(Recovered(e, order))
<1> DEFINE f == Recovered(e, order)
<1>1. e \in Entry /\ QueueExactIn(e) /\ ResultsOnceIn(e)
  BY DEF EntryOK
<1>2. /\ Unacknowledged(e) \subseteq Commands /\ IsFiniteSet(Unacknowledged(e))
      /\ order \in SetToSeqs(Unacknowledged(e))
  BY FS_Subset DEF Unacknowledged, InState, RecoveredQueues
<1>3. /\ order \in Seq(Commands) /\ IsInjective(order)
      /\ ToSet(order) = Unacknowledged(e)
  BY <1>2, OrderDistinct
<1>4. /\ f \in Entry /\ f.status = e.status /\ f.queue = order
      /\ f.results = e.results
      /\ f.cmd = [c \in Commands |-> IF c \in InState(e, "leased") THEN "queued"
                                                                   ELSE e.cmd[c]]
  BY <1>1, <1>3 DEF Recovered, Entry, CommandStates
<1>5. /\ InState(f, "queued") = Unacknowledged(e)
      /\ InState(f, "completed") = InState(e, "completed")
      /\ Issued(f) = Issued(e)
  BY <1>1, <1>4 DEF InState, Issued, Entry, Unacknowledged
<1> QED BY <1>1, <1>3, <1>4, <1>5 DEF EntryOK, QueueExactIn, ResultsOnceIn

-----------------------------------------------------------------------------
(* The inductive invariant: the entries, and the types of the rest.        *)

EntriesOK ==
  /\ p \in [Sessions -> Entry]
  /\ disk \in [Sessions -> Entry]
  /\ \A s \in Sessions : EntryOK(p[s]) /\ EntryOK(disk[s])

RestOK ==
  /\ live \subseteq Sessions
  /\ conn \in [Handlers -> Calls \cup {Idle}]
  /\ aged \subseteq Sessions
  /\ expired \subseteq Sessions
  /\ lapsed \subseteq Sessions \X Commands
  /\ restarts \in 0..MaxRestarts
  /\ told \in Told

IInv == EntriesOK /\ RestOK

LEMMA SnapshotOK ==
  ASSUME NEW q \in [Sessions -> Entry], \A s \in Sessions : EntryOK(q[s]),
         NEW keys
  PROVE  /\ Snapshot(q, keys) \in [Sessions -> Entry]
         /\ \A s \in Sessions : EntryOK(Snapshot(q, keys)[s])
<1>1. ASSUME NEW s \in Sessions PROVE EntryOK(Snapshot(q, keys)[s])
  <2>1. EntryOK(NoEntry("none"))
    BY NoEntryOK
  <2>2. EntryOK([q[s] EXCEPT !.clear = 0])
    BY ClearOK
  <2> QED BY <2>1, <2>2 DEF Snapshot
<1>2. \A s \in Sessions : Snapshot(q, keys)[s] \in Entry
  BY <1>1 DEF EntryOK
<1> QED BY <1>1, <1>2 DEF Snapshot

\* One entry changes, and the file is left alone or holds a new snapshot.
LEMMA WriteOK ==
  ASSUME EntriesOK, NEW s \in Sessions, NEW e, EntryOK(e), NEW keys,
         p' = [p EXCEPT ![s] = e],
         disk' = Snapshot(p', keys) \/ disk' = disk
  PROVE  EntriesOK'
<1>1. p' \in [Sessions -> Entry] /\ \A t \in Sessions : EntryOK(p'[t])
  BY DEF EntriesOK, EntryOK
<1>2. disk' \in [Sessions -> Entry] /\ \A t \in Sessions : EntryOK(disk'[t])
  <2>1. CASE disk' = Snapshot(p', keys)
    BY <1>1, <2>1, SnapshotOK
  <2>2. CASE disk' = disk
    BY <2>2 DEF EntriesOK
  <2> QED BY <2>1, <2>2
<1> QED BY <1>1, <1>2 DEF EntriesOK

LEMMA InitIInv == Init => IInv
<1> SUFFICES ASSUME Init PROVE IInv
  OBVIOUS
<1>1. EntryOK(NoEntry("none"))
  BY NoEntryOK
<1>2. NoEntry("none") \in Entry
  BY <1>1 DEF EntryOK
<1>3. EntriesOK
  BY <1>1, <1>2 DEF Init, EntriesOK
<1>4. told \in Told
  BY DEF Init, Told
<1>5. RestOK
  BY <1>4 DEF Init, RestOK
<1> QED BY <1>3, <1>5 DEF IInv

LEMMA PollEntry ==
  ASSUME EntriesOK, NEW s \in Sessions, NEW order \in SetToSeqs(Overdue(s))
  PROVE  /\ EntryOK(Requeued(p[s], order))
         /\ Requeued(p[s], order).queue # <<>> =>
              /\ EntryOK(Popped(Requeued(p[s], order)))
              /\ LET e == Requeued(p[s], order) IN e.cmd[Head(e.queue)] = "queued"
<1>1. EntryOK(p[s]) /\ Overdue(s) \in SUBSET InState(p[s], "leased")
  BY DEF EntriesOK, Overdue
<1>2. EntryOK(Requeued(p[s], order))
  BY <1>1, RequeuedOK
<1> QED BY <1>2, PoppedOK

\* A restart leaves, of every session, a recovered entry of the file or none.
LEMMA AfterRestartOK ==
  ASSUME EntriesOK, NEW s \in Sessions, NEW e \in AfterRestart(s)
  PROVE  EntryOK(e)
<1>1. EntryOK(disk[s])
  BY DEF EntriesOK
<1>2. CASE Kept(s)
  BY <1>1, <1>2, RecoveredOK DEF AfterRestart
<1>3. CASE ~Kept(s)
  BY <1>3, NoEntryOK DEF AfterRestart
<1> QED BY <1>2, <1>3

LEMMA EntriesStep == IInv /\ [Next]_vars => EntriesOK'
<1> SUFFICES ASSUME IInv, [Next]_vars PROVE EntriesOK'
  OBVIOUS
<1>0. EntriesOK /\ \A s \in Sessions : EntryOK(p[s])
  BY DEF IInv, EntriesOK
<1>1. ASSUME NEW s \in Sessions, Approve(s) PROVE EntriesOK'
  BY <1>0, <1>1, ApprovedOK, WriteOK DEF Approve, Saved
<1>2. ASSUME NEW s \in Sessions, Reject(s) PROVE EntriesOK'
  BY <1>0, <1>2, RejectedOK, WriteOK DEF Reject, Saved
<1>3. ASSUME NEW s \in Sessions, AdminRevoke(s) PROVE EntriesOK'
  BY <1>0, <1>3, RevokedOK, WriteOK DEF AdminRevoke, Saved, Unsaved
<1>4. ASSUME NEW s \in Sessions, ConsumeResults(s) PROVE EntriesOK'
  BY <1>0, <1>4, ConsumedOK, WriteOK DEF ConsumeResults, Saved, Unsaved
<1>5. ASSUME NEW s \in Sessions, NEW c \in Commands, NEW pl \in Payloads,
             Enqueue(s, c, pl)
      PROVE  EntriesOK'
  BY <1>0, <1>5, EnqueuedOK, WriteOK DEF Enqueue, Saved
<1>6. ASSUME NEW s \in Sessions, Pair(s) PROVE EntriesOK'
  <2>1. EntryOK(NewEntry)
    BY NoEntryOK DEF NewEntry
  <2> QED BY <1>0, <1>6, <2>1, WriteOK DEF Pair
<1>7. ASSUME NEW s \in Sessions, Status(s) PROVE EntriesOK'
  <2>1. CASE UNCHANGED <<p, disk>>
    BY <1>0, <2>1 DEF EntriesOK
  <2>2. CASE Saved(s, Reissued(p[s]))
    BY <1>0, <2>2, ReissuedOK, WriteOK DEF Saved
  <2> QED BY <1>7, <2>1, <2>2 DEF Status
<1>8. ASSUME NEW h \in Handlers, PollDeliver(h), conn[h].s \in Sessions
      PROVE  EntriesOK'
  BY <1>0, <1>8, PollEntry, WriteOK DEF PollDeliver, Saved, Unsaved
<1>9. ASSUME NEW h \in Handlers, NEW c \in Commands, Ack(h, c), conn[h].s \in Sessions
      PROVE  EntriesOK'
  BY <1>0, <1>9, AcknowledgedOK, WriteOK DEF Ack, Saved, Unsaved
<1>10. ASSUME NEW h \in Handlers, NEW c \in Commands, Result(h, c),
              conn[h].s \in Sessions
       PROVE  EntriesOK'
  BY <1>0, <1>10, CompletedOK, WriteOK DEF Result, Saved, Unsaved
<1>11. ASSUME NEW h \in Handlers, GuestRevoke(h), conn[h].s \in Sessions
       PROVE  EntriesOK'
  BY <1>0, <1>11, RevokedOK, WriteOK DEF GuestRevoke, Saved, Unsaved
<1>12. ASSUME Janitor PROVE EntriesOK'
  BY <1>0, <1>12, SnapshotOK DEF Janitor, EntriesOK
<1>13. ASSUME Restart PROVE EntriesOK'
  <2>1. \A s \in Sessions : p'[s] \in AfterRestart(s) /\ EntryOK(p'[s])
    BY <1>0, <1>13, AfterRestartOK DEF Restart
  <2>2. p' \in [Sessions -> Entry]
    BY <1>13, <2>1 DEF Restart, EntryOK
  <2> QED BY <1>13, <2>1, <2>2, SnapshotOK DEF Restart, EntriesOK
<1>14. CASE UNCHANGED <<p, disk>>
  BY <1>0, <1>14 DEF EntriesOK
<1>15. ASSUME NEW h \in Handlers, conn[h].op \in {"poll", "ack", "result", "revoke"}
       PROVE  conn[h].s \in Sessions
  BY <1>15 DEF IInv, RestOK, Calls, Idle
<1>16. ASSUME NEW h \in Handlers, Serve(h) PROVE EntriesOK'
  <2>1. CASE PollDeliver(h)
    BY <1>8, <1>15, <2>1 DEF PollDeliver, Serving
  <2>2. CASE PollEmpty(h) \/ Refuse(h)
    BY <1>14, <2>2 DEF PollEmpty, Refuse
  <2>3. CASE GuestRevoke(h)
    BY <1>11, <1>15, <2>3 DEF GuestRevoke, Serving
  <2>4. ASSUME NEW c \in Commands, Ack(h, c) PROVE EntriesOK'
    BY <1>9, <1>15, <2>4 DEF Ack, Serving
  <2>5. ASSUME NEW c \in Commands, Result(h, c) PROVE EntriesOK'
    BY <1>10, <1>15, <2>5 DEF Result, Serving
  <2> QED BY <1>16, <2>1, <2>2, <2>3, <2>4, <2>5 DEF Serve
<1>17. CASE Operator
  BY <1>1, <1>2, <1>3, <1>4, <1>5, <1>17 DEF Operator
<1>18. CASE Guest
  <2>1. ASSUME NEW h \in Handlers, NEW op, NEW s \in Sessions, Authenticate(h, op, s)
        PROVE  EntriesOK'
    BY <1>14, <2>1 DEF Authenticate
  <2> QED BY <1>6, <1>7, <1>18, <2>1 DEF Guest
<1>19. CASE Time
  BY <1>14, <1>19 DEF Time, Age, Expire, Lapse
<1>20. CASE UNCHANGED vars
  BY <1>14, <1>20 DEF vars
<1> QED BY <1>12, <1>13, <1>16, <1>17, <1>18, <1>19, <1>20 DEF Next

LEMMA ReturnOK ==
  ASSUME RestOK, NEW h \in Handlers, Return(h)
  PROVE  conn' \in [Handlers -> Calls \cup {Idle}]
  BY DEF RestOK, Return

\* The record of answers keeps its type, whichever field an answer is put in.
LEMMA ToldOK ==
  ASSUME told \in Told, NEW s \in Sessions, NEW n \in Nat,
         NEW S \in SUBSET (Sessions \X Commands)
  PROVE  /\ [told EXCEPT !.token[s] = n] \in Told
         /\ [told EXCEPT !.started = @ \cup S] \in Told
         /\ [told EXCEPT !.accepted = @ \cup S] \in Told
         /\ [told EXCEPT !.fetched = @ \cup S] \in Told
         /\ [told EXCEPT !.revoked = @ \cup {s}] \in Told
  BY DEF Told

LEMMA RestStep == IInv /\ [Next]_vars => RestOK'
<1> SUFFICES ASSUME IInv, [Next]_vars PROVE RestOK'
  OBVIOUS
<1>0. /\ RestOK /\ told \in Told /\ EntriesOK'
      /\ \A s \in Sessions : EntryOK(p[s]) /\ p[s] \in Entry
  BY EntriesStep DEF IInv, RestOK, EntriesOK, EntryOK
<1>1. ASSUME NEW s \in Sessions, Pair(s) PROVE RestOK'
  BY <1>0, <1>1 DEF Pair, RestOK
<1>2. ASSUME NEW s \in Sessions,
             Approve(s) \/ Reject(s) \/ \E c \in Commands, pl \in Payloads : Enqueue(s, c, pl)
      PROVE  RestOK'
  BY <1>0, <1>2 DEF Approve, Reject, Enqueue, RestOK
<1>3. ASSUME NEW s \in Sessions, Status(s) PROVE RestOK'
  <2>1. p[s].clear \in Nat /\ p'[s].clear \in Nat
    BY <1>0 DEF EntriesOK, EntryOK, Entry
  <2>2. \/ told' = [told EXCEPT !.token[s] = p[s].clear]
        \/ told' = [told EXCEPT !.token[s] = p'[s].clear]
    BY <1>3 DEF Status
  <2>3. \A n \in Nat : [told EXCEPT !.token[s] = n] \in Told
    BY <1>0, ToldOK
  <2>4. told' \in Told
    BY <2>1, <2>2, <2>3
  <2>5. UNCHANGED <<live, conn, aged, expired, lapsed, restarts>>
    BY <1>3 DEF Status
  <2> QED BY <1>0, <2>4, <2>5 DEF RestOK
<1>4. ASSUME NEW s \in Sessions, AdminRevoke(s) PROVE RestOK'
  <2>1. told' \in Told
    BY <1>0, <1>4, ToldOK DEF AdminRevoke
  <2> QED BY <1>0, <1>4, <2>1 DEF AdminRevoke, RestOK
<1>5. ASSUME NEW s \in Sessions, ConsumeResults(s) PROVE RestOK'
  <2>1. {s} \X ToSet(p[s].results) \in SUBSET (Sessions \X Commands)
    BY <1>0 DEF EntryOK, ResultsOnceIn, InState
  <2>2. told' \in Told
    BY <1>0, <1>5, <2>1, ToldOK DEF ConsumeResults
  <2> QED BY <1>0, <1>5, <2>2 DEF ConsumeResults, RestOK
<1>6. ASSUME NEW h \in Handlers, NEW op \in {"poll", "ack", "result", "revoke"},
             NEW s \in Sessions, Authenticate(h, op, s)
      PROVE  RestOK'
  <2>1. [op |-> op, s |-> s] \in Calls
    BY DEF Calls
  <2> QED BY <1>0, <1>6, <2>1 DEF Authenticate, RestOK
<1>7. ASSUME NEW h \in Handlers, conn[h].op \in {"poll", "ack", "result", "revoke"}
      PROVE  conn[h].s \in Sessions
  BY <1>0, <1>7 DEF RestOK, Calls, Idle
<1>8. ASSUME NEW h \in Handlers, PollDeliver(h) PROVE RestOK'
  <2>1. lapsed' \subseteq lapsed /\ (Return(h) \/ UNCHANGED conn)
    BY <1>8 DEF PollDeliver
  <2>2. conn' \in [Handlers -> Calls \cup {Idle}]
    BY <1>0, <2>1, ReturnOK DEF RestOK
  <2> QED BY <1>0, <1>8, <2>1, <2>2 DEF PollDeliver, RestOK
<1>9. ASSUME NEW h \in Handlers, PollEmpty(h) \/ Refuse(h) PROVE RestOK'
  BY <1>0, <1>9, ReturnOK DEF PollEmpty, Refuse, RestOK
<1>10. ASSUME NEW h \in Handlers, NEW c \in Commands, Ack(h, c) \/ Result(h, c)
       PROVE  RestOK'
  <2>1. conn[h].s \in Sessions
    BY <1>7, <1>10 DEF Ack, Result, Serving
  <2>2. {<<conn[h].s, c>>} \in SUBSET (Sessions \X Commands)
    BY <2>1
  <2>3. told' \in Told
    <3>1. CASE Ack(h, c)
      BY <1>0, <2>1, <2>2, <3>1, ToldOK DEF Ack
    <3>2. CASE Result(h, c)
      BY <1>0, <2>1, <2>2, <3>2, ToldOK DEF Result
    <3> QED BY <1>10, <3>1, <3>2
  <2> QED BY <1>0, <1>10, <2>3, ReturnOK DEF Ack, Result, RestOK
<1>11. ASSUME NEW h \in Handlers, GuestRevoke(h) PROVE RestOK'
  <2>1. conn[h].s \in Sessions
    BY <1>7, <1>11 DEF GuestRevoke, Serving
  <2>2. told' \in Told
    BY <1>0, <1>11, <2>1, ToldOK DEF GuestRevoke
  <2> QED BY <1>0, <1>11, <2>2, ReturnOK DEF GuestRevoke, RestOK
<1>12. ASSUME Time PROVE RestOK'
  <2>1. ASSUME NEW s \in Sessions, Age(s) PROVE RestOK'
    BY <1>0, <2>1 DEF Age, RestOK
  <2>2. ASSUME NEW s \in Sessions, Expire(s) PROVE RestOK'
    BY <1>0, <2>2 DEF Expire, RestOK
  <2>3. ASSUME NEW s \in Sessions, NEW c \in Commands, Lapse(s, c) PROVE RestOK'
    BY <1>0, <2>3 DEF Lapse, RestOK
  <2> QED BY <1>12, <2>1, <2>2, <2>3 DEF Time
<1>13. ASSUME Janitor PROVE RestOK'
  BY <1>0, <1>13 DEF Janitor, RestOK
<1>14. ASSUME Restart PROVE RestOK'
  <2>1. live' \subseteq Sessions /\ lapsed' = {} /\ UNCHANGED <<aged, expired, told>>
    BY <1>14 DEF Restart
  <2>2. conn' \in [Handlers -> Calls \cup {Idle}]
    BY <1>14 DEF Restart
  <2>3. restarts' \in 0..MaxRestarts
    BY <1>0, <1>14 DEF Restart, RestOK
  <2> QED BY <1>0, <2>1, <2>2, <2>3 DEF RestOK
<1>15. CASE UNCHANGED vars
  BY <1>0, <1>15 DEF vars, RestOK
<1>16. ASSUME NEW h \in Handlers, Serve(h) PROVE RestOK'
  BY <1>8, <1>9, <1>10, <1>11, <1>16 DEF Serve
<1>17. CASE Operator
  BY <1>2, <1>4, <1>5, <1>17 DEF Operator
<1>18. CASE Guest
  BY <1>1, <1>3, <1>6, <1>18 DEF Guest
<1> QED BY <1>12, <1>13, <1>14, <1>15, <1>16, <1>17, <1>18 DEF Next

THEOREM Invariance == Spec => []IInv
<1>1. IInv /\ [Next]_vars => IInv'
  BY EntriesStep, RestStep DEF IInv
<1> QED BY InitIInv, <1>1, PTL DEF Spec

\* The tables, the file, the record of answers and the serving goroutines keep
\* their types, and no session stores more than ResultCap results.
THEOREM TypeCorrect == Spec => []TypeOK
<1>1. IInv => TypeOK
  BY DEF IInv, EntriesOK, RestOK, TypeOK, EntryOK
<1> QED BY Invariance, <1>1, PTL

\* No handler, failed save or restart loses a queued command of an approved
\* session or queues one twice.
THEOREM QueueCorrect == Spec => []QueueExact
<1>1. IInv => QueueExact
  BY DEF IInv, EntriesOK, EntryOK, QueueExact
<1> QED BY Invariance, <1>1, PTL

\* Stored results belong to completed commands, one to each.
THEOREM ResultsCorrect == Spec => []ResultsOnce
<1>1. IInv => ResultsOnce
  BY DEF IInv, EntriesOK, EntryOK, ResultsOnce
<1> QED BY Invariance, <1>1, PTL

-----------------------------------------------------------------------------
(***************************************************************************)
(* What the broker has answered stays true.  Every step but pairing, the   *)
(* janitor and a restart writes at most one entry, forward (Write); an     *)
(* answer with 200 is given in a step that saves what it says (Answers).   *)
(* The invariants follow from these two facts, whatever the action was.    *)
(***************************************************************************)

\* An entry that pair() made and no restart forgot.
Real(e) == e.status \notin {"none", "gone"}

\* Handlers only ever hold such entries.
HeldOK ==
  /\ \A s \in live : Real(p[s])
  /\ \A h \in Handlers : conn[h] # Idle => Real(p[conn[h].s])

\* Commands go along their life cycle with the payload they were issued with,
\* a completed one gets no result anew, and neither a revocation nor a decision
\* is taken back.
Forward(e, f) ==
  /\ \A c \in Commands :
       /\ f.cmd[c] = e.cmd[c] \/ <<e.cmd[c], f.cmd[c]>> \in Moves
       /\ e.cmd[c] # "absent" => f.payload[c] = e.payload[c]
       /\ e.cmd[c] = "completed" /\ c \notin ToSet(e.results)
            => c \notin ToSet(f.results)
  /\ Real(e) => Real(f)
  /\ e.status = "revoked" => f.status = "revoked"
  /\ e.status = "revoked" /\ e.token = 0 => f.token = 0
  /\ f.status = "pending" => e.status = "pending"

SameIds(e, f) == Issued(f) = Issued(e) /\ f.payload = e.payload

Write(s, f) ==
  /\ Real(p[s])
  /\ Forward(p[s], f)
  /\ p' = [p EXCEPT ![s] = f]
  /\ UNCHANGED live
  /\ \/ disk' = Snapshot(p', live')
     \/ UNCHANGED disk /\ SameIds(p[s], f)

LEMMA ForwardChanges ==
  ASSUME NEW e, EntryOK(e), NEW c \in Commands
  PROVE  /\ e.status = "pending" => Forward(e, Approved(e))
         /\ e.status = "pending" => Forward(e, [e EXCEPT !.status = "rejected"])
         /\ e.status = "approved" => Forward(e, Reissued(e))
         /\ \A pl \in Payloads : c \notin Issued(e) => Forward(e, Enqueued(e, c, pl))
         /\ e.cmd[c] = "leased" => /\ Forward(e, Acknowledged(e, c))
                                   /\ SameIds(e, Acknowledged(e, c))
         /\ e.cmd[c] = "running" => /\ Forward(e, Completed(e, c))
                                    /\ SameIds(e, Completed(e, c))
         /\ Forward(e, Consumed(e)) /\ SameIds(e, Consumed(e))
         /\ Forward(e, RevokedByAdmin(e)) /\ SameIds(e, RevokedByAdmin(e))
         /\ Forward(e, RevokedByGuest(e)) /\ SameIds(e, RevokedByGuest(e))
<1>1. e \in Entry /\ e.cmd \in [Commands -> CommandStates] /\ InitialCommand \in Commands
  BY DEF EntryOK, Entry
<1>2. ASSUME e.status = "pending" PROVE Forward(e, Approved(e))
  <2>1. \A d \in Commands : e.cmd[d] = "absent"
    BY <1>1, <1>2 DEF EntryOK, Unstarted, Issued, InState
  <2>2. Approved(e).status = "approved"
    BY <1>1 DEF Approved, Entry
  <2>3. /\ Approved(e).results = e.results
        /\ Approved(e).cmd = [e.cmd EXCEPT ![InitialCommand] = "queued"]
    BY <1>1 DEF Approved, Entry
  <2> QED BY <1>1, <1>2, <2>1, <2>2, <2>3 DEF Forward, Moves, Real
<1>3. ASSUME e.status = "pending" PROVE Forward(e, [e EXCEPT !.status = "rejected"])
  BY <1>1, <1>3 DEF Forward, Entry, Real, ToSet
<1>4. ASSUME e.status = "approved" PROVE Forward(e, Reissued(e))
  BY <1>1, <1>4 DEF Forward, Entry, Reissued, Real
<1>5. ASSUME NEW pl \in Payloads, c \notin Issued(e)
      PROVE  Forward(e, Enqueued(e, c, pl))
  BY <1>1, <1>5 DEF Forward, Entry, Enqueued, Issued, InState, Moves, Real
<1>6. ASSUME e.cmd[c] = "leased"
      PROVE  Forward(e, Acknowledged(e, c)) /\ SameIds(e, Acknowledged(e, c))
  BY <1>1, <1>6
  DEF Forward, SameIds, Entry, Acknowledged, Issued, InState, Moves, Real
<1>7. ASSUME e.cmd[c] = "running"
      PROVE  Forward(e, Completed(e, c)) /\ SameIds(e, Completed(e, c))
  <2> DEFINE f == Completed(e, c)
  <2>1. /\ f.cmd = [e.cmd EXCEPT ![c] = "completed"]
        /\ f.status = e.status /\ f.token = e.token /\ f.payload = e.payload
        /\ f.results \in {e.results, Append(e.results, c)}
    BY <1>1 DEF Completed, Entry
  <2>2. e.results \in Seq(Commands) /\ IsInjective(e.results) /\ c \notin ToSet(e.results)
    BY <1>1, <1>7 DEF EntryOK, Entry, ResultsOnceIn, InState
  <2>3. ToSet(f.results) \subseteq ToSet(e.results) \cup {c}
    <3>1. ToSet(Append(e.results, c)) = ToSet(e.results) \cup {c}
      BY <2>2, AppendDistinct
    <3> HIDE DEF f
    <3> QED BY <2>1, <3>1
  <2> HIDE DEF f
  <2>4. Forward(e, f)
    BY <1>1, <1>7, <2>1, <2>3 DEF Forward, Moves, Real
  <2>5. SameIds(e, f)
    BY <1>1, <1>7, <2>1 DEF SameIds, Issued, InState
  <2> QED BY <2>4, <2>5 DEF f
<1>8. Forward(e, Consumed(e)) /\ SameIds(e, Consumed(e))
  BY <1>1 DEF Forward, SameIds, Entry, Consumed, Issued, InState, Real, ToSet
<1>9. Forward(e, RevokedByAdmin(e)) /\ SameIds(e, RevokedByAdmin(e))
  BY <1>1 DEF Forward, SameIds, Entry, RevokedByAdmin, Issued, InState, Real
<1>10. Forward(e, RevokedByGuest(e)) /\ SameIds(e, RevokedByGuest(e))
  BY <1>1 DEF Forward, SameIds, Entry, RevokedByGuest, Issued, InState, Real
<1> QED BY <1>2, <1>3, <1>4, <1>5, <1>6, <1>7, <1>8, <1>9, <1>10

LEMMA ForwardPoll ==
  ASSUME EntriesOK, NEW s \in Sessions, NEW order \in SetToSeqs(Overdue(s)),
         Requeued(p[s], order).queue # <<>>
  PROVE  /\ Forward(p[s], Popped(Requeued(p[s], order)))
         /\ SameIds(p[s], Popped(Requeued(p[s], order)))
<1> DEFINE e == p[s]
           f == Requeued(e, order)
           g == Popped(f)
           c == Head(f.queue)
<1>1. e \in Entry /\ f \in Entry /\ f.cmd[c] = "queued" /\ f.queue \in Seq(Commands)
  BY PollEntry DEF EntriesOK, EntryOK, Entry
<1>2. c \in Commands
  BY <1>1, HeadTailProperties
<1>3. ToSet(order) = Overdue(s) /\ Overdue(s) \subseteq InState(e, "leased")
  <2>1. Overdue(s) \subseteq Commands /\ IsFiniteSet(Overdue(s))
    BY FS_Subset DEF Overdue, InState
  <2> QED BY <2>1, OrderDistinct DEF Overdue
<1>4. /\ f.cmd = [d \in Commands |-> IF d \in Overdue(s) THEN "queued" ELSE e.cmd[d]]
      /\ f.status = e.status /\ f.token = e.token /\ f.payload = e.payload
      /\ f.results = e.results
  BY <1>1, <1>3 DEF Requeued, Entry
<1>5. /\ g.cmd = [f.cmd EXCEPT ![c] = "leased"]
      /\ g.status = f.status /\ g.token = f.token /\ g.payload = f.payload
      /\ g.results = f.results
  BY <1>1 DEF Popped, Entry
<1>6. \A d \in Commands :
        g.cmd[d] = e.cmd[d] \/ {g.cmd[d], e.cmd[d]} \subseteq {"queued", "leased"}
  BY <1>1, <1>2, <1>3, <1>4, <1>5 DEF InState, Entry
<1>7. Forward(e, g)
  <2> HIDE DEF f, g
  <2> QED BY <1>4, <1>5, <1>6 DEF Forward, Moves, Real
<1>8. SameIds(e, g)
  BY <1>4, <1>5, <1>6 DEF SameIds, Issued, InState
<1> QED BY <1>7, <1>8

LEMMA ServedReal ==
  ASSUME IInv, HeldOK, NEW h \in Handlers,
         conn[h].op \in {"poll", "ack", "result", "revoke"}
  PROVE  conn[h].s \in Sessions /\ Real(p[conn[h].s])
  BY DEF IInv, RestOK, HeldOK, Calls, Idle

LEMMA StepKinds ==
  ASSUME IInv, HeldOK, [Next]_vars
  PROVE  \/ \E s \in Sessions : Pair(s)
         \/ Janitor
         \/ Restart
         \/ UNCHANGED <<p, disk, live>>
         \/ \E s \in Sessions : Write(s, p'[s])
<1> DEFINE W(s) == Write(s, p'[s])
           U == UNCHANGED <<p, disk, live>>
<1>0. EntriesOK /\ \A s \in Sessions : EntryOK(p[s])
  BY DEF IInv, EntriesOK
<1>1. ASSUME NEW s \in Sessions, NEW f, Real(p[s]), Forward(p[s], f), UNCHANGED live,
             Saved(s, f) \/ (Unsaved(s, f) /\ SameIds(p[s], f))
      PROVE  W(s)
  <2>1. p' = [p EXCEPT ![s] = f] /\ p'[s] = f
    BY <1>0, <1>1 DEF Saved, Unsaved, EntriesOK
  <2> QED BY <1>1, <2>1 DEF Write, Saved, Unsaved
<1>2. \A s \in live : Real(p[s])
  BY DEF HeldOK
<1>3. ASSUME NEW s \in Sessions, Approve(s) PROVE W(s)
  BY <1>0, <1>1, <1>2, <1>3, ForwardChanges DEF Approve
<1>4. ASSUME NEW s \in Sessions, Reject(s) PROVE W(s)
  BY <1>0, <1>1, <1>2, <1>4, ForwardChanges DEF Reject
<1>5. ASSUME NEW s \in Sessions, AdminRevoke(s) PROVE W(s)
  BY <1>0, <1>1, <1>2, <1>5, ForwardChanges DEF AdminRevoke
<1>6. ASSUME NEW s \in Sessions, ConsumeResults(s) PROVE W(s)
  BY <1>0, <1>1, <1>2, <1>6, ForwardChanges DEF ConsumeResults
<1>7. ASSUME NEW s \in Sessions, NEW c \in Commands, NEW pl \in Payloads,
             Enqueue(s, c, pl)
      PROVE  W(s)
  BY <1>0, <1>1, <1>2, <1>7, ForwardChanges DEF Enqueue
<1>8. ASSUME NEW s \in Sessions, Status(s) PROVE W(s) \/ U
  BY <1>0, <1>1, <1>2, <1>8, ForwardChanges DEF Status
<1>9. ASSUME NEW h \in Handlers, PollDeliver(h) PROVE W(conn[h].s)
  <2> DEFINE s == conn[h].s
  <2>1. s \in Sessions /\ Real(p[s])
    BY <1>9, ServedReal DEF PollDeliver, Serving
  <2>2. PICK order \in SetToSeqs(Overdue(s)) :
          LET e == Requeued(p[s], order) IN
          /\ e.queue # <<>>
          /\ Saved(s, Popped(e)) \/ Unsaved(s, Popped(e))
    BY <1>9 DEF PollDeliver
  <2>3. /\ Forward(p[s], Popped(Requeued(p[s], order)))
        /\ SameIds(p[s], Popped(Requeued(p[s], order)))
    BY <1>0, <2>1, <2>2, ForwardPoll
  <2> QED BY <1>1, <1>9, <2>1, <2>2, <2>3 DEF PollDeliver
<1>10. ASSUME NEW h \in Handlers, NEW c \in Commands, Ack(h, c) PROVE W(conn[h].s)
  <2>1. conn[h].s \in Sessions /\ Real(p[conn[h].s])
    BY <1>10, ServedReal DEF Ack, Serving
  <2> QED BY <1>0, <1>1, <1>10, <2>1, ForwardChanges DEF Ack
<1>11. ASSUME NEW h \in Handlers, NEW c \in Commands, Result(h, c) PROVE W(conn[h].s)
  <2>1. conn[h].s \in Sessions /\ Real(p[conn[h].s])
    BY <1>11, ServedReal DEF Result, Serving
  <2> QED BY <1>0, <1>1, <1>11, <2>1, ForwardChanges DEF Result
<1>12. ASSUME NEW h \in Handlers, GuestRevoke(h) PROVE W(conn[h].s)
  <2>1. conn[h].s \in Sessions /\ Real(p[conn[h].s])
    BY <1>12, ServedReal DEF GuestRevoke, Serving
  <2> QED BY <1>0, <1>1, <1>12, <2>1, ForwardChanges DEF GuestRevoke
<1>13. ASSUME NEW h \in Handlers, Serve(h) PROVE U \/ \E s \in Sessions : W(s)
  <2>1. CASE PollEmpty(h) \/ Refuse(h)
    BY <2>1 DEF PollEmpty, Refuse
  <2>2. CASE PollDeliver(h)
    BY <1>9, <2>2, ServedReal DEF PollDeliver, Serving
  <2>3. CASE GuestRevoke(h)
    BY <1>12, <2>3, ServedReal DEF GuestRevoke, Serving
  <2>4. ASSUME NEW c \in Commands, Ack(h, c) PROVE \E s \in Sessions : W(s)
    BY <1>10, <2>4, ServedReal DEF Ack, Serving
  <2>5. ASSUME NEW c \in Commands, Result(h, c) PROVE \E s \in Sessions : W(s)
    BY <1>11, <2>5, ServedReal DEF Result, Serving
  <2> QED BY <1>13, <2>1, <2>2, <2>3, <2>4, <2>5 DEF Serve
<1>14. CASE Operator
  BY <1>3, <1>4, <1>5, <1>6, <1>7, <1>14 DEF Operator
<1>15. CASE Guest
  <2>1. ASSUME NEW h \in Handlers, NEW op, NEW s \in Sessions, Authenticate(h, op, s)
        PROVE  U
    BY <2>1 DEF Authenticate
  <2> QED BY <1>8, <1>15, <2>1 DEF Guest
<1>16. CASE Time
  BY <1>16 DEF Time, Age, Expire, Lapse
<1>17. CASE UNCHANGED vars
  BY <1>17 DEF vars
<1> QED BY <1>13, <1>14, <1>15, <1>16, <1>17 DEF Next

\* An answer with 200 is given in a step that saves what it says.
LEMMA Answers ==
  ASSUME IInv, HeldOK, [Next]_vars
  PROVE  /\ \A s \in Sessions, c \in Commands :
              <<s, c>> \in told'.started =>
                \/ <<s, c>> \in told.started
                \/ p'[s].cmd[c] = "running" /\ disk' = Snapshot(p', live')
         /\ \A s \in Sessions, c \in Commands :
              <<s, c>> \in told'.accepted =>
                \/ <<s, c>> \in told.accepted
                \/ p'[s].cmd[c] = "completed" /\ disk' = Snapshot(p', live')
         /\ \A s \in told'.revoked :
              \/ s \in told.revoked
              \/ /\ p'[s].status = "revoked" /\ p'[s].token = 0
                 /\ disk' = Snapshot(p', live')
         /\ \A s \in Sessions, c \in Commands :
              <<s, c>> \in told'.fetched =>
                \/ <<s, c>> \in told.fetched
                \/ /\ p'[s].cmd[c] = "completed" /\ p'[s].results = <<>>
                   /\ disk' = Snapshot(p', live')
<1> DEFINE G == /\ told'.started = told.started
                /\ told'.accepted = told.accepted
                /\ told'.revoked = told.revoked
                /\ told'.fetched = told.fetched
<1>0. /\ p \in [Sessions -> Entry] /\ told \in Told
      /\ \A s \in Sessions : p[s] \in Entry /\ ResultsOnceIn(p[s])
  BY DEF IInv, EntriesOK, RestOK, EntryOK
<1>1. ASSUME NEW s \in Sessions, Status(s) PROVE G
  <2>1. \/ UNCHANGED told
        \/ \E n : told' = [told EXCEPT !.token[s] = n]
    BY <1>1 DEF Status
  <2> QED BY <1>0, <2>1 DEF Told
<1>2. CASE UNCHANGED told
  BY <1>2
<1>3. ASSUME NEW s \in Sessions, AdminRevoke(s)
      PROVE  G \/ /\ told' = [told EXCEPT !.revoked = @ \cup {s}]
                  /\ p'[s].status = "revoked" /\ p'[s].token = 0
                  /\ disk' = Snapshot(p', live')
  <2> DEFINE e == RevokedByAdmin(p[s])
  <2>1. e.status = "revoked" /\ e.token = 0
    BY <1>0 DEF RevokedByAdmin, Entry
  <2>2. CASE UNCHANGED told
    BY <2>2
  <2>3. CASE Saved(s, e) /\ told' = [told EXCEPT !.revoked = @ \cup {s}]
    <3>1. p'[s] = e /\ disk' = Snapshot(p', live) /\ UNCHANGED live
      BY <1>0, <1>3, <2>3 DEF AdminRevoke, Saved
    <3> QED BY <2>1, <2>3, <3>1
  <2> QED BY <1>3, <2>2, <2>3 DEF AdminRevoke
<1>4. ASSUME NEW h \in Handlers, GuestRevoke(h), conn[h].s \in Sessions
      PROVE  G \/ /\ told' = [told EXCEPT !.revoked = @ \cup {conn[h].s}]
                  /\ p'[conn[h].s].status = "revoked" /\ p'[conn[h].s].token = 0
                  /\ disk' = Snapshot(p', live')
  <2> DEFINE s == conn[h].s
  <2>1. CASE UNCHANGED told
    BY <2>1
  <2>2. CASE /\ Saved(s, RevokedByGuest(p[s]))
             /\ told' = [told EXCEPT !.revoked = @ \cup {s}]
    <3>1. p'[s] = RevokedByGuest(p[s]) /\ UNCHANGED live
      BY <1>0, <1>4, <2>2 DEF GuestRevoke, Saved
    <3>2. p'[s].status = "revoked" /\ p'[s].token = 0
      BY <1>0, <1>4, <3>1 DEF RevokedByGuest, Entry
    <3> QED BY <2>2, <3>1, <3>2 DEF Saved
  <2> QED BY <1>4, <2>1, <2>2 DEF GuestRevoke
<1>5. ASSUME NEW h \in Handlers, NEW c \in Commands, Ack(h, c), conn[h].s \in Sessions
      PROVE  G \/ /\ told' = [told EXCEPT !.started = @ \cup {<<conn[h].s, c>>}]
                  /\ p'[conn[h].s].cmd[c] = "running"
                  /\ disk' = Snapshot(p', live')
  BY <1>0, <1>5 DEF Ack, Saved, Acknowledged, Entry
<1>6. ASSUME NEW h \in Handlers, NEW c \in Commands, Result(h, c), conn[h].s \in Sessions
      PROVE  G \/ /\ told' = [told EXCEPT !.accepted = @ \cup {<<conn[h].s, c>>}]
                  /\ p'[conn[h].s].cmd[c] = "completed"
                  /\ disk' = Snapshot(p', live')
  <2> DEFINE s == conn[h].s
  <2>1. CASE UNCHANGED told
    BY <2>1
  <2>2. CASE /\ Saved(s, Completed(p[s], c))
             /\ told' = [told EXCEPT !.accepted = @ \cup {<<s, c>>}]
    <3>1. p'[s] = Completed(p[s], c) /\ UNCHANGED live
      BY <1>0, <1>6, <2>2 DEF Result, Saved
    <3>2. p'[s].cmd[c] = "completed"
      BY <1>0, <1>6, <3>1 DEF Completed, Entry
    <3> QED BY <2>2, <3>1, <3>2 DEF Saved
  <2> QED BY <1>6, <2>1, <2>2 DEF Result
<1>7. \/ \E s \in Sessions : Status(s) \/ ConsumeResults(s) \/ AdminRevoke(s)
      \/ \E h \in Handlers : GuestRevoke(h)
      \/ \E h \in Handlers, c \in Commands : Ack(h, c) \/ Result(h, c)
      \/ UNCHANGED told
  BY DEF Next, vars, Operator, Guest, Serve, Time, Approve, Reject, Enqueue, Pair,
         Authenticate, PollDeliver, PollEmpty, Refuse, Age, Expire, Lapse, Janitor,
         Restart
<1>8. ASSUME NEW s \in Sessions, ConsumeResults(s)
      PROVE  G \/ /\ told'.started = told.started /\ told'.accepted = told.accepted
                  /\ told'.revoked = told.revoked
                  /\ told'.fetched = told.fetched \cup ({s} \X ToSet(p[s].results))
                  /\ \A c \in ToSet(p[s].results) : p'[s].cmd[c] = "completed"
                  /\ p'[s].results = <<>>
                  /\ disk' = Snapshot(p', live')
  <2>1. CASE UNCHANGED told
    BY <2>1
  <2>2. CASE /\ Saved(s, Consumed(p[s]))
             /\ told' = [told EXCEPT !.fetched = @ \cup ({s} \X ToSet(p[s].results))]
    <3>1. p'[s] = Consumed(p[s]) /\ UNCHANGED live
      BY <1>0, <1>8, <2>2 DEF ConsumeResults, Saved
    <3>2. p'[s].results = <<>> /\ p'[s].cmd = p[s].cmd
      BY <1>0, <3>1 DEF Consumed, Entry
    <3>3. \A c \in ToSet(p[s].results) : p[s].cmd[c] = "completed"
      BY <1>0 DEF ResultsOnceIn, InState
    <3> QED BY <1>0, <2>2, <3>1, <3>2, <3>3 DEF Saved, Told
  <2> QED BY <1>8, <2>1, <2>2 DEF ConsumeResults
<1>9. ASSUME NEW s \in Sessions, AdminRevoke(s)
      PROVE  G \/ /\ told'.started = told.started /\ told'.accepted = told.accepted
                  /\ told'.revoked = told.revoked \cup {s}
                  /\ told'.fetched = told.fetched
                  /\ p'[s].status = "revoked" /\ p'[s].token = 0
                  /\ disk' = Snapshot(p', live')
  BY <1>0, <1>3, <1>9 DEF Told
<1>10. ASSUME NEW h \in Handlers, GuestRevoke(h)
       PROVE  G \/ \E s \in Sessions :
                     /\ told'.started = told.started /\ told'.accepted = told.accepted
                     /\ told'.revoked = told.revoked \cup {s}
                     /\ told'.fetched = told.fetched
                     /\ p'[s].status = "revoked" /\ p'[s].token = 0
                     /\ disk' = Snapshot(p', live')
  <2>1. conn[h].s \in Sessions
    BY <1>10, ServedReal DEF GuestRevoke, Serving
  <2> QED BY <1>0, <1>4, <1>10, <2>1 DEF Told
<1>11. ASSUME NEW h \in Handlers, NEW c \in Commands, Ack(h, c)
       PROVE  G \/ \E s \in Sessions :
                     /\ told'.accepted = told.accepted /\ told'.revoked = told.revoked
                     /\ told'.started = told.started \cup {<<s, c>>}
                     /\ told'.fetched = told.fetched
                     /\ p'[s].cmd[c] = "running"
                     /\ disk' = Snapshot(p', live')
  <2>1. conn[h].s \in Sessions
    BY <1>11, ServedReal DEF Ack, Serving
  <2> QED BY <1>0, <1>5, <1>11, <2>1 DEF Told
<1>12. ASSUME NEW h \in Handlers, NEW c \in Commands, Result(h, c)
       PROVE  G \/ \E s \in Sessions :
                     /\ told'.started = told.started /\ told'.revoked = told.revoked
                     /\ told'.accepted = told.accepted \cup {<<s, c>>}
                     /\ told'.fetched = told.fetched
                     /\ p'[s].cmd[c] = "completed"
                     /\ disk' = Snapshot(p', live')
  <2>1. conn[h].s \in Sessions
    BY <1>12, ServedReal DEF Result, Serving
  <2> QED BY <1>0, <1>6, <1>12, <2>1 DEF Told
<1> QED BY <1>1, <1>2, <1>7, <1>8, <1>9, <1>10, <1>11, <1>12

LEMMA HeldStep ==
  ASSUME IInv, HeldOK, [Next]_vars
  PROVE  HeldOK'
<1>0. /\ EntriesOK /\ RestOK /\ live \subseteq Sessions
      /\ \A h \in Handlers : conn[h] # Idle => conn[h].s \in Sessions
      /\ \A s \in live : Real(p[s])
      /\ \A h \in Handlers : conn[h] # Idle => Real(p[conn[h].s])
  BY DEF IInv, RestOK, HeldOK, Calls, Idle
<1>1. \A h \in Handlers :
        conn'[h] # Idle => \/ conn'[h] = conn[h]
                           \/ conn'[h].s \in live /\ UNCHANGED <<p, live>>
  <2>1. ASSUME NEW h \in Handlers, Return(h)
        PROVE  \A g \in Handlers : conn'[g] = conn[g] \/ conn'[g] = Idle
    BY <1>0, <2>1 DEF Return, RestOK
  <2>2. ASSUME NEW h \in Handlers, NEW op, NEW s \in Sessions, Authenticate(h, op, s)
        PROVE  \A g \in Handlers : \/ conn'[g] = conn[g]
                                   \/ conn'[g].s \in live /\ UNCHANGED <<p, live>>
    BY <1>0, <2>2 DEF Authenticate, RestOK
  <2>3. CASE Restart
    BY <2>3 DEF Restart
  <2>4. \/ \E h \in Handlers : Return(h)
        \/ \E h \in Handlers, op \in {"poll", "ack", "result", "revoke"}, s \in Sessions :
             Authenticate(h, op, s)
        \/ Restart
        \/ UNCHANGED conn
    BY DEF Next, vars, Operator, Guest, Serve, Time, Approve, Reject, Enqueue, Pair,
           Status, ConsumeResults, AdminRevoke, Ack, Result, GuestRevoke,
           PollDeliver, PollEmpty, Refuse, Age, Expire, Lapse, Janitor
  <2> QED BY <2>1, <2>2, <2>3, <2>4
<1>2. ASSUME live' \subseteq live, \A s \in Sessions : Real(p[s]) => Real(p'[s])
      PROVE  HeldOK'
  BY <1>0, <1>1, <1>2 DEF HeldOK
<1>3. ASSUME NEW s \in Sessions, Write(s, p'[s]) PROVE HeldOK'
  <2>1. \A t \in Sessions : Real(p[t]) => Real(p'[t])
    BY <1>0, <1>3 DEF Write, Forward, EntriesOK
  <2> QED BY <1>2, <1>3, <2>1 DEF Write
<1>4. ASSUME NEW s \in Sessions, Pair(s) PROVE HeldOK'
  <2>1. p' = [p EXCEPT ![s] = NewEntry] /\ live' = live \cup {s} /\ UNCHANGED conn
    BY <1>4 DEF Pair
  <2>2. Real(NewEntry)
    BY DEF NewEntry, NoEntry, Real
  <2>3. \A t \in Sessions : Real(p[t]) \/ t = s => Real(p'[t])
    BY <1>0, <2>1, <2>2 DEF EntriesOK
  <2> QED BY <1>0, <2>1, <2>3 DEF HeldOK
<1>5. CASE Janitor
  BY <1>2, <1>5 DEF Janitor
<1>6. CASE UNCHANGED <<p, disk, live>>
  BY <1>2, <1>6
<1>7. CASE Restart
  <2>1. ASSUME NEW s \in Sessions, Kept(s) PROVE Real(p'[s])
    <3>1. PICK order \in RecoveredQueues(disk[s]) : p'[s] = Recovered(disk[s], order)
      BY <1>7, <2>1 DEF Restart, AfterRestart
    <3>2. Real(disk[s])
      BY <2>1 DEF Kept, Real
    <3> QED BY <1>0, <3>1, <3>2 DEF Real, Recovered, EntriesOK, Entry
  <2> QED BY <1>7, <2>1 DEF Restart, HeldOK
<1> QED BY <1>3, <1>4, <1>5, <1>6, <1>7, StepKinds

-----------------------------------------------------------------------------

\* A restart takes each session back to what the file says, or forgets it.
LEMMA RestartEntry ==
  ASSUME EntriesOK, Restart, NEW s \in Sessions
  PROVE  \/ /\ Forward(disk[s], p'[s]) /\ disk[s].status \in {"pending", "approved", "rejected"}
            /\ p'[s].status = disk[s].status /\ p'[s].token = disk[s].token
            /\ p'[s].clear = 0
         \/ /\ p'[s].status = IF p[s].status = "none" THEN "none" ELSE "gone"
            /\ p'[s].token = 0 /\ p'[s].clear = 0 /\ p'[s].results = <<>>
            /\ s \notin live'
            /\ \/ disk[s].status \notin {"approved", "rejected"}
               \/ disk[s].status = "approved" /\ s \in expired
<1>1. p'[s] \in AfterRestart(s) /\ disk[s] \in Entry
  BY DEF Restart, EntriesOK
<1>2. CASE Kept(s)
  <2>1. PICK order \in RecoveredQueues(disk[s]) : p'[s] = Recovered(disk[s], order)
    BY <1>1, <1>2 DEF AfterRestart
  <2>2. /\ p'[s].status = disk[s].status /\ p'[s].token = disk[s].token
        /\ p'[s].clear = 0
        /\ p'[s].cmd = [c \in Commands |-> IF c \in InState(disk[s], "leased")
                                           THEN "queued" ELSE disk[s].cmd[c]]
        /\ p'[s].payload = disk[s].payload /\ p'[s].results = disk[s].results
    BY <1>1, <2>1 DEF Recovered, Entry
  <2>3. Forward(disk[s], p'[s])
    BY <2>2 DEF Forward, Moves, InState, Real
  <2>4. disk[s].status \in {"pending", "approved", "rejected"}
    BY <1>2 DEF Kept
  <2> QED BY <2>2, <2>3, <2>4
<1>3. CASE ~Kept(s)
  <2>1. p'[s] = NoEntry(IF p[s].status = "none" THEN "none" ELSE "gone")
    BY <1>1, <1>3 DEF AfterRestart
  <2>2. s \notin live'
    BY <1>3 DEF Restart
  <2>3. disk[s].status \notin {"approved", "rejected"} \/
        (disk[s].status = "approved" /\ s \in expired)
    BY <1>3 DEF Kept
  <2> QED BY <2>1, <2>2, <2>3 DEF NoEntry
<1> QED BY <1>2, <1>3

LEMMA SnapshotEntry ==
  ASSUME NEW q \in [Sessions -> Entry], NEW keys, NEW s \in Sessions
  PROVE  /\ s \notin keys => Snapshot(q, keys)[s] = NoEntry("none")
         /\ s \in keys =>
              LET e == Snapshot(q, keys)[s] IN
              /\ e.status = q[s].status /\ e.token = q[s].token /\ e.clear = 0
              /\ e.queue = q[s].queue /\ e.cmd = q[s].cmd
              /\ e.payload = q[s].payload /\ e.results = q[s].results
  BY DEF Snapshot, Entry

\* A command has reached one of the states X, in memory and in the file.
Stays(s, c, X) ==
  /\ p[s].status = "gone" \/ p[s].cmd[c] \in X
  /\ disk[s].status = "none" \/ disk[s].cmd[c] \in X

LEMMA StaysNew ==
  ASSUME IInv', NEW s \in Sessions, NEW c \in Commands, NEW X,
         p'[s].cmd[c] \in X, disk' = Snapshot(p', live')
  PROVE  Stays(s, c, X)'
<1>1. p' \in [Sessions -> Entry]
  BY DEF IInv, EntriesOK
<1>2. CASE s \in live'
  BY <1>1, <1>2, SnapshotEntry DEF Stays
<1>3. CASE s \notin live'
  BY <1>1, <1>3, SnapshotEntry DEF Stays, NoEntry
<1> QED BY <1>2, <1>3

LEMMA StaysStep ==
  ASSUME IInv, HeldOK, [Next]_vars, IInv', HeldOK',
         NEW s \in Sessions, NEW c \in Commands,
         NEW X \in {Done, {"completed"}}, Stays(s, c, X)
  PROVE  Stays(s, c, X)'
<1>0. /\ EntriesOK /\ EntryOK(p[s]) /\ "absent" \notin X
      /\ p \in [Sessions -> Entry] /\ p' \in [Sessions -> Entry]
      /\ \A t \in live' : Real(p'[t])
  BY DEF IInv, EntriesOK, HeldOK, Done
<1>1. ASSUME NEW e, NEW f, Forward(e, f), e.cmd[c] \in X PROVE f.cmd[c] \in X
  BY <1>1 DEF Forward, Done, Moves
<1>2. ASSUME p'[s].status = "gone" \/ p'[s].cmd[c] \in X,
             disk' = Snapshot(p', live') \/ UNCHANGED disk
      PROVE  Stays(s, c, X)'
  <2>1. CASE UNCHANGED disk
    BY <1>2, <2>1 DEF Stays
  <2>2. CASE disk' = Snapshot(p', live') /\ s \in live'
    BY <1>0, <1>2, <2>2, SnapshotEntry DEF Stays, Real
  <2>3. CASE disk' = Snapshot(p', live') /\ s \notin live'
    BY <1>0, <1>2, <2>3, SnapshotEntry DEF Stays, NoEntry
  <2> QED BY <1>2, <2>1, <2>2, <2>3
<1>3. p[s].status # "none"
  BY <1>0 DEF Stays, EntryOK, Unstarted, Issued, InState
<1>4. ASSUME NEW t \in Sessions, Write(t, p'[t]) PROVE Stays(s, c, X)'
  <2>1. CASE s = t
    BY <1>1, <1>2, <1>4, <2>1 DEF Write, Stays, Real
  <2>2. CASE s # t
    BY <1>0, <1>2, <1>4, <2>2 DEF Write, Stays
  <2> QED BY <2>1, <2>2
<1>5. ASSUME NEW t \in Sessions, Pair(t) PROVE Stays(s, c, X)'
  BY <1>0, <1>2, <1>3, <1>5 DEF Pair, Stays
<1>6. CASE Janitor
  BY <1>2, <1>6 DEF Janitor, Stays
<1>7. CASE Restart
  <2>1. p'[s].status = "gone" \/ p'[s].cmd[c] \in X
    BY <1>0, <1>1, <1>3, <1>7, RestartEntry DEF Stays
  <2> QED BY <1>2, <1>7, <2>1 DEF Restart
<1>8. CASE UNCHANGED <<p, disk, live>>
  BY <1>8 DEF Stays
<1> QED BY <1>4, <1>5, <1>6, <1>7, <1>8, StepKinds

LEMMA StartedStep ==
  ASSUME IInv, HeldOK, [Next]_vars, IInv', HeldOK', StartedStays
  PROVE  StartedStays'
<1> SUFFICES ASSUME NEW s \in Sessions, NEW c \in Commands, <<s, c>> \in told'.started
             PROVE  Stays(s, c, Done)'
  BY DEF StartedStays, Stays
<1>1. CASE <<s, c>> \in told.started
  <2>1. Stays(s, c, Done)
    BY <1>1 DEF StartedStays, Stays
  <2> QED BY <2>1, StaysStep
<1>2. CASE p'[s].cmd[c] = "running" /\ disk' = Snapshot(p', live')
  BY <1>2, StaysNew DEF Done
<1> QED BY <1>1, <1>2, Answers

LEMMA AcceptedStep ==
  ASSUME IInv, HeldOK, [Next]_vars, IInv', HeldOK', AcceptedStays
  PROVE  AcceptedStays'
<1> SUFFICES ASSUME NEW s \in Sessions, NEW c \in Commands, <<s, c>> \in told'.accepted
             PROVE  Stays(s, c, {"completed"})'
  BY DEF AcceptedStays, Stays
<1>1. CASE <<s, c>> \in told.accepted
  <2>1. Stays(s, c, {"completed"})
    BY <1>1 DEF AcceptedStays, Stays
  <2> QED BY <2>1, StaysStep
<1>2. CASE p'[s].cmd[c] = "completed" /\ disk' = Snapshot(p', live')
  BY <1>2, StaysNew
<1> QED BY <1>1, <1>2, Answers

\* A result returned and consumed: its command stays completed, and neither
\* memory nor the file has the result any more.
FetchedStays ==
  \A s \in Sessions, c \in Commands : <<s, c>> \in told.fetched =>
    /\ Stays(s, c, {"completed"})
    /\ c \notin ToSet(p[s].results)
    /\ c \notin ToSet(disk[s].results)

LEMMA FetchedStep ==
  ASSUME IInv, HeldOK, [Next]_vars, IInv', HeldOK', FetchedStays
  PROVE  FetchedStays'
<1> SUFFICES ASSUME NEW s \in Sessions, NEW c \in Commands, <<s, c>> \in told'.fetched
             PROVE  /\ Stays(s, c, {"completed"})'
                    /\ c \notin ToSet(p'[s].results)
                    /\ c \notin ToSet(disk'[s].results)
  BY DEF FetchedStays
<1>0. /\ EntriesOK /\ EntryOK(p[s])
      /\ p \in [Sessions -> Entry] /\ p' \in [Sessions -> Entry]
      /\ ToSet(<<>>) = {}
  BY DEF IInv, EntriesOK, ToSet
<1>1. ASSUME c \notin ToSet(p'[s].results), disk' = Snapshot(p', live')
      PROVE  c \notin ToSet(disk'[s].results)
  <2>1. CASE s \in live'
    BY <1>0, <1>1, <2>1, SnapshotEntry
  <2>2. CASE s \notin live'
    BY <1>0, <1>1, <2>2, SnapshotEntry DEF NoEntry
  <2> QED BY <2>1, <2>2
<1>2. CASE <<s, c>> \in told.fetched
  <2>0. /\ Stays(s, c, {"completed"})
        /\ c \notin ToSet(p[s].results) /\ c \notin ToSet(disk[s].results)
    BY <1>2 DEF FetchedStays
  <2>1. Stays(s, c, {"completed"})'
    BY <2>0, StaysStep
  <2>2. p[s].status # "none"
    BY <1>0, <2>0 DEF Stays, EntryOK, Unstarted, Issued, InState
  <2>3. ASSUME c \notin ToSet(p'[s].results), disk' = Snapshot(p', live') \/ UNCHANGED disk
        PROVE  c \notin ToSet(disk'[s].results)
    BY <1>1, <2>0, <2>3
  <2>4. /\ c \notin ToSet(p'[s].results)
        /\ disk' = Snapshot(p', live') \/ UNCHANGED disk
    <3>1. ASSUME NEW t \in Sessions, Write(t, p'[t]) PROVE c \notin ToSet(p'[s].results)
      <4>1. CASE s = t
        BY <2>0, <3>1, <4>1 DEF Write, Forward, Stays, Real
      <4>2. CASE s # t
        BY <1>0, <2>0, <3>1, <4>2 DEF Write
      <4> QED BY <4>1, <4>2
    <3>2. ASSUME NEW t \in Sessions, Pair(t) PROVE c \notin ToSet(p'[s].results)
      BY <1>0, <2>0, <2>2, <3>2 DEF Pair
    <3>3. CASE Restart
      <4>1. c \notin ToSet(p'[s].results)
        <5>1. CASE Forward(disk[s], p'[s]) /\ disk[s].status # "none"
          BY <2>0, <5>1 DEF Forward, Stays
        <5>2. CASE p'[s].results = <<>>
          BY <1>0, <5>2
        <5> QED BY <1>0, <3>3, <5>1, <5>2, RestartEntry
      <4> QED BY <3>3, <4>1 DEF Restart
    <3>4. CASE Janitor
      BY <2>0, <3>4 DEF Janitor
    <3>5. CASE UNCHANGED <<p, disk, live>>
      BY <2>0, <3>5
    <3> QED BY <3>1, <3>2, <3>3, <3>4, <3>5, StepKinds DEF Write, Pair
  <2> QED BY <2>1, <2>3, <2>4
<1>3. CASE /\ p'[s].cmd[c] = "completed" /\ p'[s].results = <<>>
           /\ disk' = Snapshot(p', live')
  BY <1>0, <1>1, <1>3, StaysNew
<1> QED BY <1>2, <1>3, Answers

LEMMA RevokedStep ==
  ASSUME IInv, HeldOK, [Next]_vars, IInv', HeldOK', RevocationFinal
  PROVE  RevocationFinal'
<1> DEFINE MemoryOK(s) == p[s].status \in {"revoked", "gone"} /\ p[s].token = 0
           FileOK(s) == disk[s].status \in {"revoked", "none"}
<1>0. /\ EntriesOK /\ told'.revoked \subseteq Sessions
      /\ p \in [Sessions -> Entry] /\ p' \in [Sessions -> Entry]
      /\ \A t \in live' : Real(p'[t])
  BY DEF IInv, RestOK, EntriesOK, HeldOK, Told
<1> SUFFICES ASSUME NEW s \in told'.revoked PROVE MemoryOK(s)' /\ FileOK(s)'
  BY DEF RevocationFinal
<1>1. s \in Sessions
  BY <1>0
<1>2. ASSUME MemoryOK(s)', disk' = Snapshot(p', live') PROVE FileOK(s)'
  <2>1. CASE s \in live'
    BY <1>0, <1>1, <1>2, <2>1, SnapshotEntry DEF Real
  <2>2. CASE s \notin live'
    BY <1>0, <1>1, <1>2, <2>2, SnapshotEntry DEF NoEntry
  <2> QED BY <2>1, <2>2
<1>3. CASE s \notin told.revoked
  BY <1>2, <1>3, Answers
<1>4. CASE s \in told.revoked
  <2>0. MemoryOK(s) /\ FileOK(s)
    BY <1>4 DEF RevocationFinal
  <2>1. ASSUME NEW t \in Sessions, Write(t, p'[t]) PROVE MemoryOK(s)' /\ FileOK(s)'
    <3>1. MemoryOK(s)'
      <4>1. CASE s = t
        BY <2>0, <2>1, <4>1 DEF Write, Forward, Real
      <4>2. CASE s # t
        BY <1>0, <1>1, <2>0, <2>1, <4>2 DEF Write
      <4> QED BY <4>1, <4>2
    <3> QED BY <1>2, <2>0, <2>1, <3>1 DEF Write
  <2>2. ASSUME NEW t \in Sessions, Pair(t) PROVE MemoryOK(s)' /\ FileOK(s)'
    <3>1. MemoryOK(s)'
      BY <1>0, <1>1, <2>0, <2>2 DEF Pair
    <3> QED BY <1>2, <2>2, <3>1 DEF Pair
  <2>3. CASE Janitor
    BY <1>2, <2>0, <2>3 DEF Janitor
  <2>4. CASE Restart
    <3>1. MemoryOK(s)'
      BY <1>0, <1>1, <2>0, <2>4, RestartEntry
    <3> QED BY <1>2, <2>4, <3>1 DEF Restart
  <2>5. CASE UNCHANGED <<p, disk, live>>
    BY <2>0, <2>5
  <2> QED BY <2>1, <2>2, <2>3, <2>4, <2>5, StepKinds
<1> QED BY <1>3, <1>4

LEMMA FileStep ==
  ASSUME IInv, HeldOK, [Next]_vars, IInv', HeldOK', FileFollows
  PROVE  FileFollows'
<1> DEFINE F(s) == /\ disk[s].status # "none"
                   /\ Issued(disk[s]) = Issued(p[s])
                   /\ disk[s].payload = p[s].payload
                   /\ InState(disk[s], "completed") \subseteq InState(p[s], "completed")
                   /\ \A c \in InState(disk[s], "running") : p[s].cmd[c] \in Done
<1>0. /\ EntriesOK /\ live' \subseteq Sessions
      /\ p \in [Sessions -> Entry] /\ p' \in [Sessions -> Entry]
      /\ \A t \in live' : Real(p'[t])
  BY DEF IInv, EntriesOK, RestOK, HeldOK
<1> SUFFICES ASSUME NEW s \in live' PROVE F(s)'
  BY DEF FileFollows
<1>1. s \in Sessions /\ Real(p'[s])
  BY <1>0
<1>2. CASE disk' = Snapshot(p', live')
  BY <1>0, <1>1, <1>2, SnapshotEntry DEF Issued, InState, Done, Real
<1>3. CASE UNCHANGED disk /\ s \in live /\ UNCHANGED p
  BY <1>3 DEF FileFollows
<1>4. ASSUME NEW t \in Sessions, Write(t, p'[t]), UNCHANGED disk, SameIds(p[t], p'[t])
      PROVE  F(s)'
  <2>1. s \in live /\ F(s)
    BY <1>4 DEF Write, FileFollows
  <2>2. CASE s = t
    BY <1>4, <2>1, <2>2 DEF Write, Forward, SameIds, InState, Done, Moves
  <2>3. CASE s # t
    BY <1>0, <1>1, <1>4, <2>1, <2>3 DEF Write
  <2> QED BY <2>2, <2>3
<1>5. ASSUME NEW t \in Sessions, Write(t, p'[t]) PROVE F(s)'
  BY <1>2, <1>4, <1>5 DEF Write
<1>6. ASSUME NEW t \in Sessions, Pair(t) PROVE F(s)'
  BY <1>2, <1>6 DEF Pair
<1>7. CASE Janitor
  BY <1>2, <1>3, <1>7 DEF Janitor
<1>8. CASE Restart
  BY <1>2, <1>8 DEF Restart
<1>9. CASE UNCHANGED <<p, disk, live>>
  BY <1>3, <1>9
<1> QED BY <1>5, <1>6, <1>7, <1>8, <1>9, StepKinds

\* The file knows no session that memory has not, and of those it knows the
\* same commands, also of one that the janitor took out of the map.
FileIds ==
  \A s \in Sessions :
    disk[s].status # "none" => Real(p[s]) /\ SameIds(p[s], disk[s])

LEMMA IdsStep ==
  ASSUME IInv, HeldOK, [Next]_vars, IInv', HeldOK', FileIds
  PROVE  FileIds'
<1> SUFFICES ASSUME NEW s \in Sessions, disk'[s].status # "none"
             PROVE  Real(p'[s]) /\ SameIds(p'[s], disk'[s])
  BY DEF FileIds
<1>0. /\ EntriesOK /\ p \in [Sessions -> Entry] /\ p' \in [Sessions -> Entry]
      /\ \A t \in live' : Real(p'[t])
  BY DEF IInv, EntriesOK, HeldOK
<1>1. CASE disk' = Snapshot(p', live')
  <2>1. s \in live'
    BY <1>0, <1>1, SnapshotEntry DEF NoEntry
  <2> QED BY <1>0, <1>1, <2>1, SnapshotEntry DEF SameIds, Issued, InState
<1>2. CASE UNCHANGED <<p, disk>>
  BY <1>2 DEF FileIds
<1>3. ASSUME NEW t \in Sessions, Write(t, p'[t]) PROVE Real(p'[s]) /\ SameIds(p'[s], disk'[s])
  <2> SUFFICES ASSUME UNCHANGED disk, SameIds(p[t], p'[t])
               PROVE  Real(p'[s]) /\ SameIds(p'[s], disk'[s])
    BY <1>1, <1>3 DEF Write
  <2>1. CASE s = t
    BY <1>3, <2>1 DEF Write, Forward, FileIds, SameIds
  <2>2. CASE s # t
    BY <1>0, <1>3, <2>2 DEF Write, FileIds
  <2> QED BY <2>1, <2>2
<1>4. ASSUME NEW t \in Sessions, Pair(t) PROVE Real(p'[s]) /\ SameIds(p'[s], disk'[s])
  BY <1>1, <1>4 DEF Pair
<1>5. CASE Janitor
  BY <1>1, <1>2, <1>5 DEF Janitor
<1>6. CASE Restart
  BY <1>1, <1>6 DEF Restart
<1> QED BY <1>2, <1>3, <1>4, <1>5, <1>6, StepKinds

-----------------------------------------------------------------------------
(***************************************************************************)
(* Tokens.  TokenHonoured alone is not inductive: it needs to be known     *)
(* that a clear token in memory is the one whose hash is in force, in      *)
(* memory and in the file, and that nobody has a token before the approval.*)
(***************************************************************************)

TokensOK ==
  \A s \in Sessions :
    /\ told.token[s] # 0 \/ p[s].clear # 0 =>
         /\ p[s].status \in {"approved", "revoked", "gone"}
         /\ disk[s].status \in {"none", "approved", "revoked"}
    /\ \A n \in {told.token[s], p[s].clear} \ {0} :
         /\ p[s].status = "approved" => p[s].token = n
         /\ disk[s].status = "approved" => disk[s].token = n

SameToken(e, f) ==
  /\ f.clear = e.clear
  /\ f.status \in {e.status, "revoked"} \/ {e.status, f.status} = {"pending", "rejected"}
  /\ f.status = "approved" => f.token = e.token

LEMMA SameTokenChanges ==
  ASSUME NEW e \in Entry, NEW c \in Commands
  PROVE  /\ e.status = "pending" => SameToken(e, [e EXCEPT !.status = "rejected"])
         /\ \A pl \in Payloads : SameToken(e, Enqueued(e, c, pl))
         /\ SameToken(e, Acknowledged(e, c))
         /\ SameToken(e, Completed(e, c))
         /\ SameToken(e, Consumed(e))
         /\ SameToken(e, RevokedByAdmin(e))
         /\ SameToken(e, RevokedByGuest(e))
         /\ \A order : SameToken(e, Popped(Requeued(e, order)))
  BY DEF SameToken, Entry, Enqueued, Acknowledged, Completed, Consumed,
         RevokedByAdmin, RevokedByGuest, Popped, Requeued

\* After a save the file has what memory has, or nothing.
LEMMA TokensFile ==
  ASSUME IInv', HeldOK', NEW s \in Sessions, disk' = Snapshot(p', live')
  PROVE  \/ disk'[s].status = "none"
         \/ /\ disk'[s].status = p'[s].status /\ disk'[s].token = p'[s].token
            /\ p'[s].status # "gone"
<1>0. p' \in [Sessions -> Entry] /\ \A t \in live' : Real(p'[t])
  BY DEF IInv, EntriesOK, HeldOK
<1>1. CASE s \in live'
  BY <1>0, <1>1, SnapshotEntry DEF Real
<1>2. CASE s \notin live'
  BY <1>0, <1>2, SnapshotEntry DEF NoEntry
<1> QED BY <1>1, <1>2

LEMMA TokensSame ==
  ASSUME IInv, IInv', HeldOK', TokensOK, told'.token = told.token,
         \A t \in Sessions : \/ SameToken(p[t], p'[t])
                             \/ told.token[t] = 0 /\ p'[t].clear = 0,
         disk' = Snapshot(p', live') \/ UNCHANGED disk
  PROVE  TokensOK'
<1> DEFINE T(s, n) == /\ p[s].status \in {"approved", "revoked", "gone"}
                      /\ disk[s].status \in {"none", "approved", "revoked"}
                      /\ p[s].status = "approved" => p[s].token = n
                      /\ disk[s].status = "approved" => disk[s].token = n
<1> SUFFICES ASSUME NEW s \in Sessions,
                    NEW n \in {told.token[s], p'[s].clear} \ {0}
             PROVE  T(s, n)'
  BY DEF TokensOK
<1>1. SameToken(p[s], p'[s]) /\ n \in {told.token[s], p[s].clear} \ {0}
  BY DEF SameToken
<1>2. T(s, n)
  BY <1>1 DEF TokensOK
<1>3. /\ p'[s].status \in {"approved", "revoked", "gone"}
      /\ p'[s].status = "approved" => p'[s].token = n
  BY <1>1, <1>2 DEF SameToken
<1>4. CASE disk' = Snapshot(p', live')
  <2>1. /\ disk'[s].status \in {"none", "approved", "revoked"}
        /\ disk'[s].status = "approved" => disk'[s].token = n
    BY <1>3, <1>4, TokensFile
  <2> QED BY <1>3, <2>1
<1>5. CASE UNCHANGED disk
  BY <1>2, <1>3, <1>5
<1> QED BY <1>4, <1>5

\* A step that gives s a new clear token, or tells its guest the clear one.
LEMMA TokensNew ==
  ASSUME IInv, IInv', HeldOK', TokensOK, NEW s \in Sessions,
         \A t \in Sessions \ {s} : p'[t] = p[t] /\ told'.token[t] = told.token[t],
         p'[s].status = "approved", p'[s].token = p'[s].clear,
         told'.token[s] \in {0, p'[s].clear},
         disk' = Snapshot(p', live')
  PROVE  TokensOK'
<1> DEFINE T(t, n) == /\ p[t].status \in {"approved", "revoked", "gone"}
                      /\ disk[t].status \in {"none", "approved", "revoked"}
                      /\ p[t].status = "approved" => p[t].token = n
                      /\ disk[t].status = "approved" => disk[t].token = n
<1> SUFFICES ASSUME NEW t \in Sessions,
                    NEW n \in {told'.token[t], p'[t].clear} \ {0}
             PROVE  T(t, n)'
  <2>1. \A t \in Sessions : \A n \in {told'.token[t], p'[t].clear} \ {0} : T(t, n)'
    OBVIOUS
  <2>2. ASSUME NEW t \in Sessions, told'.token[t] # 0 \/ p'[t].clear # 0
        PROVE  /\ p'[t].status \in {"approved", "revoked", "gone"}
               /\ disk'[t].status \in {"none", "approved", "revoked"}
    BY <2>1, <2>2
  <2> QED BY <2>1, <2>2 DEF TokensOK
<1>1. /\ p'[t].status \in {"approved", "revoked", "gone"}
      /\ p'[t].status = "approved" => p'[t].token = n
  <2>1. CASE t = s
    BY <2>1
  <2>2. CASE t # s
    <3>1. n \in {told.token[t], p[t].clear} \ {0} /\ p'[t] = p[t]
      BY <2>2
    <3> QED BY <3>1 DEF TokensOK
  <2> QED BY <2>1, <2>2
<1>2. /\ disk'[t].status \in {"none", "approved", "revoked"}
      /\ disk'[t].status = "approved" => disk'[t].token = n
  BY <1>1, TokensFile
<1> QED BY <1>1, <1>2

LEMMA TokensRestart ==
  ASSUME IInv, IInv', HeldOK', TokensOK, Restart
  PROVE  TokensOK'
<1>0. EntriesOK /\ UNCHANGED told /\ disk' = Snapshot(p', live')
  BY DEF IInv, Restart
<1> SUFFICES ASSUME NEW s \in Sessions, NEW n \in {told.token[s]} \ {0}
             PROVE  /\ p'[s].status \in {"approved", "revoked", "gone"}
                    /\ p'[s].status = "approved" => p'[s].token = n
                    /\ disk'[s].status \in {"none", "approved", "revoked"}
                    /\ disk'[s].status = "approved" => disk'[s].token = n
  <2>1. \A s \in Sessions : p'[s].clear = 0
    BY <1>0, RestartEntry
  <2> QED BY <1>0, <2>1 DEF TokensOK
<1>1. /\ p[s].status \in {"approved", "revoked", "gone"}
      /\ disk[s].status \in {"none", "approved", "revoked"}
      /\ disk[s].status = "approved" => disk[s].token = n
  BY DEF TokensOK
<1>2. /\ p'[s].status \in {"approved", "revoked", "gone"}
      /\ p'[s].status = "approved" => p'[s].token = n
  BY <1>0, <1>1, RestartEntry
<1>3. /\ disk'[s].status \in {"none", "approved", "revoked"}
      /\ disk'[s].status = "approved" => disk'[s].token = n
  BY <1>0, <1>2, TokensFile
<1> QED BY <1>2, <1>3

LEMMA TokensStep ==
  ASSUME IInv, HeldOK, [Next]_vars, IInv', HeldOK', TokensOK
  PROVE  TokensOK'
<1>0. /\ EntriesOK /\ p \in [Sessions -> Entry] /\ told \in Told
      /\ \A s \in Sessions : p[s] \in Entry /\ EntryOK(p[s])
      /\ live \subseteq Sessions
  BY DEF IInv, EntriesOK, RestOK
<1>1. \A s \in Sessions : SameToken(p[s], p[s])
  BY DEF SameToken
<1>2. ASSUME NEW s \in Sessions, NEW f, SameToken(p[s], f),
             Saved(s, f) \/ Unsaved(s, f), UNCHANGED live,
             told'.token = told.token
      PROVE  TokensOK'
  <2>1. p' = [p EXCEPT ![s] = f] /\ (disk' = Snapshot(p', live') \/ UNCHANGED disk)
    BY <1>2 DEF Saved, Unsaved
  <2>2. p'[s] = f /\ \A t \in Sessions \ {s} : p'[t] = p[t]
    BY <1>0, <2>1
  <2>3. \A t \in Sessions : SameToken(p[t], p'[t])
    BY <1>1, <1>2, <2>2
  <2> QED BY <1>2, <2>1, <2>3, TokensSame
<1>3. ASSUME UNCHANGED <<p, told>>, disk' = Snapshot(p', live') \/ UNCHANGED disk
      PROVE  TokensOK'
  BY <1>1, <1>3, TokensSame
<1>4. InitialCommand \in Commands
  BY CommandsAssumption
<1>5. ASSUME NEW s \in Sessions, Approve(s) PROVE TokensOK'
  <2>1. p' = [p EXCEPT ![s] = Approved(p[s])] /\ disk' = Snapshot(p', live')
    BY <1>5 DEF Approve, Saved
  <2>2. told.token[s] = 0 /\ UNCHANGED told
    BY <1>5 DEF Approve, TokensOK
  <2>3. p'[s].status = "approved" /\ p'[s].token = p'[s].clear
    BY <1>0, <2>1 DEF Approved, Entry
  <2> QED BY <1>0, <2>1, <2>2, <2>3, TokensNew
<1>6. ASSUME NEW s \in Sessions, Status(s) PROVE TokensOK'
  <2>1. CASE /\ p[s].clear # 0 /\ UNCHANGED <<p, disk>>
             /\ told' = [told EXCEPT !.token[s] = p[s].clear]
    <3>1. /\ told'.token[s] = p[s].clear /\ UNCHANGED <<p, disk>>
          /\ \A t \in Sessions \ {s} : told'.token[t] = told.token[t]
      BY <1>0, <2>1 DEF Told
    <3>2. \A t \in Sessions : told'.token[t] \in {told.token[t], p[t].clear}
      BY <3>1
    <3>3. \A t \in Sessions : p'[t] = p[t] /\ disk'[t] = disk[t]
      BY <3>1
    <3> QED BY <3>2, <3>3 DEF TokensOK
  <2>2. CASE /\ p[s].status = "approved"
             /\ Saved(s, Reissued(p[s])) /\ UNCHANGED live
             /\ told' = [told EXCEPT !.token[s] = p'[s].clear]
    <3>1. p' = [p EXCEPT ![s] = Reissued(p[s])] /\ disk' = Snapshot(p', live')
      BY <2>2 DEF Saved
    <3>2. p'[s].status = "approved" /\ p'[s].token = p'[s].clear
      <4>1. p'[s] = Reissued(p[s])
        BY <1>0, <3>1
      <4> QED BY <1>0, <2>2, <4>1 DEF Reissued, Entry
    <3>3. /\ told'.token[s] = p'[s].clear
          /\ \A t \in Sessions \ {s} : told'.token[t] = told.token[t]
      BY <1>0, <2>2 DEF Told
    <3> QED BY <1>0, <3>1, <3>2, <3>3, TokensNew
  <2> QED BY <1>6, <2>1, <2>2 DEF Status
<1>7. ASSUME NEW s \in Sessions, Reject(s) PROVE TokensOK'
  <2>1. SameToken(p[s], [p[s] EXCEPT !.status = "rejected"])
    BY <1>0, <1>4, <1>7, SameTokenChanges DEF Reject
  <2> QED BY <1>2, <1>7, <2>1 DEF Reject
<1>8. ASSUME NEW s \in Sessions, AdminRevoke(s) PROVE TokensOK'
  <2>1. told'.token = told.token
    BY <1>0, <1>8 DEF AdminRevoke, Told
  <2>2. SameToken(p[s], RevokedByAdmin(p[s]))
    BY <1>0, <1>4, SameTokenChanges
  <2> QED BY <1>2, <1>8, <2>1, <2>2 DEF AdminRevoke
<1>9. ASSUME NEW s \in Sessions, ConsumeResults(s) PROVE TokensOK'
  <2>1. told'.token = told.token
    BY <1>0, <1>9 DEF ConsumeResults, Told
  <2>2. SameToken(p[s], Consumed(p[s]))
    BY <1>0, <1>4, SameTokenChanges
  <2> QED BY <1>2, <1>9, <2>1, <2>2 DEF ConsumeResults
<1>10. ASSUME NEW s \in Sessions, NEW c \in Commands, NEW pl \in Payloads,
              Enqueue(s, c, pl)
       PROVE  TokensOK'
  <2>1. SameToken(p[s], Enqueued(p[s], c, pl))
    BY <1>0, SameTokenChanges
  <2> QED BY <1>2, <1>10, <2>1 DEF Enqueue
<1>11. ASSUME NEW s \in Sessions, Pair(s) PROVE TokensOK'
  <2>1. p[s].clear = 0 /\ told.token[s] = 0 /\ UNCHANGED told
    BY <1>0, <1>11 DEF Pair, TokensOK, EntryOK
  <2>2. p' = [p EXCEPT ![s] = NewEntry] /\ disk' = Snapshot(p', live')
    BY <1>11 DEF Pair
  <2>3. \A t \in Sessions : \/ SameToken(p[t], p'[t])
                            \/ told.token[t] = 0 /\ p'[t].clear = 0
    BY <1>0, <1>1, <2>1, <2>2 DEF NewEntry, NoEntry
  <2> QED BY <2>1, <2>2, <2>3, TokensSame
<1>12. ASSUME NEW h \in Handlers, PollDeliver(h) PROVE TokensOK'
  <2>1. conn[h].s \in Sessions /\ UNCHANGED told
    BY <1>12, ServedReal DEF PollDeliver, Serving
  <2>2. PICK order : LET f == Popped(Requeued(p[conn[h].s], order))
                     IN  Saved(conn[h].s, f) \/ Unsaved(conn[h].s, f)
    BY <1>12 DEF PollDeliver
  <2>3. SameToken(p[conn[h].s], Popped(Requeued(p[conn[h].s], order)))
    BY <1>0, <1>4, <2>1, SameTokenChanges
  <2>4. UNCHANGED live
    BY <1>12 DEF PollDeliver
  <2> QED BY <1>2, <2>1, <2>2, <2>3, <2>4
<1>13. ASSUME NEW h \in Handlers, NEW c \in Commands, Ack(h, c) PROVE TokensOK'
  <2>1. conn[h].s \in Sessions
    BY <1>13, ServedReal DEF Ack, Serving
  <2>2. told'.token = told.token
    BY <1>0, <1>13 DEF Ack, Told
  <2>3. SameToken(p[conn[h].s], Acknowledged(p[conn[h].s], c))
    BY <1>0, <2>1, SameTokenChanges
  <2> QED BY <1>2, <1>13, <2>1, <2>2, <2>3 DEF Ack
<1>14. ASSUME NEW h \in Handlers, NEW c \in Commands, Result(h, c) PROVE TokensOK'
  <2>1. conn[h].s \in Sessions
    BY <1>14, ServedReal DEF Result, Serving
  <2>2. told'.token = told.token
    BY <1>0, <1>14 DEF Result, Told
  <2>3. SameToken(p[conn[h].s], Completed(p[conn[h].s], c))
    BY <1>0, <1>4, <2>1, SameTokenChanges
  <2> QED BY <1>2, <1>14, <2>1, <2>2, <2>3 DEF Result
<1>15. ASSUME NEW h \in Handlers, GuestRevoke(h) PROVE TokensOK'
  <2>1. conn[h].s \in Sessions
    BY <1>15, ServedReal DEF GuestRevoke, Serving
  <2>2. told'.token = told.token
    BY <1>0, <1>15 DEF GuestRevoke, Told
  <2>3. SameToken(p[conn[h].s], RevokedByGuest(p[conn[h].s]))
    BY <1>0, <1>4, <2>1, SameTokenChanges
  <2> QED BY <1>2, <1>15, <2>1, <2>2, <2>3 DEF GuestRevoke
<1>16. CASE Janitor
  BY <1>3, <1>16 DEF Janitor
<1>17. CASE Restart
  BY <1>17, TokensRestart
<1>18. CASE UNCHANGED <<p, disk, told>>
  BY <1>3, <1>18
<1>19. ASSUME NEW h \in Handlers, Serve(h) PROVE TokensOK'
  <2>1. CASE PollEmpty(h) \/ Refuse(h)
    BY <1>18, <2>1 DEF PollEmpty, Refuse
  <2> QED BY <1>12, <1>13, <1>14, <1>15, <1>19, <2>1 DEF Serve
<1>20. CASE Operator
  BY <1>5, <1>7, <1>8, <1>9, <1>10, <1>20 DEF Operator
<1>21. CASE Guest
  <2>1. ASSUME NEW h \in Handlers, NEW op, NEW s \in Sessions, Authenticate(h, op, s)
        PROVE  TokensOK'
    BY <1>18, <2>1 DEF Authenticate
  <2> QED BY <1>6, <1>11, <1>21, <2>1 DEF Guest
<1>22. CASE Time
  BY <1>18, <1>22 DEF Time, Age, Expire, Lapse
<1>23. CASE UNCHANGED vars
  BY <1>18, <1>23 DEF vars
<1> QED BY <1>16, <1>17, <1>19, <1>20, <1>21, <1>22, <1>23 DEF Next

-----------------------------------------------------------------------------

\* What the answers need to stay true, together.
AnswersInv ==
  /\ IInv
  /\ HeldOK
  /\ StartedStays
  /\ AcceptedStays
  /\ FetchedStays
  /\ RevocationFinal
  /\ FileFollows
  /\ FileIds
  /\ TokensOK

LEMMA InitAnswersInv == Init => AnswersInv
<1> SUFFICES ASSUME Init PROVE AnswersInv
  OBVIOUS
<1>1. HeldOK
  BY DEF Init, HeldOK
<1>2. /\ StartedStays /\ AcceptedStays /\ FetchedStays
      /\ RevocationFinal /\ FileFollows /\ FileIds
  BY DEF Init, StartedStays, AcceptedStays, FetchedStays, RevocationFinal, FileFollows,
         FileIds, NoEntry
<1>3. TokensOK
  BY DEF Init, TokensOK, NoEntry
<1> QED BY <1>1, <1>2, <1>3, InitIInv DEF AnswersInv

LEMMA AnswersInvariance == Spec => []AnswersInv
<1>1. AnswersInv /\ [Next]_vars => AnswersInv'
  <2> SUFFICES ASSUME AnswersInv, [Next]_vars PROVE AnswersInv'
    OBVIOUS
  <2>1. IInv'
    BY EntriesStep, RestStep DEF AnswersInv, IInv
  <2>2. HeldOK'
    BY HeldStep DEF AnswersInv
  <2> QED BY <2>1, <2>2, StartedStep, AcceptedStep, FetchedStep, RevokedStep,
             FileStep, IdsStep, TokensStep
          DEF AnswersInv
<1> QED BY InitAnswersInv, <1>1, PTL DEF Spec

\* A command the guest was told it runs is never offered again: acknowledged
\* with 200, it is running or completed in memory and in the file, whatever
\* saves fail and whenever the broker restarts (ack, recoverState).
THEOREM StartedCorrect == Spec => []StartedStays
<1>1. AnswersInv => StartedStays
  BY DEF AnswersInv
<1> QED BY AnswersInvariance, <1>1, PTL

\* A result accepted with 200 leaves its command completed for good (result).
THEOREM AcceptedCorrect == Spec => []AcceptedStays
<1>1. AnswersInv => AcceptedStays
  BY DEF AnswersInv
<1> QED BY AnswersInvariance, <1>1, PTL

\* A result that was returned and consumed with 200 is never returned again:
\* a repeated result call does not store it anew, and no restart finds it in the
\* file (adminResults, result, recoverState).
THEOREM ConsumedCorrect == Spec => []ConsumedOnce
<1>1. AnswersInv => ConsumedOnce
  BY DEF AnswersInv, FetchedStays, ConsumedOnce
<1> QED BY AnswersInvariance, <1>1, PTL

\* A session whose revocation was answered with 200 is never usable again
\* (adminRevoke, revoke, recoverState, status).
THEOREM RevocationCorrect == Spec => []RevocationFinal
<1>1. AnswersInv => RevocationFinal
  BY DEF AnswersInv
<1> QED BY AnswersInvariance, <1>1, PTL

LEMMA LifeCycleStep ==
  ASSUME AnswersInv, [Next]_vars
  PROVE  LifeStep
<1> DEFINE L(s, c) == /\ p[s].cmd[c] # "absent" => p'[s].payload[c] = p[s].payload[c]
                      /\ \/ p[s].cmd[c] = p'[s].cmd[c]
                         \/ <<p[s].cmd[c], p'[s].cmd[c]>> \in Moves
                         \/ /\ restarts' # restarts
                            /\ p'[s].cmd[c] # "absent"
                            /\ <<s, c>> \in told.started => p'[s].cmd[c] \in Done
                            /\ <<s, c>> \notin told.accepted
<1> SUFFICES ASSUME NEW s \in live \cap live', NEW c \in Commands
             PROVE  L(s, c)
  BY DEF LifeStep
<1>0. /\ IInv /\ HeldOK /\ EntriesOK /\ s \in Sessions /\ Real(p[s])
      /\ p \in [Sessions -> Entry] /\ restarts \in Nat
  BY DEF AnswersInv, IInv, EntriesOK, RestOK, HeldOK
<1>1. ASSUME NEW t \in Sessions, Write(t, p'[t]) PROVE L(s, c)
  <2>1. CASE s = t
    BY <1>1, <2>1 DEF Write, Forward
  <2>2. CASE s # t
    BY <1>0, <1>1, <2>2 DEF Write
  <2> QED BY <2>1, <2>2
<1>2. ASSUME NEW t \in Sessions, Pair(t) PROVE L(s, c)
  <2>1. s # t
    BY <1>0, <1>2 DEF Pair, Real
  <2> QED BY <1>0, <1>2, <2>1 DEF Pair
<1>3. CASE Janitor \/ UNCHANGED <<p, disk, live>>
  BY <1>3 DEF Janitor
<1>4. CASE Restart
  <2>1. restarts' # restarts
    BY <1>0, <1>4 DEF Restart
  <2>2. Forward(disk[s], p'[s]) /\ disk[s].status # "none"
    BY <1>0, <1>4, RestartEntry
  <2>3. /\ disk[s].payload = p[s].payload
        /\ disk[s].cmd[c] = "absent" <=> p[s].cmd[c] = "absent"
        /\ <<s, c>> \in told.accepted =>
             disk[s].cmd[c] = "completed" /\ p[s].cmd[c] = "completed"
    BY <1>0, <2>2 DEF AnswersInv, FileFollows, AcceptedStays, Real, Issued, InState
  <2>4. <<s, c>> \in told.started => disk[s].cmd[c] \in Done
    BY <1>0, <2>2 DEF AnswersInv, StartedStays
  <2>5. <<s, c>> \in told.started => p'[s].cmd[c] \in Done
    BY <2>2, <2>4 DEF Forward, Moves, Done
  <2> QED BY <2>1, <2>2, <2>3, <2>5 DEF Forward, Moves
<1> QED BY <1>0, <1>1, <1>2, <1>3, <1>4, StepKinds

\* A command of a living session moves along its life cycle only and keeps its
\* payload; a restart takes it back at most to what the file says, not from
\* running once its acknowledgement was answered, and not at all once its result
\* was accepted (enqueue, poll, ack, result, recoverState).
THEOREM LifeCycleCorrect == Spec => LifeCycle
<1>1. AnswersInv /\ [Next]_vars => [LifeStep]_vars
  BY LifeCycleStep
<1> QED BY AnswersInvariance, <1>1, PTL DEF Spec, LifeCycle

\* Failed saves leave the file behind memory by moves of commands only.
THEOREM FileCorrect == Spec => []FileFollows
<1>1. AnswersInv => FileFollows
  BY DEF AnswersInv
<1> QED BY AnswersInvariance, <1>1, PTL

\* The token status last answered with is the one the broker accepts while
\* the session is approved, after any restart (status, save, session).
THEOREM TokenCorrect == Spec => []TokenHonoured
<1>1. AnswersInv => TokenHonoured
  BY DEF AnswersInv, TokensOK, TokenHonoured
<1> QED BY AnswersInvariance, <1>1, PTL

\* Results are exact: both halves together.
THEOREM ResultsExactCorrect == Spec => []ResultsExact
<1>1. ResultsOnce /\ AcceptedStays => ResultsExact
  BY DEF ResultsExact
<1> QED BY ResultsCorrect, AcceptedCorrect, <1>1, PTL
=============================================================================
