--------------------------- MODULE PairLimitProofs ---------------------------
(***************************************************************************)
(* Proofs about PairLimit: what the table of remembered requests promises, *)
(* for any hosts, requests, times and limit.                               *)
(*                                                                         *)
(* Memo relates the table to the history, in both directions: an entry is  *)
(* the time of an admission, and whatever was admitted within the memory   *)
(* has an entry that is not older.                                         *)
(***************************************************************************)
EXTENDS PairLimit, SequenceTheorems, FiniteSetTheorems, WellFoundedInduction, TLAPS

MemoType ==
  /\ now \in Nat
  /\ DOMAIN seen \subseteq Requests
  /\ \A r \in DOMAIN seen : seen[r] \in Nat
  /\ admitted \in Seq(Admission)

Memo ==
  /\ \A i \in 1..Len(admitted) : admitted[i].at <= now
  /\ \A r \in DOMAIN seen :
       \E i \in 1..Len(admitted) : admitted[i].request = r /\ admitted[i].at = seen[r]
  /\ \A i \in 1..Len(admitted) :
       now - admitted[i].at <= Memory =>
         /\ admitted[i].request \in DOMAIN seen
         /\ admitted[i].at <= seen[admitted[i].request]

MInv == MemoType /\ Memo /\ NoReplay /\ ReplayWasAdmitted

-----------------------------------------------------------------------------
LEMMA Numbers ==
  ASSUME MInv
  PROVE  now \in Nat /\ Memory \in Nat /\ \A i \in 1..Len(admitted) : admitted[i].at \in Nat
<1>1. now \in Nat /\ admitted \in Seq(Admission)
  BY DEF MInv, MemoType
<1>2. Memory \in Nat
  BY TimesAssumption
<1>3. ASSUME NEW i \in 1..Len(admitted) PROVE admitted[i].at \in Nat
  <2>1. admitted[i] \in Admission
    BY <1>1
  <2> QED BY <2>1 DEF Admission
<1> QED BY <1>1, <1>2, <1>3

\* Pruning keeps what Memo says of the table (allowPair, loop over seen).
LEMMA Pruned ==
  ASSUME MInv
  PROVE  /\ DOMAIN Remembered \subseteq DOMAIN seen
         /\ \A r \in DOMAIN Remembered : Remembered[r] = seen[r] /\ now - seen[r] <= Memory
         /\ \A i \in 1..Len(admitted) : now - admitted[i].at <= Memory =>
              /\ admitted[i].request \in DOMAIN Remembered
              /\ admitted[i].at <= Remembered[admitted[i].request]
<1>1. DOMAIN Remembered = {r \in DOMAIN seen : now - seen[r] <= Memory}
  BY DEF Remembered, Only
<1>2. \A r \in DOMAIN Remembered : Remembered[r] = seen[r] /\ now - seen[r] <= Memory
  BY <1>1 DEF Remembered, Only
<1>3. ASSUME NEW i \in 1..Len(admitted), now - admitted[i].at <= Memory
      PROVE  /\ admitted[i].request \in DOMAIN Remembered
             /\ admitted[i].at <= Remembered[admitted[i].request]
  <2>1. /\ admitted[i].request \in DOMAIN seen
        /\ admitted[i].at <= seen[admitted[i].request]
    BY <1>3 DEF MInv, Memo
  <2>2. /\ now \in Nat /\ Memory \in Nat /\ admitted[i].at \in Nat
        /\ seen[admitted[i].request] \in Nat
    BY <2>1, Numbers DEF MInv, MemoType
  <2>3. now - seen[admitted[i].request] <= Memory
    BY <1>3, <2>1, <2>2
  <2> QED BY <1>1, <1>2, <2>1, <2>3
<1> QED BY <1>1, <1>2, <1>3

\* A request that is not remembered was not admitted within the memory.
LEMMA Forgotten ==
  ASSUME MInv, NEW r, r \notin DOMAIN Remembered,
         NEW i \in 1..Len(admitted), admitted[i].request = r
  PROVE  now - admitted[i].at > Memory
<1>1. ~(now - admitted[i].at <= Memory)
  BY Pruned
<1>2. now \in Nat /\ Memory \in Nat /\ admitted[i].at \in Nat
  BY Numbers
<1> QED BY <1>1, <1>2

-----------------------------------------------------------------------------
LEMMA MemoInit == Init => MInv
<1> SUFFICES ASSUME Init PROVE MInv
  OBVIOUS
<1>1. /\ now = 0 /\ seen = <<>> /\ admitted = <<>> /\ answer.status = "none"
      /\ Len(admitted) = 0
  BY DEF Init, NoAnswer
<1>2. DOMAIN seen = {}
  BY <1>1
<1>3. admitted \in Seq(Admission) /\ 1..Len(admitted) = {}
  BY <1>1
<1>4. MemoType
  BY <1>1, <1>2, <1>3 DEF MemoType
<1>5. Memo
  BY <1>2, <1>3 DEF Memo
<1>6. NoReplay
  BY <1>3 DEF NoReplay
<1>7. ReplayWasAdmitted
  BY <1>1 DEF ReplayWasAdmitted
<1> QED BY <1>4, <1>5, <1>6, <1>7 DEF MInv

LEMMA ReplayKeeps ==
  ASSUME MInv, NEW h \in Hosts, NEW r \in Requests, Replay(h, r)
  PROVE  MInv'
<1>1. /\ seen' = Remembered /\ UNCHANGED <<now, admitted>>
      /\ answer'.status = "replayed" /\ answer'.request = r /\ r \in DOMAIN Remembered
  BY DEF Replay, Answers
<1>2. MemoType'
  BY <1>1, Pruned DEF MInv, MemoType
<1>3. Memo'
  BY <1>1, Pruned DEF MInv, Memo
<1>4. ReplayWasAdmitted'
  BY <1>1, Pruned DEF MInv, Memo, ReplayWasAdmitted
<1> QED BY <1>1, <1>2, <1>3, <1>4 DEF MInv, NoReplay

LEMMA LimitedKeeps ==
  ASSUME MInv, NEW h \in Hosts, NEW r \in Requests, Limited(h, r)
  PROVE  MInv'
<1>1. /\ seen' = Remembered /\ UNCHANGED <<now, admitted>> /\ answer'.status = "limited"
  BY DEF Limited, Answers
<1>2. MemoType'
  BY <1>1, Pruned DEF MInv, MemoType
<1>3. Memo'
  BY <1>1, Pruned DEF MInv, Memo
<1> QED BY <1>1, <1>2, <1>3 DEF MInv, NoReplay, ReplayWasAdmitted

LEMMA AdmitKeeps ==
  ASSUME MInv, NEW h \in Hosts, NEW r \in Requests, Admit(h, r)
  PROVE  MInv'
<1> DEFINE new == [at |-> now, host |-> h, request |-> r]
           n == Len(admitted)
<1>1. /\ r \notin DOMAIN Remembered
      /\ DOMAIN seen' = DOMAIN Remembered \cup {r}
      /\ seen'[r] = now
      /\ \A x \in DOMAIN Remembered : seen'[x] = seen[x]
      /\ admitted' = Append(admitted, new)
      /\ answer'.status = "admitted"
      /\ now' = now
  BY DEF Admit, Answers
<1>2. now \in Nat /\ admitted \in Seq(Admission) /\ new \in Admission /\ n \in Nat
  BY DEF MInv, MemoType, Admission
<1>3. /\ admitted' \in Seq(Admission) /\ Len(admitted') = n + 1
      /\ admitted'[n + 1] = new /\ \A i \in 1..n : admitted'[i] = admitted[i]
  BY <1>1, <1>2
<1>4. \A i \in 1..Len(admitted') : i \in 1..n \/ i = n + 1
  BY <1>2, <1>3
<1>5. MemoType'
  BY <1>1, <1>2, <1>3, Pruned DEF MInv, MemoType
<1>6. Memo'
  <2>1. ASSUME NEW i \in 1..Len(admitted') PROVE admitted'[i].at <= now'
    <3>1. CASE i \in 1..n
      BY <1>1, <1>3, <3>1 DEF MInv, Memo
    <3>2. CASE i = n + 1
      BY <1>1, <1>2, <1>3, <3>2
    <3> QED BY <1>4, <3>1, <3>2
  <2>2. ASSUME NEW x \in DOMAIN seen'
        PROVE  \E i \in 1..Len(admitted') : admitted'[i].request = x /\ admitted'[i].at = seen'[x]
    <3>1. CASE x = r
      BY <1>1, <1>2, <1>3, <3>1
    <3>2. CASE x # r
      <4>1. x \in DOMAIN Remembered /\ x \in DOMAIN seen /\ seen'[x] = seen[x]
        BY <1>1, <3>2, Pruned
      <4>2. PICK i \in 1..n : admitted[i].request = x /\ admitted[i].at = seen[x]
        BY <4>1 DEF MInv, Memo
      <4>3. i \in 1..Len(admitted') /\ admitted'[i] = admitted[i]
        BY <1>2, <1>3
      <4> QED BY <4>1, <4>2, <4>3
    <3> QED BY <3>1, <3>2
  <2>3. ASSUME NEW i \in 1..Len(admitted'), now' - admitted'[i].at <= Memory
        PROVE  /\ admitted'[i].request \in DOMAIN seen'
               /\ admitted'[i].at <= seen'[admitted'[i].request]
    <3>1. CASE i \in 1..n
      <4>1. admitted'[i] = admitted[i] /\ now - admitted[i].at <= Memory
        BY <1>1, <1>3, <2>3, <3>1
      <4>2. /\ admitted[i].request \in DOMAIN Remembered
            /\ admitted[i].at <= Remembered[admitted[i].request]
        BY <3>1, <4>1, Pruned
      <4> QED BY <1>1, <4>1, <4>2, Pruned
    <3>2. CASE i = n + 1
      BY <1>1, <1>2, <1>3, <3>2
    <3> QED BY <1>4, <3>1, <3>2
  <2> QED BY <2>1, <2>2, <2>3 DEF Memo
<1>7. NoReplay'
  <2> SUFFICES ASSUME NEW i \in 1..Len(admitted'), NEW j \in 1..Len(admitted'),
                      i < j, admitted'[i].request = admitted'[j].request
               PROVE  admitted'[j].at - admitted'[i].at > Memory
    BY DEF NoReplay
  <2>1. i \in 1..n
    BY <1>2, <1>3
  <2>2. CASE j \in 1..n
    BY <1>3, <2>1, <2>2 DEF MInv, NoReplay
  <2>3. CASE j = n + 1
    <3>1. admitted[i].request = r /\ admitted'[i] = admitted[i] /\ admitted'[j].at = now
      BY <1>3, <2>1, <2>3
    <3> QED BY <1>1, <2>1, <3>1, Forgotten
  <2> QED BY <1>4, <2>2, <2>3
<1> QED BY <1>1, <1>5, <1>6, <1>7 DEF MInv, ReplayWasAdmitted

LEMMA TickKeeps == MInv /\ Tick => MInv'
<1> SUFFICES ASSUME MInv, Tick PROVE MInv'
  OBVIOUS
<1>1. now' = now + 1 /\ UNCHANGED <<seen, admitted>> /\ answer'.status = "none"
  BY DEF Tick, NoAnswer
<1>2. now \in Nat /\ Memory \in Nat /\ \A i \in 1..Len(admitted) : admitted[i].at \in Nat
  BY Numbers
<1>3. MemoType'
  BY <1>1 DEF MInv, MemoType
<1>4. Memo'
  <2>1. \A i \in 1..Len(admitted) : admitted[i].at <= now + 1
    BY <1>2 DEF MInv, Memo
  <2>2. \A i \in 1..Len(admitted) :
          now + 1 - admitted[i].at <= Memory => now - admitted[i].at <= Memory
    BY <1>2
  <2>3. \A i \in 1..Len(admitted) :
          now + 1 - admitted[i].at <= Memory =>
            /\ admitted[i].request \in DOMAIN seen
            /\ admitted[i].at <= seen[admitted[i].request]
    BY <2>2 DEF MInv, Memo
  <2>4. \A r \in DOMAIN seen :
          \E i \in 1..Len(admitted) : admitted[i].request = r /\ admitted[i].at = seen[r]
    BY DEF MInv, Memo
  <2>5. now' = now + 1 /\ seen' = seen /\ admitted' = admitted
    BY <1>1
  <2>6. \A i \in 1..Len(admitted') : admitted'[i].at <= now'
    BY <2>1, <2>5
  <2>7. \A r \in DOMAIN seen' :
          \E i \in 1..Len(admitted') : admitted'[i].request = r /\ admitted'[i].at = seen'[r]
    BY <2>4, <2>5
  <2>8. \A i \in 1..Len(admitted') :
          now' - admitted'[i].at <= Memory =>
            /\ admitted'[i].request \in DOMAIN seen'
            /\ admitted'[i].at <= seen'[admitted'[i].request]
    <3> SUFFICES ASSUME NEW i \in 1..Len(admitted'), now' - admitted'[i].at <= Memory
                 PROVE  /\ admitted'[i].request \in DOMAIN seen'
                        /\ admitted'[i].at <= seen'[admitted'[i].request]
      OBVIOUS
    <3>1. i \in 1..Len(admitted) /\ now + 1 - admitted[i].at <= Memory
      <4>1. admitted'[i].at = admitted[i].at /\ Len(admitted') = Len(admitted)
        BY <2>5
      <4>2. i \in 1..Len(admitted)
        BY <4>1
      <4>3. now' = now + 1 /\ now \in Nat /\ Memory \in Nat /\ admitted[i].at \in Nat
        BY <1>2, <2>5, <4>2
      <4> QED BY <4>1, <4>2, <4>3
    <3>2. admitted[i].request \in DOMAIN seen /\ admitted[i].at <= seen[admitted[i].request]
      BY <2>3, <3>1
    <3> QED BY <2>5, <3>2, Zenon
  <2> QED BY <2>6, <2>7, <2>8, Zenon DEF Memo
<1>5. NoReplay'
  BY <1>1 DEF MInv, NoReplay
<1>6. ReplayWasAdmitted'
  BY <1>1 DEF ReplayWasAdmitted
<1> QED BY <1>3, <1>4, <1>5, <1>6 DEF MInv

LEMMA RestartKeeps == MInv /\ Restart => MInv'
<1> SUFFICES ASSUME MInv, Restart PROVE MInv'
  OBVIOUS
<1>1. /\ now' = now /\ seen' = <<>> /\ admitted' = <<>> /\ answer'.status = "none"
  BY DEF Restart, NoAnswer
<1>2. DOMAIN seen' = {}
  BY <1>1
<1>3. admitted' \in Seq(Admission) /\ 1..Len(admitted') = {}
  BY <1>1
<1>4. MemoType'
  BY <1>1, <1>2, <1>3 DEF MemoType, MInv
<1>5. Memo'
  BY <1>2, <1>3 DEF Memo
<1>6. NoReplay'
  BY <1>3 DEF NoReplay
<1>7. ReplayWasAdmitted'
  BY <1>1 DEF ReplayWasAdmitted
<1> QED BY <1>4, <1>5, <1>6, <1>7 DEF MInv

LEMMA StutterKeeps == MInv /\ UNCHANGED vars => MInv'
BY DEF MInv, MemoType, Memo, NoReplay, ReplayWasAdmitted, vars

\* The table of remembered requests stays related to what was admitted
\* (allowPair, under every order of requests, ticks and restarts).
THEOREM MemoInvariance == Spec => []MInv
<1>1. MInv /\ [Next]_vars => MInv'
  BY ReplayKeeps, LimitedKeeps, AdmitKeeps, TickKeeps, RestartKeeps, StutterKeeps DEF Next
<1> QED BY MemoInit, <1>1, PTL DEF Spec

\* No pairing request is admitted twice within the memory (allowPair, seen).
THEOREM NoReplayCorrect == Spec => []NoReplay
<1>1. MInv => NoReplay
  BY DEF MInv
<1> QED BY MemoInvariance, <1>1, PTL

\* A request is refused as a replay only if it was admitted (allowPair, seen).
THEOREM ReplayWasAdmittedCorrect == Spec => []ReplayWasAdmitted
<1>1. MInv => ReplayWasAdmitted
  BY DEF MInv
<1> QED BY MemoInvariance, <1>1, PTL

\* The replay table is exact: both halves together.
THEOREM ReplayExactCorrect == Spec => []ReplayExact
<1>1. NoReplay /\ ReplayWasAdmitted => ReplayExact
  BY DEF ReplayExact
<1> QED BY NoReplayCorrect, ReplayWasAdmittedCorrect, <1>1, PTL
-----------------------------------------------------------------------------
(* Counting (the loop over a host's times).                                *)

LEMMA Induction ==
  ASSUME NEW S, 0 \in S, \A n \in Nat : n \in S => n + 1 \in S
  PROVE  Nat \subseteq S
<1> SUFFICES ASSUME Nat \ S # {} PROVE FALSE
  OBVIOUS
<1>1. PICK m \in Nat \ S : \A x \in Nat \ S : ~(<<x, m>> \in OpToRel(<, Nat))
  BY WFMin, NatLessThanWellFounded
<1>2. m # 0 /\ m - 1 \in Nat
  OBVIOUS
<1>3. m - 1 \in S
  <2>1. m - 1 < m /\ <<m - 1, m>> \in Nat \X Nat
    BY <1>2
  <2>2. <<m - 1, m>> \in OpToRel(<, Nat)
    BY <2>1, Zenon DEF OpToRel
  <2> QED BY <1>1, <1>2, <2>2
<1>4. (m - 1) + 1 = m
  OBVIOUS
<1> QED BY <1>2, <1>3, <1>4

\* The recursion of Within, up to its n-th step.
Recursion(f, times, t, n) ==
  f = [k \in 0..n |-> IF k = 0 THEN <<>> ELSE Kept(f[k - 1], times[k], t)]

LEMMA Recurs ==
  ASSUME NEW times, NEW t, NEW n \in Nat
  PROVE  \E f : Recursion(f, times, t, n)
<1> DEFINE S == {m \in Nat : \E f : Recursion(f, times, t, m)}
<1>1. 0 \in S
  <2>1. Recursion([k \in 0..0 |-> <<>>], times, t, 0)
    BY DEF Recursion
  <2> QED BY <2>1
<1>2. ASSUME NEW m \in Nat, m \in S PROVE m + 1 \in S
  <2>1. PICK f : Recursion(f, times, t, m)
    BY <1>2
  <2> DEFINE g == [k \in 0..(m + 1) |-> IF k <= m THEN f[k] ELSE Kept(f[m], times[m + 1], t)]
  <2>2. ASSUME NEW k \in 0..(m + 1)
        PROVE  g[k] = IF k = 0 THEN <<>> ELSE Kept(g[k - 1], times[k], t)
    <3>1. CASE k = 0
      BY <2>1, <3>1 DEF Recursion
    <3>2. CASE k \in 1..m
      <4>1. k - 1 \in 0..m /\ k \in 0..m /\ k # 0
        BY <3>2
      <4>2. g[k] = f[k] /\ g[k - 1] = f[k - 1]
        BY <4>1
      <4>3. f[k] = Kept(f[k - 1], times[k], t)
        BY <2>1, <4>1 DEF Recursion
      <4> QED BY <4>1, <4>2, <4>3
    <3>3. CASE k = m + 1
      <4>1. k - 1 = m /\ k # 0 /\ ~(k <= m) /\ m \in 0..(m + 1) /\ m <= m
        BY <3>3
      <4> QED BY <3>3, <4>1
    <3> QED BY <2>2, <3>1, <3>2, <3>3
  <2>3. Recursion(g, times, t, m + 1)
    BY <2>2 DEF Recursion
  <2> QED BY <2>3
<1>3. Nat \subseteq S
  <2> HIDE DEF S
  <2> QED BY <1>1, <1>2, Induction
<1> QED BY <1>3

\* The times of a sequence that are not before t.
From(times, t) == {k \in 1..Len(times) : times[k] >= t}

LEMMA Prefixes ==
  ASSUME NEW n \in Nat, NEW S \in SUBSET (1..n)
  PROVE  IsFiniteSet(S) /\ Cardinality(S) \in Nat /\ Cardinality(S) <= n
         /\ n + 1 \notin S /\ Cardinality(S \cup {n + 1}) = Cardinality(S) + 1
<1>1. IsFiniteSet(1..n) /\ Cardinality(1..n) = n
  BY FS_Interval
<1>2. IsFiniteSet(S) /\ Cardinality(S) <= n
  BY <1>1, FS_Subset
<1>3. Cardinality(S) \in Nat
  BY <1>2, FS_CardinalityType
<1>4. n + 1 \notin S
  OBVIOUS
<1> QED BY <1>2, <1>3, <1>4, FS_AddElement

LEMMA OneMore ==
  ASSUME NEW times \in Seq(Nat), NEW time \in Nat, NEW t \in Nat
  PROVE  Cardinality(From(Append(times, time), t)) =
           Cardinality(From(times, t)) + (IF time >= t THEN 1 ELSE 0)
<1> DEFINE n == Len(times)
           more == Append(times, time)
<1>1. n \in Nat /\ Len(more) = n + 1 /\ more[n + 1] = time /\ \A k \in 1..n : more[k] = times[k]
  BY AppendProperties
<1>2. From(times, t) \subseteq 1..n
  BY DEF From
<1>3. From(more, t) = From(times, t) \cup (IF time >= t THEN {n + 1} ELSE {})
  <2> HIDE DEF n, more
  <2>1. 1..(n + 1) = 1..n \cup {n + 1}
    BY <1>1
  <2> QED BY <1>1, <2>1 DEF From, n
<1>4. Cardinality(From(times, t)) \in Nat
  BY <1>1, <1>2, Prefixes
<1>5. CASE time >= t
  <2>1. From(more, t) = From(times, t) \cup {n + 1}
    BY <1>3, <1>5
  <2> HIDE DEF n
  <2>2. Cardinality(From(times, t) \cup {n + 1}) = Cardinality(From(times, t)) + 1
    BY <1>1, <1>2, Prefixes
  <2> QED BY <1>5, <2>1, <2>2
<1>6. CASE ~(time >= t)
  BY <1>3, <1>4, <1>6
<1> QED BY <1>5, <1>6

\* The loop drops what is outside the window and keeps the rest.
LEMMA WithinKeeps ==
  ASSUME NEW times \in Seq(Nat), NEW t \in Nat
  PROVE  /\ Within(times, t) \in Seq(Nat)
         /\ \A k \in 1..Len(Within(times, t)) : t - Within(times, t)[k] < Minute
         /\ \A b \in Nat : t < b + Minute =>
              Cardinality(From(Within(times, t), b)) = Cardinality(From(times, b))
<1> DEFINE n == Len(times)
           f == CHOOSE g : Recursion(g, times, t, n)
           Upto(b, k) == {j \in 1..k : times[j] >= b}
           Good(k) == /\ f[k] \in Seq(Nat)
                      /\ \A j \in 1..Len(f[k]) : t - f[k][j] < Minute
                      /\ \A b \in Nat : t < b + Minute =>
                           Cardinality(From(f[k], b)) = Cardinality(Upto(b, k))
           S == {k \in Nat : k <= n => Good(k)}
<1>0. n \in Nat /\ Minute \in Nat
  BY TimesAssumption
<1>1. Within(times, t) = f[n]
  BY DEF Within, Recursion
<1>2. Recursion(f, times, t, n)
  BY <1>0, Recurs
<1> HIDE DEF f
<1>3. f[0] = <<>> /\ \A k \in 0..n : k # 0 => f[k] = Kept(f[k - 1], times[k], t)
  <2>1. \A k \in 0..n : f[k] = IF k = 0 THEN <<>> ELSE Kept(f[k - 1], times[k], t)
    BY <1>2 DEF Recursion
  <2>2. 0 \in 0..n
    BY <1>0
  <2> HIDE DEF n
  <2> QED BY <2>1, <2>2
<1>4. 0 \in S
  <2>1. \A b \in Nat : From(f[0], b) = {} /\ Upto(b, 0) = {}
    BY <1>3 DEF From
  <2>2. \A b \in Nat : Cardinality(From(f[0], b)) = Cardinality(Upto(b, 0))
    <3> HIDE DEF Upto
    <3> QED BY <2>1
  <2>3. f[0] \in Seq(Nat) /\ 1..Len(f[0]) = {}
    BY <1>3
  <2>4. Good(0)
    <3> HIDE DEF Upto
    <3> QED BY <2>2, <2>3
  <2> QED BY <2>4
<1>5. ASSUME NEW k \in Nat, k \in S PROVE k + 1 \in S
  <2> SUFFICES ASSUME k + 1 <= n PROVE Good(k + 1)
    OBVIOUS
  <2>1. Good(k) /\ k + 1 \in 1..n /\ k + 1 \in 0..n /\ (k + 1) - 1 = k /\ k + 1 # 0
    BY <1>0, <1>5
  <2> DEFINE time == times[k + 1]
  <2>2. time \in Nat /\ f[k + 1] = Kept(f[k], time, t)
    BY <1>3, <2>1
  <2>3. ASSUME NEW b \in Nat
        PROVE  Cardinality(Upto(b, k + 1)) =
                 Cardinality(Upto(b, k)) + (IF time >= b THEN 1 ELSE 0)
    <3>1. Upto(b, k) \subseteq 1..k
      OBVIOUS
    <3>2. Upto(b, k + 1) = Upto(b, k) \cup (IF time >= b THEN {k + 1} ELSE {})
      <4>1. 1..(k + 1) = 1..k \cup {k + 1}
        OBVIOUS
      <4> QED BY <4>1
    <3>3. Cardinality(Upto(b, k)) \in Nat
      BY <3>1, Prefixes
    <3> HIDE DEF Upto, time
    <3>4. Cardinality(Upto(b, k) \cup {k + 1}) = Cardinality(Upto(b, k)) + 1
      BY <3>1, Prefixes
    <3>5. CASE time >= b
      BY <3>2, <3>4, <3>5
    <3>6. CASE ~(time >= b)
      <4>1. Upto(b, k + 1) = Upto(b, k)
        BY <3>2, <3>6
      <4> QED BY <3>3, <3>6, <4>1
    <3> QED BY <3>5, <3>6
  <2> HIDE DEF time, Upto
  <2>4. CASE t - time < Minute
    <3>1. f[k + 1] = Append(f[k], time)
      BY <2>2, <2>4 DEF Kept
    <3>2. f[k + 1] \in Seq(Nat) /\ \A j \in 1..Len(f[k + 1]) : t - f[k + 1][j] < Minute
      BY <2>1, <2>2, <2>4, <3>1
    <3>3. \A b \in Nat : t < b + Minute =>
            Cardinality(From(f[k + 1], b)) = Cardinality(Upto(b, k + 1))
      BY <2>1, <2>2, <2>3, <3>1, OneMore
    <3> QED BY <3>2, <3>3
  <2>5. CASE ~(t - time < Minute)
    <3>1. f[k + 1] = f[k]
      BY <2>2, <2>5 DEF Kept
    <3>2. \A b \in Nat : t < b + Minute => ~(time >= b)
      BY <1>0, <2>2, <2>5
    <3>3. \A b \in Nat : t < b + Minute => Cardinality(Upto(b, k + 1)) = Cardinality(Upto(b, k)) + 0
      BY <2>3, <3>2
    <3>4. \A b \in Nat : Cardinality(Upto(b, k)) \in Nat
      <4>1. \A b \in Nat : Upto(b, k) \subseteq 1..k
        BY DEF Upto
      <4> QED BY <4>1, Prefixes
    <3> QED BY <2>1, <3>1, <3>3, <3>4
  <2> QED BY <2>4, <2>5
<1>6. n \in S
  <2> HIDE DEF S
  <2>1. Nat \subseteq S
    BY <1>4, <1>5, Induction
  <2> QED BY <1>0, <2>1
<1>7. Good(n)
  BY <1>0, <1>6
<1>8. \A b \in Nat : Upto(b, n) = From(times, b)
  BY DEF From
<1> QED BY <1>1, <1>7, <1>8
-----------------------------------------------------------------------------
(* The rate of a host.                                                     *)

AdmittedFrom(h, t) ==
  {i \in 1..Len(admitted) : admitted[i].host = h /\ admitted[i].at >= t}

\* A host's times are those of its admissions, as far as the window goes back.
Counted ==
  \A h \in Hosts, t \in Nat :
    now < t + Minute => Cardinality(From(rates[h], t)) = Cardinality(AdmittedFrom(h, t))

RateType == rates \in [Hosts -> Seq(Nat)] /\ \A h \in Hosts : Len(rates[h]) <= Limit

RInv == MInv /\ RateType /\ Counted /\ RateExact

LEMMA Times ==
  ASSUME MInv
  PROVE  /\ now \in Nat /\ Minute \in Nat /\ Limit \in Nat /\ Len(admitted) \in Nat
         /\ DOMAIN admitted = 1..Len(admitted)
         /\ \A i \in 1..Len(admitted) : admitted[i].at \in Nat /\ admitted[i].at <= now
  BY Numbers, TimesAssumption DEF MInv, Memo, MemoType

\* What is left of a host's times is as much as it was admitted in the window.
LEMMA RecentCounts ==
  ASSUME MInv, RateType, Counted, NEW h \in Hosts
  PROVE  /\ Recent(h) \in Seq(Nat) /\ Len(Recent(h)) \in Nat
         /\ Len(Recent(h)) <= Len(rates[h])
         /\ \A t \in Nat : now < t + Minute =>
              /\ Cardinality(From(Recent(h), t)) = Cardinality(AdmittedFrom(h, t))
              /\ Cardinality(AdmittedFrom(h, t)) <= Len(Recent(h))
         /\ Len(Recent(h)) =
              Cardinality({i \in 1..Len(admitted) :
                             admitted[i].host = h /\ now - admitted[i].at < Minute})
<1> DEFINE w == Recent(h)
           first == IF now < Minute THEN 0 ELSE now - Minute + 1
           window == {i \in 1..Len(admitted) : admitted[i].host = h /\ now - admitted[i].at < Minute}
<1>0. /\ now \in Nat /\ Minute \in Nat
      /\ \A i \in 1..Len(admitted) : admitted[i].at \in Nat /\ admitted[i].at <= now
  BY Times
<1>1. rates[h] \in Seq(Nat)
  BY DEF RateType
<1>2. /\ w \in Seq(Nat)
      /\ \A k \in 1..Len(w) : now - w[k] < Minute
      /\ \A t \in Nat : now < t + Minute =>
           Cardinality(From(w, t)) = Cardinality(From(rates[h], t))
  BY <1>0, <1>1, WithinKeeps DEF Recent
<1>3. \A t \in Nat : now < t + Minute => Cardinality(From(rates[h], t)) = Cardinality(AdmittedFrom(h, t))
  BY DEF Counted
<1>4. first \in Nat /\ now < first + Minute
  BY <1>0
<1> HIDE DEF w
<1>5. From(w, first) = 1..Len(w) /\ Len(w) \in Nat
  <2>1. Len(w) \in Nat /\ \A k \in 1..Len(w) : w[k] \in Nat /\ now - w[k] < Minute
    BY <1>2
  <2>2. \A k \in 1..Len(w) : w[k] >= first
    BY <1>0, <2>1
  <2> QED BY <2>1, <2>2 DEF From
<1>6. AdmittedFrom(h, first) = window
  <2>1. \A i \in 1..Len(admitted) : admitted[i].at >= first <=> now - admitted[i].at < Minute
    BY <1>0
  <2> HIDE DEF first
  <2> QED BY <2>1 DEF AdmittedFrom
<1> HIDE DEF first, window
<1>7. Cardinality(From(w, first)) = Len(w)
  BY <1>5, FS_Interval
<1>8. Len(w) = Cardinality(window)
  BY <1>2, <1>3, <1>4, <1>6, <1>7
<1>9. Len(w) <= Len(rates[h])
  <2>1. From(rates[h], first) \subseteq 1..Len(rates[h]) /\ Len(rates[h]) \in Nat
    BY <1>1 DEF From
  <2>2. Cardinality(From(rates[h], first)) <= Len(rates[h])
    BY <2>1, Prefixes
  <2> QED BY <1>2, <1>4, <1>7, <2>2
<1>10. ASSUME NEW t \in Nat, now < t + Minute
       PROVE  /\ Cardinality(From(w, t)) = Cardinality(AdmittedFrom(h, t))
              /\ Cardinality(AdmittedFrom(h, t)) <= Len(w)
  <2>1. Cardinality(From(w, t)) = Cardinality(AdmittedFrom(h, t))
    BY <1>2, <1>3, <1>10
  <2>2. From(w, t) \subseteq 1..Len(w)
    BY DEF From
  <2>3. Cardinality(From(w, t)) <= Len(w)
    BY <1>5, <2>2, Prefixes
  <2> QED BY <2>1, <2>3
<1> QED BY <1>2, <1>5, <1>8, <1>9, <1>10 DEF w, window

LEMMA NothingAdmitted ==
  admitted = <<>> /\ answer.status # "limited" /\ rates = [h \in Hosts |-> <<>>]
    => RateType /\ Counted /\ RateExact
<1> SUFFICES ASSUME admitted = <<>>, answer.status # "limited", rates = [h \in Hosts |-> <<>>]
             PROVE  RateType /\ Counted /\ RateExact
  OBVIOUS
<1>0. Limit \in Nat /\ 1..Len(admitted) = {} /\ DOMAIN admitted = {}
  BY TimesAssumption
<1>1. \A h \in Hosts : rates[h] = <<>> /\ rates[h] \in Seq(Nat) /\ Len(rates[h]) = 0
  OBVIOUS
<1>2. RateType
  BY <1>0, <1>1 DEF RateType
<1>3. \A h \in Hosts, t \in Nat : From(rates[h], t) = {} /\ AdmittedFrom(h, t) = {}
  BY <1>0, <1>1 DEF From, AdmittedFrom
<1>4. Counted
  BY <1>3 DEF Counted
<1>5. ASSUME NEW h \in Hosts, NEW t \in 0..now
      PROVE  Cardinality({i \in DOMAIN admitted : admitted[i].host = h
                           /\ admitted[i].at \in t..(t + Minute - 1)}) <= Limit
  <2>1. {i \in DOMAIN admitted : admitted[i].host = h
           /\ admitted[i].at \in t..(t + Minute - 1)} = {}
    BY <1>0
  <2> QED BY <1>0, <2>1, FS_EmptySet
<1> QED BY <1>2, <1>4, <1>5 DEF RateExact, RateKept, LimitWasReached

LEMMA LimitedCounts ==
  ASSUME RInv, NEW h \in Hosts, NEW r \in Requests, Limited(h, r)
  PROVE  RateType' /\ Counted' /\ RateExact'
<1>0. MInv /\ RateType /\ Counted /\ RateKept
  BY DEF RInv, RateExact
<1>1. /\ rates' = [rates EXCEPT ![h] = Recent(h)] /\ UNCHANGED <<now, admitted>>
      /\ answer'.host = h /\ Len(Recent(h)) >= Limit
  BY DEF Limited, Answers
<1>2. Limit \in Nat /\ Len(rates[h]) <= Limit /\ rates[h] \in Seq(Nat)
  BY <1>0, Times DEF RateType
<1>3. Len(Recent(h)) = Limit
  <2>1. Len(Recent(h)) \in Nat /\ Len(Recent(h)) <= Len(rates[h])
    BY <1>0, RecentCounts
  <2>2. Len(rates[h]) \in Nat
    BY <1>2
  <2> QED BY <1>1, <1>2, <2>1, <2>2
<1>4. \A g \in Hosts : rates'[g] = IF g = h THEN Recent(h) ELSE rates[g]
  BY <1>0, <1>1 DEF RateType
<1>5. RateType'
  BY <1>0, <1>1, <1>2, <1>3, RecentCounts DEF RateType
<1>6. Counted'
  <2> SUFFICES ASSUME NEW g \in Hosts, NEW t \in Nat, now < t + Minute
               PROVE  Cardinality(From(rates'[g], t)) = Cardinality(AdmittedFrom(g, t))
    BY <1>1 DEF Counted, AdmittedFrom
  <2>1. CASE g = h
    BY <1>0, <1>4, <2>1, RecentCounts
  <2>2. CASE g # h
    BY <1>0, <1>4, <2>2 DEF Counted
  <2> QED BY <2>1, <2>2
<1>7. LimitWasReached'
  <2>1. Cardinality({i \in 1..Len(admitted) :
                      admitted[i].host = h /\ now - admitted[i].at < Minute}) = Limit
    BY <1>0, <1>3, RecentCounts
  <2>2. DOMAIN admitted = 1..Len(admitted)
    BY <1>0, Times
  <2> QED BY <1>1, <2>1, <2>2 DEF LimitWasReached
<1>8. RateKept'
  BY <1>0, <1>1 DEF RateKept
<1> QED BY <1>5, <1>6, <1>7, <1>8 DEF RateExact

LEMMA AdmitCounts ==
  ASSUME RInv, NEW h \in Hosts, NEW r \in Requests, Admit(h, r)
  PROVE  RateType' /\ Counted' /\ RateExact'
<1> DEFINE new == [at |-> now, host |-> h, request |-> r]
           n == Len(admitted)
<1>0. MInv /\ RateType /\ Counted /\ RateKept
  BY DEF RInv, RateExact
<1>1. /\ rates' = [rates EXCEPT ![h] = Append(Recent(h), now)] /\ now' = now
      /\ admitted' = Append(admitted, new)
      /\ answer'.status = "admitted" /\ Len(Recent(h)) < Limit
  BY DEF Admit, Answers
<1>2. /\ now \in Nat /\ Minute \in Nat /\ Limit \in Nat /\ n \in Nat
      /\ admitted \in Seq(Admission) /\ new \in Admission
      /\ \A i \in 1..n : admitted[i].at \in Nat /\ admitted[i].at <= now
  BY <1>0, Times DEF MInv, MemoType, Admission
<1>3. /\ Len(admitted') = n + 1 /\ DOMAIN admitted' = 1..(n + 1)
      /\ admitted'[n + 1].host = h /\ admitted'[n + 1].at = now
      /\ \A i \in 1..n : admitted'[i] = admitted[i]
  BY <1>1, <1>2
<1>4. Recent(h) \in Seq(Nat) /\ Len(Recent(h)) \in Nat
  BY <1>0, RecentCounts
<1>5. /\ Append(Recent(h), now) \in Seq(Nat)
      /\ Len(Append(Recent(h), now)) = Len(Recent(h)) + 1
  BY <1>2, <1>4, AppendProperties
<1>6. \A g \in Hosts : rates'[g] = IF g = h THEN Append(Recent(h), now) ELSE rates[g]
  BY <1>0, <1>1 DEF RateType
<1>7. RateType'
  <2>1. Len(Recent(h)) + 1 <= Limit
    BY <1>1, <1>2, <1>4
  <2> QED BY <1>0, <1>1, <1>5, <1>6, <2>1 DEF RateType
\* What is counted of a host: one more of this one, the same of the others.
<1>8. ASSUME NEW t \in Nat, t <= now
      PROVE  /\ AdmittedFrom(h, t)' = AdmittedFrom(h, t) \cup {n + 1}
             /\ AdmittedFrom(h, t) \subseteq 1..n
             /\ Cardinality(AdmittedFrom(h, t)') = Cardinality(AdmittedFrom(h, t)) + 1
  <2>1. AdmittedFrom(h, t)' = AdmittedFrom(h, t) \cup {n + 1}
    <3>1. 1..(n + 1) = 1..n \cup {n + 1}
      BY <1>2
    <3> HIDE DEF n
    <3>2. AdmittedFrom(h, t)' = {i \in 1..(n + 1) : admitted'[i].host = h /\ admitted'[i].at >= t}
      BY <1>3 DEF AdmittedFrom
    <3>3. AdmittedFrom(h, t) = {i \in 1..n : admitted[i].host = h /\ admitted[i].at >= t}
      BY DEF AdmittedFrom, n
    <3> QED BY <1>2, <1>3, <1>8, <3>1, <3>2, <3>3
  <2>2. AdmittedFrom(h, t) \subseteq 1..n
    BY DEF AdmittedFrom
  <2>3. Cardinality(AdmittedFrom(h, t) \cup {n + 1}) = Cardinality(AdmittedFrom(h, t)) + 1
    <3> HIDE DEF n
    <3> QED BY <1>2, <2>2, Prefixes
  <2> QED BY <2>1, <2>2, <2>3
<1>9. ASSUME NEW g \in Hosts, NEW t \in Nat, g # h \/ t > now
      PROVE  AdmittedFrom(g, t)' = AdmittedFrom(g, t)
  <2>1. 1..(n + 1) = 1..n \cup {n + 1}
    BY <1>2
  <2> HIDE DEF n
  <2>2. AdmittedFrom(g, t)' = {i \in 1..(n + 1) : admitted'[i].host = g /\ admitted'[i].at >= t}
    BY <1>3 DEF AdmittedFrom
  <2>3. AdmittedFrom(g, t) = {i \in 1..n : admitted[i].host = g /\ admitted[i].at >= t}
    BY DEF AdmittedFrom, n
  <2> QED BY <1>2, <1>3, <1>9, <2>1, <2>2, <2>3
<1>10. Counted'
  <2> SUFFICES ASSUME NEW g \in Hosts, NEW t \in Nat, now < t + Minute
               PROVE  Cardinality(From(rates'[g], t)) = Cardinality(AdmittedFrom(g, t)')
    BY <1>1 DEF Counted
  <2>1. CASE g # h
    BY <1>0, <1>6, <1>9, <2>1 DEF Counted
  <2>2. CASE g = h
    <3>1. Cardinality(From(rates'[g], t)) =
            Cardinality(From(Recent(h), t)) + (IF now >= t THEN 1 ELSE 0)
      BY <1>2, <1>4, <1>6, <2>2, OneMore
    <3>2. Cardinality(From(Recent(h), t)) = Cardinality(AdmittedFrom(h, t))
      BY <1>0, RecentCounts
    <3>3. Cardinality(AdmittedFrom(h, t)) \in Nat
      <4>1. AdmittedFrom(h, t) \subseteq 1..n
        BY DEF AdmittedFrom
      <4> HIDE DEF n
      <4> QED BY <1>2, <4>1, Prefixes
    <3>4. CASE t <= now
      BY <1>2, <1>8, <2>2, <3>1, <3>2, <3>4
    <3>5. CASE t > now
      <4>1. AdmittedFrom(g, t)' = AdmittedFrom(g, t)
        BY <1>9, <3>5
      <4> QED BY <1>2, <2>2, <3>1, <3>2, <3>3, <3>5, <4>1
    <3> QED BY <1>2, <3>4, <3>5
  <2> QED BY <2>1, <2>2
<1>11. RateKept'
  <2> DEFINE In(q, g, t) == {i \in DOMAIN q : q[i].host = g /\ q[i].at \in t..(t + Minute - 1)}
  <2> SUFFICES ASSUME NEW g \in Hosts, NEW t \in 0..now
               PROVE  Cardinality(In(admitted', g, t)) <= Limit
    BY <1>1 DEF RateKept
  <2>1. DOMAIN admitted = 1..n
    BY <1>2
  <2>2. Cardinality(In(admitted, g, t)) <= Limit
    BY <1>0 DEF RateKept
  <2>3. CASE g # h \/ now \notin t..(t + Minute - 1)
    <3>1. In(admitted', g, t) = In(admitted, g, t)
      <4>1. 1..(n + 1) = 1..n \cup {n + 1}
        BY <1>2
      <4> HIDE DEF n
      <4> QED BY <1>3, <2>1, <2>3, <4>1
    <3> QED BY <2>2, <3>1
  <2>4. CASE g = h /\ now \in t..(t + Minute - 1)
    <3>1. t \in Nat /\ t <= now /\ now < t + Minute
      BY <1>2, <2>4
    <3>2. In(admitted', g, t) = AdmittedFrom(h, t)'
      <4>1. \A i \in 1..(n + 1) : admitted'[i].at \in Nat /\ admitted'[i].at <= now
        BY <1>2, <1>3
      <4>2. AdmittedFrom(h, t)' = {i \in 1..(n + 1) : admitted'[i].host = h /\ admitted'[i].at >= t}
        BY <1>3 DEF AdmittedFrom
      <4>3. \A i \in 1..(n + 1) : admitted'[i].at >= t <=> admitted'[i].at \in t..(t + Minute - 1)
        BY <1>2, <3>1, <4>1
      <4> HIDE DEF n
      <4> QED BY <1>3, <2>4, <4>2, <4>3
    <3>3. Cardinality(AdmittedFrom(h, t)') = Cardinality(AdmittedFrom(h, t)) + 1
      BY <1>8, <3>1
    <3>4. Cardinality(AdmittedFrom(h, t)) <= Len(Recent(h)) /\ Cardinality(AdmittedFrom(h, t)) \in Nat
      <4>1. AdmittedFrom(h, t) \subseteq 1..n
        BY DEF AdmittedFrom
      <4> HIDE DEF n
      <4> QED BY <1>0, <1>2, <3>1, <4>1, RecentCounts, Prefixes
    <3> HIDE DEF In
    <3> QED BY <1>1, <1>2, <1>4, <3>2, <3>3, <3>4
  <2> QED BY <2>3, <2>4
<1>12. LimitWasReached'
  BY <1>1 DEF LimitWasReached
<1> QED BY <1>7, <1>10, <1>11, <1>12 DEF RateExact

LEMMA TickCounts == RInv /\ Tick => RateType' /\ Counted' /\ RateExact'
<1> SUFFICES ASSUME RInv, Tick PROVE RateType' /\ Counted' /\ RateExact'
  OBVIOUS
<1>0. MInv /\ RateType /\ Counted /\ RateKept
  BY DEF RInv, RateExact
<1>1. now' = now + 1 /\ UNCHANGED <<rates, admitted>> /\ answer'.status = "none"
  BY DEF Tick, NoAnswer
<1>2. /\ now \in Nat /\ Minute \in Nat /\ Limit \in Nat /\ DOMAIN admitted = 1..Len(admitted)
      /\ \A i \in 1..Len(admitted) : admitted[i].at \in Nat /\ admitted[i].at <= now
  BY <1>0, Times
<1>3. RateType'
  BY <1>0, <1>1 DEF RateType
<1>4. Counted'
  <2>1. \A t \in Nat : now' < t + Minute => now < t + Minute
    BY <1>1, <1>2
  <2> QED BY <1>0, <1>1, <2>1 DEF Counted, AdmittedFrom
<1>5. RateKept'
  <2> DEFINE In(g, t) == {i \in DOMAIN admitted : admitted[i].host = g /\ admitted[i].at \in t..(t + Minute - 1)}
  <2> SUFFICES ASSUME NEW g \in Hosts, NEW t \in 0..(now + 1)
               PROVE  Cardinality(In(g, t)) <= Limit
    BY <1>1 DEF RateKept
  <2>1. CASE t \in 0..now
    BY <1>0, <2>1 DEF RateKept
  <2>2. CASE t = now + 1
    <3>1. In(g, t) = {}
      BY <1>2, <2>2
    <3> HIDE DEF In
    <3> QED BY <1>2, <3>1, FS_EmptySet
  <2> QED BY <1>2, <2>1, <2>2
<1>6. LimitWasReached'
  BY <1>1 DEF LimitWasReached
<1> QED BY <1>3, <1>4, <1>5, <1>6 DEF RateExact

LEMMA OthersCount ==
  ASSUME RInv, UNCHANGED <<now, rates, admitted>>, answer' = answer \/ answer'.status # "limited"
  PROVE  RateType' /\ Counted' /\ RateExact'
<1>1. RateType' /\ Counted'
  BY DEF RInv, RateType, Counted, AdmittedFrom
<1>2. RateKept'
  BY DEF RInv, RateExact, RateKept
<1>3. LimitWasReached'
  BY DEF RInv, RateExact, LimitWasReached
<1> QED BY <1>1, <1>2, <1>3 DEF RateExact

\* A host is admitted as often as the limit says in every minute and not more, and is
\* turned away only when it was (allowPair, rates).
THEOREM RateExactCorrect == Spec => []RateExact
<1>1. Init => RInv
  <2> SUFFICES ASSUME Init PROVE RInv
    OBVIOUS
  <2>1. answer.status # "limited"
    BY DEF Init, NoAnswer
  <2> QED BY <2>1, MemoInit, NothingAdmitted DEF Init, RInv
<1>2. RInv /\ [Next]_vars => RInv'
  <2> SUFFICES ASSUME RInv, [Next]_vars PROVE RateType' /\ Counted' /\ RateExact'
    <3>1. RInv /\ [Next]_vars => MInv'
      BY ReplayKeeps, LimitedKeeps, AdmitKeeps, TickKeeps, RestartKeeps, StutterKeeps DEF Next, RInv
    <3> QED BY <3>1 DEF RInv
  <2>1. CASE \E h \in Hosts, r \in Requests : Replay(h, r)
    <3>1. UNCHANGED <<now, rates, admitted>> /\ answer'.status # "limited"
      BY <2>1 DEF Replay, Answers
    <3> QED BY <3>1, OthersCount
  <2>2. CASE Restart
    <3>1. admitted' = <<>> /\ answer'.status # "limited" /\ rates' = [h \in Hosts |-> <<>>]
      BY <2>2 DEF Restart, NoAnswer
    <3>2. (admitted = <<>> /\ answer.status # "limited" /\ rates = [h \in Hosts |-> <<>>]
             => RateType /\ Counted /\ RateExact)'
      BY NothingAdmitted, PTL
    <3> QED BY <3>1, <3>2
  <2>3. CASE UNCHANGED vars
    BY <2>3, OthersCount DEF vars
  <2> QED BY <2>1, <2>2, <2>3, LimitedCounts, AdmitCounts, TickCounts DEF Next
<1>3. RInv => RateExact
  BY DEF RInv
<1> QED BY <1>1, <1>2, <1>3, PTL DEF Spec
=============================================================================
