------------------------------ MODULE PairLimit ------------------------------
(***************************************************************************)
(* The limiter in front of the broker's pairing requests (allowPair).      *)
(*                                                                         *)
(* It remembers every admitted request for a while, to refuse its replay,  *)
(* and the times of the latest admissions of each host.  Both tables are   *)
(* pruned when a request comes in, live in memory only, and are used under *)
(* the mutex.  Everything that happened before the limiter is asked (the   *)
(* method, the protocol version, the signature) is its environment.        *)
(***************************************************************************)
EXTENDS Integers, Sequences, FiniteSets

CONSTANTS
  Hosts,     \* addresses that requests come from
  Requests,  \* replay keys: a public key and a nonce
  Minute,    \* width of the window of a host's rate
  Memory,    \* how long a request is remembered, 10 minutes in the code
  Limit,     \* admissions of a host within a window, 10 in the code
  MaxTime    \* bound: the time at which the clock stops

ASSUME TimesAssumption ==
  {Minute, Memory, Limit, MaxTime} \subseteq Nat

VARIABLES
  now,       \* the clock
  seen,      \* s.seen: when a remembered request was admitted
  rates,     \* s.rates: the times of the latest admissions of a host
  admitted,  \* history: the admissions, [at, host, request]
  answer     \* history: the latest answer

vars == <<now, seen, rates, admitted, answer>>

Admission == [at : Nat, host : Hosts, request : Requests]

NoAnswer == [status |-> "none"]

Init ==
  /\ now = 0
  /\ seen = <<>>
  /\ rates = [h \in Hosts |-> <<>>]
  /\ admitted = <<>>
  /\ answer = NoAnswer

-----------------------------------------------------------------------------
Only(f, S) == [x \in S |-> f[x]]

\* Fault: a request is forgotten as soon as a host's window is over.
RememberedMinute == Only(seen, {r \in DOMAIN seen : now - seen[r] < Minute})

\* The requests that are still remembered.
Remembered == Only(seen, {r \in DOMAIN seen : now - seen[r] <= Memory})

\* The loop over a host's times: those within the window that ends at t.
Kept(recent, time, t) == IF t - time < Minute THEN Append(recent, time) ELSE recent

Within(times, t) ==
  LET recent[k \in 0..Len(times)] == IF k = 0 THEN <<>> ELSE Kept(recent[k - 1], times[k], t)
  IN  recent[Len(times)]

\* Fault: the latest admission is not counted.
RecentButOne(h) ==
  LET recent == Within(rates[h], now)
  IN  IF recent = <<>> THEN <<>> ELSE Tail(recent)

\* Fault: the times of a host are never dropped.
RecentAll(h) == rates[h]

\* The admissions of the host within the window that ends now.
Recent(h) == Within(rates[h], now)

Answers(status, h, r) == answer' = [status |-> status, host |-> h, request |-> r]

Replay(h, r) ==
  /\ r \in DOMAIN Remembered
  /\ seen' = Remembered
  /\ Answers("replayed", h, r)
  /\ UNCHANGED <<now, rates, admitted>>

\* Fault: a request that is turned away is remembered all the same.
LimitAndRemember(h, r) ==
  /\ r \notin DOMAIN Remembered
  /\ Len(Recent(h)) >= Limit
  /\ seen' = [x \in DOMAIN Remembered \cup {r} |-> IF x = r THEN now ELSE seen[x]]
  /\ rates' = [rates EXCEPT ![h] = Recent(h)]
  /\ Answers("limited", h, r)
  /\ UNCHANGED <<now, admitted>>

Limited(h, r) ==
  /\ r \notin DOMAIN Remembered
  /\ Len(Recent(h)) >= Limit
  /\ seen' = Remembered
  /\ rates' = [rates EXCEPT ![h] = Recent(h)]
  /\ Answers("limited", h, r)
  /\ UNCHANGED <<now, admitted>>

Admit(h, r) ==
  /\ r \notin DOMAIN Remembered
  /\ Len(Recent(h)) < Limit
  /\ seen' = [x \in DOMAIN Remembered \cup {r} |-> IF x = r THEN now ELSE seen[x]]
  /\ rates' = [rates EXCEPT ![h] = Append(Recent(h), now)]
  /\ admitted' = Append(admitted, [at |-> now, host |-> h, request |-> r])
  /\ Answers("admitted", h, r)
  /\ UNCHANGED now

Tick ==
  /\ now < MaxTime
  /\ now' = now + 1
  /\ answer' = NoAnswer
  /\ UNCHANGED <<seen, rates, admitted>>

\* main: the tables of a restarted broker are empty.  The history begins anew.
Restart ==
  /\ admitted # <<>>
  /\ seen' = <<>>
  /\ rates' = [h \in Hosts |-> <<>>]
  /\ admitted' = <<>>
  /\ answer' = NoAnswer
  /\ UNCHANGED now

Next ==
  \/ \E h \in Hosts, r \in Requests : Replay(h, r) \/ Limited(h, r) \/ Admit(h, r)
  \/ Tick
  \/ Restart

Spec == Init /\ [][Next]_vars

-----------------------------------------------------------------------------
(* Properties.                                                             *)

\* A request is not admitted again before it has been forgotten (allowPair, seen).
NoReplay ==
  \A i, j \in 1..Len(admitted) :
    i < j /\ admitted[i].request = admitted[j].request
      => admitted[j].at - admitted[i].at > Memory

\* In no window of a minute, wherever it begins, is a host admitted more often
\* than the limit (allowPair, rates).
RateKept ==
  \A h \in Hosts, t \in 0..now :
    Cardinality({i \in DOMAIN admitted :
                   admitted[i].host = h /\ admitted[i].at \in t..(t + Minute - 1)}) <= Limit

\* A request is refused as a replay only if it was admitted within the memory:
\* one that was turned away may come again at once (allowPair, seen).
ReplayWasAdmitted ==
  answer.status = "replayed" =>
    \E i \in 1..Len(admitted) :
      admitted[i].request = answer.request /\ now - admitted[i].at <= Memory

\* The replay table refuses what was admitted and is remembered, and only that.
ReplayExact == NoReplay /\ ReplayWasAdmitted

\* A host is turned away only if it was admitted as often as the limit says in
\* the minute that ends now; what was refused does not count (allowPair, rates).
LimitWasReached ==
  answer.status = "limited" =>
    Cardinality({i \in DOMAIN admitted :
                   admitted[i].host = answer.host /\ now - admitted[i].at < Minute}) = Limit

\* The limiter admits as often as the limit says in every minute, not more, and
\* refuses no one who has come less often.
RateExact == RateKept /\ LimitWasReached
=============================================================================
