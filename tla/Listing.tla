------------------------------- MODULE Listing -------------------------------
(* files.list and the inventories (service.list, process.list) as an agent   *)
(* uses them: page after page, from the offset where the last page ended,    *)
(* while the directory (the services, the processes) changes under it.  No   *)
(* lookup remembers the one before: each collects, sorts and cuts anew.        *)
(*                                                                           *)
(* A directory is read in two parts: os.ReadDir takes the names, and Info    *)
(* looks each of them up, in the order of the names; a name whose file has   *)
(* gone in between is left out.  An inventory is what one program printed,   *)
(* in any order, and is refused when it printed too much.                    *)
EXTENDS Naturals, Sequences, FiniteSets, SequencesExt, Functions

CONSTANTS
  Items,          \* names, numbers in the order they are sorted in
  Matching,       \* those that contain the agent's filter
  Limits,         \* the limits an agent asks for; 0 leaves it to the client
  DefaultLimit,   \* stands for 200 (files) and 100 (inventories)
  MaxLimit,       \* stands for 1000 (files) and 500 (inventories)
  MaxCollected,   \* as many items fill the output buffer of 1 MiB
  MaxChanges      \* bound: files that come or go

ASSUME ListingAssumption ==
  /\ Items \subseteq Nat /\ IsFiniteSet(Items) /\ Matching \subseteq Items
  /\ Limits \subseteq Nat /\ MaxCollected \in Nat /\ MaxChanges \in Nat
  /\ DefaultLimit \in 1..MaxLimit

VARIABLES
  present,   \* what there is
  past,      \* what there was when the agent began, and what happened since
  lister,    \* the agent: what it asks for, where it is, what it has
  lookup       \* the call under way in the client

listingVars == <<present, past, lister, lookup>>

NoLookup == [pc |-> "none", names |-> <<>>, found |-> <<>>]

ListingTypeOK ==
  /\ present \subseteq Items
  /\ past \in [start : SUBSET Items, created : BOOLEAN, removed : BOOLEAN, changes : 0..MaxChanges]
  /\ lister.kind \in {"files", "inventory"} /\ lister.filter \in {Items, Matching}
  /\ lister.state \in {"paging", "ended", "refused"} /\ lister.limit \in Limits \cup {0}
  /\ lister.offset \in 0..Cardinality(Items) /\ lister.seen \in Seq(Items)
  /\ lookup.pc \in {"none", "asked", "looking"}
  /\ lookup.names \in Seq(Items) /\ lookup.found \in Seq(Items)

ListingInit ==
  /\ present \in SUBSET Items
  /\ past = [start |-> present, created |-> FALSE, removed |-> FALSE, changes |-> 0]
  /\ \E kind \in {"files", "inventory"}, filter \in {Items, Matching}, limit \in Limits :
       lister = [kind |-> kind, filter |-> filter, limit |-> limit, state |-> "paging",
                 offset |-> 0, seen |-> <<>>]
  /\ lookup = NoLookup

-----------------------------------------------------------------------------
(* One page.                                                               *)

Ascending(S) ==
  [k \in 1..Cardinality(S) |-> CHOOSE i \in S : Cardinality({j \in S : j < i}) = k - 1]

\* Fault: the items stay in the order they were found in.
ArrangedAsFound(q) == q

\* sort.Slice, sort.SliceStable: no item is found twice.
Arranged(q) == Ascending(Range(q))

\* Fault: the limit is taken as it is sent.
LimitAsSent(limit) == limit

EffectiveLimit(limit) == IF limit = 0 THEN DefaultLimit ELSE limit

\* Fault: the first item of a later page is left out.
PageOffByOne(q, offset, limit) ==
  LET start == IF offset > Len(q) THEN Len(q) ELSE offset
      end == IF start + limit > Len(q) THEN Len(q) ELSE start + limit
  IN  [items |-> SubSeq(q, start + (IF start > 0 THEN 2 ELSE 1), end),
       offset |-> start, hasMore |-> end < Len(q)]

Page(q, offset, limit) ==
  LET start == IF offset > Len(q) THEN Len(q) ELSE offset
      end == IF start + limit > Len(q) THEN Len(q) ELSE start + limit
  IN  [items |-> SubSeq(q, start + 1, end), offset |-> start, hasMore |-> end < Len(q)]

\* The page of the matches that were found is answered and the agent takes it: it
\* goes on where the page ended.
AnswerPage(found) ==
  LET page == Page(Arranged(found), lister.offset, EffectiveLimit(lister.limit))
  IN  /\ lister' = [lister EXCEPT
                     !.seen = @ \o page.items,
                     !.offset = page.offset + Len(page.items),
                     !.state = IF page.hasMore THEN "paging" ELSE "ended"]
      /\ lookup' = NoLookup

RefusePage ==
  /\ lister' = [lister EXCEPT !.state = "refused"]
  /\ lookup' = NoLookup

-----------------------------------------------------------------------------
(* Steps.                                                                  *)

AskPage ==
  /\ lister.state = "paging" /\ lookup.pc = "none"
  /\ lookup' = [NoLookup EXCEPT !.pc = "asked"]
  /\ UNCHANGED <<present, past, lister>>

\* files.list: the request is checked and the names are read, in their order, or
\* the directory cannot be read.
ReadDir ==
  /\ lookup.pc = "asked" /\ lister.kind = "files"
  /\ \/ RefusePage
     \/ /\ lister.limit <= MaxLimit
        /\ lookup' = [pc |-> "looking", names |-> Ascending(present), found |-> <<>>]
        /\ UNCHANGED lister
  /\ UNCHANGED <<present, past>>

\* files.list: the next name that matches is looked up ...
Info ==
  /\ lookup.pc = "looking" /\ lookup.names # <<>>
  /\ lookup' = [lookup EXCEPT
               !.names = Tail(@),
               !.found = IF Head(lookup.names) \in present \cap lister.filter
                         THEN Append(@, Head(lookup.names)) ELSE @]
  /\ UNCHANGED <<present, past, lister>>

\* ... and after the last one the page is cut.
ListFiles ==
  /\ lookup.pc = "looking" /\ lookup.names = <<>>
  /\ AnswerPage(lookup.found)
  /\ UNCHANGED <<present, past>>

\* serviceList, processList: the program prints what there is in an order of its
\* own, and the page is cut from what matches.  The program may fail.
Collect ==
  /\ lookup.pc = "asked" /\ lister.kind = "inventory"
  /\ \/ RefusePage
     \/ /\ lister.limit <= MaxLimit /\ Cardinality(present) < MaxCollected
        /\ \E matches \in SetToSeqs(present \cap lister.filter) : AnswerPage(matches)
  /\ UNCHANGED <<present, past>>

\* A file, a service or a process comes or goes.
Appear(i) ==
  /\ i \notin present /\ past.changes < MaxChanges /\ lister.state = "paging"
  /\ present' = present \cup {i}
  /\ past' = [past EXCEPT !.created = TRUE, !.changes = @ + 1]
  /\ UNCHANGED <<lister, lookup>>

Vanish(i) ==
  /\ i \in present /\ past.changes < MaxChanges /\ lister.state = "paging"
  /\ present' = present \ {i}
  /\ past' = [past EXCEPT !.removed = TRUE, !.changes = @ + 1]
  /\ UNCHANGED <<lister, lookup>>

ListingStep == AskPage \/ ReadDir \/ Info \/ ListFiles \/ Collect

ListingNext == ListingStep \/ \E i \in Items : Appear(i) \/ Vanish(i)

-----------------------------------------------------------------------------
(* Properties.                                                             *)

\* The pages of a listing are computed independently: as long as nothing goes
\* away, an agent that follows them to the end has seen everything that was
\* there when it began, whatever came meanwhile and moved the rest.
NothingSkipped ==
  lister.state = "ended" /\ ~past.removed =>
    past.start \cap lister.filter \subseteq Range(lister.seen)

\* As long as nothing new comes, no item is seen twice or out of order, although
\* items may vanish from the pages that were already read.
NothingTwice ==
  ~past.created =>
    \A i, j \in DOMAIN lister.seen : i < j => lister.seen[i] < lister.seen[j]

\* What an agent puts together from pages is the listing, as far as what came or
\* went meanwhile lets it be.
ListingExact == NothingSkipped /\ NothingTwice

\* An agent that asks for page after page comes to an end: no page is empty
\* while it promises more.
ListingEnds == <>(lister.state # "paging")
=============================================================================
