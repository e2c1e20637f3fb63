--------------------------- MODULE AgentTasksProofs ---------------------------
(***************************************************************************)
(* What an agent does on the guest, for every value of the constants.      *)
(* Uploads: what is published is the whole file that was announced,        *)
(* whichever chunks of whichever uploads came before.  Commands: the flags *)
(* of a result are right.  Downloads: the chunks that an agent was sent    *)
(* are the file, if it only grew or only shrank.  Listings: the pages are  *)
(* what there is, as far as what came or went meanwhile lets them be.      *)
(* Views: results are shown cleaned, cut only where they must be, and      *)
(* marked where they were.                                                 *)
(***************************************************************************)
EXTENDS AgentTasks, SequenceTheorems, FiniteSetTheorems, WellFoundedInduction, TLAPS

-----------------------------------------------------------------------------
(* Uploads (ChunkedUpload).                                                *)

\* The command between two steps: a chunk goes right behind the part file, within
\* the limit, and a hash that was found right is still that of the part file.
CallOK ==
  /\ call.op = "chunk" =>
       /\ call.next = Len(part) + Len(call.data)
       /\ call.next <= MaxTransfer
       /\ \A i \in 1..Len(call.data) : call.data[i][2] = Len(part) + i
  /\ call.op \in {"lstat", "rename"} => part = Whole(call.expected)

IInv ==
  /\ TypeOK
  /\ CallOK
  /\ PublishedIsExpected
  /\ PartInPlace
  /\ NextIsSize
  /\ WithinLimit

\* A slice of a version is a sequence of blocks, each at its place.
LEMMA SliceBlocks ==
  ASSUME NEW v \in Versions, NEW from \in Nat, NEW n \in Nat
  PROVE  /\ Slice(v, from, n) \in Seq(Block)
         /\ Len(Slice(v, from, n)) = n
         /\ \A i \in 1..n : Slice(v, from, n)[i][2] = from + i
BY DEF Slice, Block

\* What is written behind a part file keeps every block at its place.
LEMMA AppendInPlace ==
  ASSUME NEW s \in Seq(Block), NEW d \in Seq(Block),
         \A i \in 1..Len(s) : s[i][2] = i,
         \A i \in 1..Len(d) : d[i][2] = Len(s) + i,
         NEW n \in 0..Len(d)
  PROVE  /\ s \o SubSeq(d, 1, n) \in Seq(Block)
         /\ Len(s \o SubSeq(d, 1, n)) = Len(s) + n
         /\ \A i \in 1..Len(s \o SubSeq(d, 1, n)) : (s \o SubSeq(d, 1, n))[i][2] = i
<1> DEFINE t == SubSeq(d, 1, n)
<1>1. t \in Seq(Block) /\ Len(t) = n /\ \A i \in 1..n : t[i] = d[i]
  OBVIOUS
<1>2. s \o t \in Seq(Block) /\ Len(s \o t) = Len(s) + n
  BY <1>1
<1>3. ASSUME NEW i \in 1..Len(s \o t)
      PROVE  (s \o t)[i][2] = i
  <2>1. CASE i <= Len(s)
    BY <1>1, <1>2, <2>1
  <2>2. CASE i > Len(s)
    <3>1. i - Len(s) \in 1..n /\ (s \o t)[i] = t[i - Len(s)]
      BY <1>1, <1>2, <2>2
    <3>2. t[i - Len(s)][2] = Len(s) + (i - Len(s))
      BY <1>1, <3>1
    <3> QED
      BY <3>1, <3>2, <1>2
  <2> QED
    BY <2>1, <2>2, <1>2
<1> QED
  BY <1>2, <1>3

\* All of what is written.
LEMMA AppendAll ==
  ASSUME NEW d \in Seq(Block)
  PROVE  SubSeq(d, 1, Len(d)) = d
OBVIOUS

\* The file of another program.
LEMMA ForeignFile == Foreign \in Seq(Block)
<1> DEFINE b == <<Other, 1>>
<1>1. b \in Block
  BY DEF Block
<1> HIDE DEF b
<1>2. <<b>> \in Seq(Block)
  BY <1>1
<1> QED
  BY <1>2 DEF b, Foreign

\* Before the first command.
LEMMA InitIInv == Init => IInv
<1> SUFFICES ASSUME Init
             PROVE  IInv
  OBVIOUS
<1> USE DEF Init
<1>1. call \in Calls /\ call.op = "idle" /\ last \in Answers /\ last.op = "refused"
  BY DEF Calls, Answers, Idle, Refused
<1>2. TypeOK
  BY <1>1 DEF TypeOK
<1> QED
  BY <1>1, <1>2 DEF IInv, CallOK, PublishedIsExpected, PartInPlace, NextIsSize, WithinLimit

\* Opening the part file for a chunk.
LEMMA OpenIInv ==
  ASSUME IInv, NEW v \in Versions, NEW offset \in Nat, NEW length \in Nat,
         NEW final \in BOOLEAN, NEW expected \in Hashes,
         Open(v, offset, length, final, expected)
  PROVE  IInv'
<1> USE UploadAssumption DEF IInv, TypeOK
<1>1. part' \in Seq(Block) /\ (part' = <<>> \/ part' = part)
  BY DEF Open, Contents
<1>2. part' # NoFile /\ Len(part') \in Nat
  BY <1>1
<1>3. \A i \in 1..Len(part') : part'[i][2] = i
  BY <1>1, <1>2 DEF PartInPlace
<1>4. Len(part') <= MaxTransfer
  BY <1>1, <1>2 DEF WithinLimit
<1>5. CASE Len(part') = offset
  <2>1. call' = [op |-> "chunk", data |-> Slice(v, offset, length),
                 next |-> offset + length, final |-> final, expected |-> expected]
    BY <1>5 DEF Open
  <2>2. UNCHANGED <<target, last, replaced>>
    BY <1>5 DEF Open
  <2>3. call' \in Calls
    BY <2>1, SliceBlocks DEF Calls
  <2>4. CallOK'
    <3>1. offset + length <= MaxTransfer
      BY DEF Open, Within
    <3>2. /\ call'.op = "chunk"
          /\ call'.data = Slice(v, offset, length)
          /\ call'.next = offset + length
      BY <2>1
    <3> HIDE DEF IInv, TypeOK
    <3>3. /\ Len(Slice(v, offset, length)) = length
          /\ \A i \in 1..length : Slice(v, offset, length)[i][2] = offset + i
      BY SliceBlocks
    <3>4. call'.next = Len(part') + Len(call'.data) /\ call'.next <= MaxTransfer
      BY <1>5, <3>1, <3>2, <3>3
    <3>5. \A i \in 1..Len(call'.data) : call'.data[i][2] = Len(part') + i
      BY <1>5, <3>2, <3>3
    <3>6. call'.op \notin {"lstat", "rename"}
      BY <3>2
    <3> QED
      BY <3>4, <3>5, <3>6 DEF CallOK
  <2>5. call' # Idle /\ call'.op = "chunk"
    BY <2>1 DEF Idle
  <2>6. TypeOK'
    BY <1>1, <1>2, <2>2, <2>3
  <2> QED
    BY <1>3, <1>4, <2>2, <2>4, <2>5, <2>6
    DEF PublishedIsExpected, PartInPlace, NextIsSize, WithinLimit
<1>6. CASE Len(part') # offset
  <2>1. call' = Idle /\ last' = Refused /\ UNCHANGED <<target, replaced>>
    BY <1>6 DEF Open, Answer
  <2>2. call'.op = "idle" /\ last'.op = "refused" /\ call' \in Calls /\ last' \in Answers
    BY <2>1 DEF Idle, Refused, Calls, Answers
  <2>3. TypeOK'
    BY <1>1, <2>1, <2>2
  <2> QED
    BY <1>3, <1>4, <2>2, <2>3
    DEF CallOK, PublishedIsExpected, PartInPlace, NextIsSize, WithinLimit
<1> QED
  BY <1>5, <1>6

\* A command that ends with nothing but an error, having left the part file well.
LEMMA RefusedIInv ==
  ASSUME IInv, Answer(Refused),
         target' \in Seq(Block) \cup {NoFile}, replaced' \subseteq Seq(Block),
         part' \in Seq(Block) \cup {NoFile}, PartInPlace', WithinLimit'
  PROVE  IInv'
<1>1. call' = Idle /\ last' = Refused
  BY DEF Answer
<1>2. call'.op = "idle" /\ last'.op = "refused" /\ call' \in Calls /\ last' \in Answers
  BY <1>1 DEF Idle, Refused, Calls, Answers
<1> QED
  BY <1>2 DEF IInv, TypeOK, CallOK, PublishedIsExpected, NextIsSize

\* Blocks of the chunk at hand are written behind the part file.
LEMMA AppendIInv ==
  ASSUME IInv, call.op = "chunk", NEW n \in 0..Len(call.data),
         part' = part \o SubSeq(call.data, 1, n)
  PROVE  /\ part' \in Seq(Block)
         /\ part' # NoFile
         /\ Len(part') = Len(part) + n
         /\ Len(part') <= MaxTransfer
         /\ PartInPlace'
         /\ WithinLimit'
<1> USE UploadAssumption DEF IInv, TypeOK
<1>1. part \in Seq(Block) /\ call.data \in Seq(Block) /\ call.next = Len(part) + Len(call.data)
  BY DEF Calls, CallOK, Idle
<1>2. /\ \A i \in 1..Len(part) : part[i][2] = i
      /\ \A i \in 1..Len(call.data) : call.data[i][2] = Len(part) + i
  BY <1>1 DEF PartInPlace, CallOK
<1>3. part' \in Seq(Block) /\ Len(part') = Len(part) + n /\ \A i \in 1..Len(part') : part'[i][2] = i
  BY <1>1, <1>2, AppendInPlace
<1>4. Len(part') <= MaxTransfer
  BY <1>1, <1>3 DEF CallOK
<1> QED
  BY <1>3, <1>4 DEF PartInPlace, WithinLimit

\* All of the chunk at hand is written.
LEMMA AppendAllIInv ==
  ASSUME IInv, call.op = "chunk", part' = part \o call.data
  PROVE  /\ part' \in Seq(Block)
         /\ part' # NoFile
         /\ Len(part') = Len(part) + Len(call.data)
         /\ PartInPlace'
         /\ WithinLimit'
<1>1. call.data \in Seq(Block)
  BY DEF IInv, TypeOK, Calls, Idle
<1>2. part' = part \o SubSeq(call.data, 1, Len(call.data))
  BY <1>1, AppendAll
<1>3. Len(call.data) \in 0..Len(call.data)
  BY <1>1
<1> QED
  BY <1>2, <1>3, AppendIInv

\* Every step keeps the invariant.
LEMMA StepIInv == IInv /\ [Next]_vars => IInv'
<1> SUFFICES ASSUME IInv, [Next]_vars
             PROVE  IInv'
  OBVIOUS
<1> USE UploadAssumption DEF IInv, TypeOK
<1>1. ASSUME NEW v \in Versions, NEW final \in BOOLEAN, NEW expected \in Hashes,
             NEW offset \in 0..Size[v], NEW length \in 0..(Size[v] - offset),
             Open(v, offset, length, final, expected)
      PROVE  IInv'
  <2>1. Size[v] \in Nat /\ offset \in Nat /\ length \in Nat
    OBVIOUS
  <2> QED
    BY <1>1, <2>1, OpenIInv
<1>2. ASSUME NEW n \in Nat, WriteFails(n)
      PROVE  IInv'
  <2>1. call.data \in Seq(Block) /\ n \in 0..Len(call.data)
    BY <1>2 DEF WriteFails, Calls, Idle
  <2>2. part' \in Seq(Block) /\ PartInPlace' /\ WithinLimit'
    BY <1>2, <2>1, AppendIInv DEF WriteFails
  <2> QED
    BY <1>2, <2>2, RefusedIInv DEF WriteFails
<1>3. CASE WriteMore
  <2>1. call.data \in Seq(Block) /\ call.next \in Nat
    BY <1>3 DEF WriteMore, Calls, Idle
  <2>2. /\ part' \in Seq(Block) /\ part' # NoFile /\ PartInPlace' /\ WithinLimit'
        /\ Len(part') = Len(part) + Len(call.data)
    BY <1>3, AppendAllIInv DEF WriteMore
  <2>3. CASE call.final
    BY <1>3, <2>2, <2>3, RefusedIInv DEF WriteMore
  <2>4. CASE ~call.final
    <3>1. call' = Idle /\ last' = [op |-> "more", next |-> call.next]
      BY <1>3, <2>4 DEF WriteMore, Answer
    <3>2. call' \in Calls /\ last' \in Answers /\ call'.op = "idle" /\ last'.op = "more"
      BY <2>1, <3>1 DEF Calls, Answers, Idle
    <3>3. last'.next = Len(part')
      BY <1>3, <2>2, <3>1 DEF WriteMore, CallOK
    <3> QED
      BY <1>3, <2>2, <3>2, <3>3 DEF WriteMore, CallOK, PublishedIsExpected, NextIsSize
  <2> QED
    BY <2>3, <2>4
<1>4. CASE WriteFinal
  <2>1. call.data \in Seq(Block) /\ call.expected \in Versions
    BY <1>4 DEF WriteFinal, Calls, Idle, Hashes
  <2>2. CASE part \o call.data = Whole(call.expected)
    <3>1. /\ part' = part \o call.data
          /\ call' = [op |-> "lstat", expected |-> call.expected]
          /\ UNCHANGED <<last, target, replaced>>
      BY <1>4, <2>2 DEF WriteFinal
    <3>2. part' \in Seq(Block) /\ part' # NoFile /\ PartInPlace' /\ WithinLimit'
      BY <1>4, <3>1, AppendAllIInv DEF WriteFinal
    <3>3. call' \in Calls /\ call'.op = "lstat" /\ call' # Idle
      BY <2>1, <3>1 DEF Calls, Idle
    <3>4. CallOK'
      BY <2>2, <3>1, <3>3 DEF CallOK, Whole
    <3> QED
      BY <3>1, <3>2, <3>3, <3>4 DEF PublishedIsExpected, NextIsSize
  <2>3. CASE part \o call.data # Whole(call.expected)
    <3>1. part' = NoFile /\ Answer(Refused) /\ UNCHANGED <<target, replaced>>
      BY <1>4, <2>3 DEF WriteFinal
    <3>2. PartInPlace' /\ WithinLimit'
      BY <3>1 DEF PartInPlace, WithinLimit
    <3> QED
      BY <3>1, <3>2, RefusedIInv
  <2> QED
    BY <2>2, <2>3
<1>5. CASE Exists
  <2>1. CASE target # NoFile
    BY <1>5, <2>1, RefusedIInv DEF Exists, PartInPlace, WithinLimit
  <2>2. CASE target = NoFile
    <3>1. call' = [op |-> "rename", expected |-> call.expected] /\ call.expected \in Versions
      BY <1>5, <2>2 DEF Exists, Calls, Idle
    <3>2. call' \in Calls /\ call'.op = "rename" /\ call' # Idle /\ call'.expected = call.expected
      BY <3>1 DEF Calls, Idle
    <3>3. UNCHANGED <<part, target, last, replaced>>
      BY <1>5, <2>2 DEF Exists
    <3>4. CallOK'
      BY <1>5, <3>2, <3>3 DEF Exists, CallOK, Whole
    <3> QED
      BY <1>5, <3>2, <3>3, <3>4
      DEF Exists, PublishedIsExpected, PartInPlace, NextIsSize, WithinLimit
  <2> QED
    BY <2>1, <2>2
<1>6. CASE Rename
  <2>1. part \in Seq(Block) /\ call.expected \in Versions /\ part = Whole(call.expected)
    BY <1>6 DEF Rename, Calls, Idle, CallOK
  <2>2. CASE target' = part
    <3>1. CASE last' = Refused
      BY <1>6, <2>1, <2>2, <3>1, RefusedIInv DEF Rename, PartInPlace, WithinLimit, Answer
    <3>2. CASE last' # Refused
      <4>1. /\ last' = [op |-> "published", file |-> part, expected |-> call.expected]
            /\ call' = Idle /\ part' = NoFile /\ replaced' \subseteq Seq(Block)
        BY <1>6, <3>2 DEF Rename, Answer
      <4>2. call' \in Calls /\ last' \in Answers /\ call'.op = "idle" /\ last'.op = "published"
        BY <2>1, <4>1 DEF Calls, Answers, Idle
      <4>3. PublishedIsExpected'
        BY <2>1, <4>1 DEF PublishedIsExpected, Whole
      <4> QED
        BY <2>1, <2>2, <4>1, <4>2, <4>3 DEF CallOK, PartInPlace, NextIsSize, WithinLimit
    <3> QED
      BY <3>1, <3>2
  <2>3. CASE target' # part
    BY <1>6, <2>3, RefusedIInv DEF Rename, PartInPlace, WithinLimit
  <2> QED
    BY <2>2, <2>3
<1>7. ASSUME NEW v \in Versions, WriteExists(v)
      PROVE  IInv'
  <2>1. CASE target # NoFile
    BY <1>7, <2>1, RefusedIInv DEF WriteExists, PartInPlace, WithinLimit
  <2>2. CASE target = NoFile
    <3>1. /\ call' = [op |-> "write", data |-> Whole(v)]
          /\ UNCHANGED <<part, target, last, replaced>>
      BY <1>7, <2>2 DEF WriteExists
    <3>2. Whole(v) \in Seq(Block)
      BY SliceBlocks DEF Whole
    <3>3. call' \in Calls /\ call'.op = "write" /\ call' # Idle
      BY <3>1, <3>2 DEF Calls, Idle
    <3> QED
      BY <3>1, <3>3 DEF CallOK, PublishedIsExpected, PartInPlace, NextIsSize, WithinLimit
  <2> QED
    BY <2>1, <2>2
<1>8. ASSUME NEW n \in Nat, WriteFile(n)
      PROVE  IInv'
  <2>1. call.data \in Seq(Block)
    BY <1>8 DEF WriteFile, Calls, Idle
  <2>2. target' \in Seq(Block) /\ replaced' \subseteq Seq(Block) /\ part' = part
    BY <1>8, <2>1 DEF WriteFile
  <2>3. CASE last' = Refused
    BY <1>8, <2>2, <2>3, RefusedIInv DEF WriteFile, PartInPlace, WithinLimit, Answer
  <2>4. CASE last' # Refused
    <3>1. last' = [op |-> "written", size |-> n] /\ call' = Idle
      BY <1>8, <2>4 DEF WriteFile, Answer
    <3>2. call' \in Calls /\ last' \in Answers /\ call'.op = "idle" /\ last'.op = "written"
      BY <3>1 DEF Calls, Answers, Idle
    <3> QED
      BY <2>2, <3>2 DEF CallOK, PublishedIsExpected, PartInPlace, NextIsSize, WithinLimit
  <2> QED
    BY <2>3, <2>4
<1>9. CASE Stop
  BY <1>9, RefusedIInv DEF Stop, PartInPlace, WithinLimit
<1>10. CASE Interfere
  <2>3. target' \in Seq(Block) \cup {NoFile} /\ UNCHANGED <<part, call, last, replaced>>
    BY <1>10, ForeignFile DEF Interfere
  <2> QED
    BY <2>3 DEF CallOK, PublishedIsExpected, PartInPlace, NextIsSize, WithinLimit, Whole
<1>11. CASE UNCHANGED vars
  BY <1>11 DEF vars, CallOK, PublishedIsExpected, PartInPlace, NextIsSize, WithinLimit, Whole
<1>12. CASE Next
  BY <1>1, <1>2, <1>3, <1>4, <1>5, <1>6, <1>7, <1>8, <1>9, <1>10, <1>12 DEF Next, Command
<1> QED
  BY <1>11, <1>12

-----------------------------------------------------------------------------

\* The inductive invariant: files and commands between their steps fit together
\* (filesWriteChunk, filesWrite).
THEOREM Invariance == Spec => []IInv
<1> QED
  BY InitIInv, StepIInv, PTL DEF Spec

\* A command between its steps still has the part file it opened.
THEOREM TypeCorrect == Spec => []TypeOK
<1>1. IInv => TypeOK
  BY DEF IInv
<1> QED
  BY <1>1, Invariance, PTL

\* A published file is the whole file whose hash was expected (filesWriteChunk).
THEOREM PublishedCorrect == Spec => []PublishedIsExpected
<1>1. IInv => PublishedIsExpected
  BY DEF IInv
<1> QED
  BY <1>1, Invariance, PTL

\* Every block of the part file is at the place it was sent for.
THEOREM PartCorrect == Spec => []PartInPlace
<1>1. IInv => PartInPlace
  BY DEF IInv
<1> QED
  BY <1>1, Invariance, PTL

\* The nextOffset of an answer is where the next chunk is accepted.
THEOREM NextCorrect == Spec => []NextIsSize
<1>1. IInv => NextIsSize
  BY DEF IInv
<1> QED
  BY <1>1, Invariance, PTL

\* A part file never outgrows MaxTransfer.
THEOREM LimitCorrect == Spec => []WithinLimit
<1>1. IInv => WithinLimit
  BY DEF IInv
<1> QED
  BY <1>1, Invariance, PTL

\* What Lstat has found absent appears only by another program.
AbsentOrForeign ==
  /\ KeepsUploads
  /\ call.op \in {"rename", "write"} => target \in {NoFile, Foreign}

\* No command replaces a file that a command has written (Lstat before Rename in
\* filesWriteChunk and before WriteFile in filesWrite).
THEOREM UploadsKept == Spec => []KeepsUploads
<1>1. Init => AbsentOrForeign
  BY DEF Init, AbsentOrForeign, KeepsUploads, Idle
<1>2. AbsentOrForeign /\ [Next]_vars => AbsentOrForeign'
  <2> SUFFICES ASSUME AbsentOrForeign, [Next]_vars
               PROVE  AbsentOrForeign'
    OBVIOUS
  <2> USE DEF AbsentOrForeign, KeepsUploads, Answer, Idle
  <2>1. ASSUME NEW v \in Versions, NEW final \in BOOLEAN, NEW expected \in Hashes,
               NEW offset \in 0..Size[v], NEW length \in 0..(Size[v] - offset),
               Open(v, offset, length, final, expected)
        PROVE  AbsentOrForeign'
    BY <2>1 DEF Open
  <2>2. ASSUME NEW n \in 0..MaxChunk, WriteFails(n)
        PROVE  AbsentOrForeign'
    BY <2>2 DEF WriteFails
  <2>3. CASE WriteMore
    BY <2>3 DEF WriteMore
  <2>4. CASE WriteFinal
    BY <2>4 DEF WriteFinal
  <2>5. CASE Exists
    BY <2>5 DEF Exists
  <2>6. CASE Rename
    BY <2>6 DEF Rename
  <2>7. ASSUME NEW v \in Versions, WriteExists(v)
        PROVE  AbsentOrForeign'
    BY <2>7 DEF WriteExists
  <2>8. ASSUME NEW n \in 0..MaxTransfer, WriteFile(n)
        PROVE  AbsentOrForeign'
    BY <2>8 DEF WriteFile
  <2>9. CASE Stop
    BY <2>9 DEF Stop
  <2>10. CASE Interfere
    BY <2>10 DEF Interfere
  <2>11. CASE UNCHANGED vars
    BY <2>11 DEF vars
  <2> QED
    BY <2>1, <2>2, <2>3, <2>4, <2>5, <2>6, <2>7, <2>8, <2>9, <2>10, <2>11 DEF Next, Command
<1>3. AbsentOrForeign => KeepsUploads
  BY DEF AbsentOrForeign
<1> QED
  BY <1>1, <1>2, <1>3, PTL DEF Spec

\* The part file is sound: the three facts about it together.
THEOREM PartSoundCorrect == Spec => []PartIsSound
<1>1. PartInPlace /\ NextIsSize /\ WithinLimit => PartIsSound
  BY DEF PartIsSound
<1> QED BY PartCorrect, NextCorrect, LimitCorrect, <1>1, PTL
-----------------------------------------------------------------------------
(* An agent is busy with one task at a time (AgentTasks).                  *)

LEMMA TasksStep ==
  ASSUME [TasksNext]_tasksVars
  PROVE  /\ [OneShotNext]_oneShotVars
         /\ [ListingNext]_listingVars
         /\ [DownloadNext]_downloadVars
         /\ [ViewNext]_viewVars
         /\ [Next]_vars
         /\ topic' = topic
         /\ topic # "download" => UNCHANGED downloadVars
  BY DEF TasksNext, tasksVars, ListingOnly, DownloadOnly, OneShotOnly, ViewOnly,
         UploadOnly, uploadVars

\* Whatever the agent does besides, its uploads are those of ChunkedUpload: what
\* is proved of them holds among its other tasks.
THEOREM TasksUpload == TasksSpec => Spec
<1>1. TasksInit => Init
  BY DEF TasksInit
<1>2. [TasksNext]_tasksVars => [Next]_vars
  BY TasksStep
<1> QED BY <1>1, <1>2, PTL DEF TasksSpec, Spec

-----------------------------------------------------------------------------
(* Commands (OneShot).                                                     *)

\* The buffer has kept everything until it was full, whoever holds the output is a
\* process that was started, and a result says what there was when Run returned,
\* after which nobody writes.
RunOK ==
  /\ OneShotTypeOK
  /\ out \in [written : Nat, kept : Nat]
  /\ out.kept = out.written \/ MaxOutput <= out.kept
  /\ program = "none" => child = "none"
  /\ program = "killed" => context = "over"
  /\ reply.state # "none" => program # "running" /\ child # "running"
  /\ reply.state = "returned" => program \in {"ended", "killed"}
  /\ reply.state = "sent" =>
       /\ reply.kept = out.kept /\ reply.truncated = Filled(out.kept)
       /\ program = "killed" => reply.timeout

LEMMA RunStep == RunOK /\ [OneShotNext]_oneShotVars => RunOK'
<1> SUFFICES ASSUME RunOK, [OneShotNext]_oneShotVars PROVE RunOK'
  OBVIOUS
<1>0. MaxOutput \in Nat /\ MaxWritten \in Nat
  BY OneShotAssumption
<1> USE DEF RunOK, OneShotTypeOK
<1>1. CASE Replies \/ (StartProgram /\ context = "over")
  <2>1. reply' = [state |-> "sent", timeout |-> Late, truncated |-> Filled(out.kept),
                  kept |-> out.kept]
    BY <1>1 DEF Replies, StartProgram, Reply
  <2>2. UNCHANGED <<context, program, child, out>>
    BY <1>1 DEF Replies, StartProgram
  <2>3. program \in {"none", "ended", "killed"} /\ child # "running"
    BY <1>1 DEF Replies, StartProgram
  <2>4. Late \in BOOLEAN /\ Filled(out.kept) \in BOOLEAN /\ (program = "killed" => Late)
    BY DEF Late, Filled
  <2> HIDE DEF Late
  <2> QED BY <2>1, <2>2, <2>3, <2>4 DEF Filled
<1>2. CASE StartProgram /\ context # "over"
  BY <1>2 DEF StartProgram
<1>3. CASE Deadline
  BY <1>3 DEF Deadline
<1>4. CASE Write
  <2>1. /\ out' = [out EXCEPT !.written = @ + 1, !.kept = IF @ < MaxOutput THEN @ + 1 ELSE @]
        /\ UNCHANGED <<context, program, child, reply>> /\ reply.state = "none"
        /\ out.written < MaxWritten
    BY <1>4 DEF Write
  <2>2. PICK w \in Nat, k \in Nat : out = [written |-> w, kept |-> k]
    OBVIOUS
  <2> DEFINE n == IF k < MaxOutput THEN k + 1 ELSE k
  <2>3. out' = [written |-> w + 1, kept |-> n]
    BY <2>1, <2>2
  <2>4. w + 1 \in 0..MaxWritten /\ n \in 0..MaxOutput /\ w + 1 \in Nat /\ n \in Nat
    BY <1>0, <2>1, <2>2
  <2>5. n = w + 1 \/ MaxOutput <= n
    BY <1>0, <2>2, <2>4
  <2> HIDE DEF n
  <2>6. /\ out' \in [written : Nat, kept : Nat]
        /\ out'.written \in 0..MaxWritten /\ out'.kept \in 0..MaxOutput
        /\ out'.kept = out'.written \/ MaxOutput <= out'.kept
    BY <2>3, <2>4, <2>5
  <2> QED BY <2>1, <2>6
<1>5. CASE LeaveChild
  BY <1>5 DEF LeaveChild
<1>6. CASE ProgramEnds
  BY <1>6 DEF ProgramEnds
<1>7. CASE ChildEnds
  BY <1>7 DEF ChildEnds
<1>8. CASE Kill
  BY <1>8 DEF Kill
<1>9. CASE Returns
  BY <1>9 DEF Returns
<1>10. CASE UNCHANGED oneShotVars
  BY <1>10 DEF oneShotVars, Filled
<1> QED BY <1>1, <1>2, <1>3, <1>4, <1>5, <1>6, <1>7, <1>8, <1>9, <1>10
        DEF OneShotNext, OneShotStep

\* A result that is not marked as truncated holds all that was written, and a
\* program that was killed is reported as late (execute, capped.Write), however
\* its end, that of a process it left behind and the deadline fall together.
THEOREM ReplyCorrect == TasksSpec => []ReplyIsHonest
<1>1. TasksInit => RunOK
  BY OneShotAssumption DEF TasksInit, OneShotInit, RunOK, OneShotTypeOK, NoReply
<1>2. RunOK /\ [TasksNext]_tasksVars => RunOK'
  BY TasksStep, RunStep
<1>3. RunOK => ReplyIsHonest
  BY OneShotAssumption
  DEF RunOK, OneShotTypeOK, ReplyIsHonest, WholeUnlessTruncated, KilledIsTold, Filled
<1> QED BY <1>1, <1>2, <1>3, PTL DEF TasksSpec
-----------------------------------------------------------------------------
(* Downloads (ChunkedDownload).                                            *)

\* s is how t begins.
Begins(s, t) == Len(s) <= Len(t) /\ \A i \in 1..Len(s) : s[i] = t[i]

LEMMA BeginsTrans ==
  ASSUME NEW s \in Seq(Nat), NEW t \in Seq(Nat), NEW u \in Seq(Nat), Begins(s, t), Begins(t, u)
  PROVE  Begins(s, u)
<1>1. /\ Len(s) \in Nat /\ Len(t) \in Nat /\ Len(u) \in Nat
      /\ Len(s) <= Len(t) /\ Len(t) <= Len(u)
  BY DEF Begins
<1>2. ASSUME NEW i \in 1..Len(s) PROVE s[i] = u[i]
  <2>1. i \in 1..Len(t)
    BY <1>1
  <2> QED BY <2>1 DEF Begins
<1> QED BY <1>1, <1>2 DEF Begins

LEMMA BeginsIsPrefix ==
  ASSUME NEW s \in Seq(Nat), NEW t \in Seq(Nat)
  PROVE  Begins(s, t) => IsPrefix(s, t)
<1> SUFFICES ASSUME Begins(s, t) PROVE IsPrefix(s, t)
  OBVIOUS
<1>1. SubSeq(s, 1, Len(s)) = s
  OBVIOUS
<1>2. SubSeq(t, 1, Len(s)) = s
  <2>1. /\ SubSeq(t, 1, Len(s)) \in Seq(Nat) /\ Len(SubSeq(t, 1, Len(s))) = Len(s)
        /\ \A i \in 1..Len(s) : SubSeq(t, 1, Len(s))[i] = t[i]
    BY DEF Begins
  <2> QED BY <2>1 DEF Begins
<1> QED BY <1>1, <1>2 DEF IsPrefix, Begins

LEMMA BytesSeq ==
  ASSUME NEW first \in Nat, NEW n \in Nat
  PROVE  Bytes(first, n) \in Seq(Nat) /\ Len(Bytes(first, n)) = n
  BY DEF Bytes

\* Bytes that are in t behind what one has continue it.
LEMMA Continued ==
  ASSUME NEW got \in Seq(Nat), NEW bytes \in Seq(Nat), NEW t \in Seq(Nat),
         Begins(got, t), Begins(bytes, t), NEW data \in Seq(Nat),
         Len(data) = 0 \/ Len(got) + Len(data) <= Len(bytes),
         \A i \in 1..Len(data) : data[i] = bytes[Len(got) + i]
  PROVE  /\ Len(data) \in Nat /\ Len(got \o data) = Len(got) + Len(data)
         /\ Begins(got \o data, t)
<1> DEFINE both == got \o data
<1>0. Len(data) \in Nat /\ Len(got) \in Nat /\ Len(bytes) \in Nat /\ Len(t) \in Nat
  OBVIOUS
<1>1. /\ Len(both) = Len(got) + Len(data)
      /\ \A i \in 1..Len(got) + Len(data) :
           both[i] = IF i <= Len(got) THEN got[i] ELSE data[i - Len(got)]
  BY ConcatProperties
<1>2. Len(both) <= Len(t)
  BY <1>0, <1>1 DEF Begins
<1> HIDE DEF both
<1>3. ASSUME NEW i \in 1..Len(both) PROVE both[i] = t[i]
  <2>1. CASE i <= Len(got)
    <3>1. i \in 1..Len(got) /\ both[i] = got[i]
      BY <1>0, <1>1, <1>3, <2>1
    <3> QED BY <3>1 DEF Begins
  <2>2. CASE i > Len(got)
    <3> DEFINE j == i - Len(got)
    <3>1. j \in 1..Len(data) /\ both[i] = data[j] /\ Len(got) + j = i
      BY <1>0, <1>1, <1>3, <2>2
    <3> HIDE DEF j
    <3>2. data[j] = bytes[i]
      BY <3>1
    <3>3. Len(data) # 0
      BY <1>0, <3>1
    <3>4. i \in 1..Len(bytes)
      BY <1>0, <1>1, <1>3, <3>3
    <3> QED BY <3>1, <3>2, <3>4 DEF Begins
  <2> QED BY <1>0, <1>1, <1>3, <2>1, <2>2
<1>4. Begins(both, t)
  BY <1>2, <1>3 DEF Begins
<1> QED BY <1>0, <1>1, <1>4 DEF both

LEMMA Behind ==
  ASSUME NEW bytes \in Seq(Nat), NEW from \in Nat, NEW end \in Nat, end <= Len(bytes)
  PROVE  /\ SubSeq(bytes, from + 1, end) \in Seq(Nat)
         /\ \/ Len(SubSeq(bytes, from + 1, end)) = 0
            \/ from + Len(SubSeq(bytes, from + 1, end)) <= Len(bytes)
         /\ \A i \in 1..Len(SubSeq(bytes, from + 1, end)) :
              SubSeq(bytes, from + 1, end)[i] = bytes[from + i]
<1> DEFINE m == from + 1
           data == SubSeq(bytes, m, end)
<1>0. Len(bytes) \in Nat
  OBVIOUS
<1>1. m \in Int /\ end \in Int /\ \A i \in m..end : bytes[i] \in Nat
  <2>1. m..end \subseteq 1..Len(bytes)
    BY <1>0
  <2> QED BY <2>1
<1>2. /\ data \in Seq(Nat)
      /\ Len(data) = IF m <= end THEN end - m + 1 ELSE 0
      /\ \A i \in 1..(end - m + 1) : data[i] = bytes[m + i - 1]
  <2> HIDE DEF m
  <2> QED BY <1>1, SubSeqProperties
<1> HIDE DEF data
<1>3. Len(data) = 0 \/ from + Len(data) <= Len(bytes)
  BY <1>0, <1>2
<1>4. ASSUME NEW i \in 1..Len(data) PROVE data[i] = bytes[from + i]
  <2>1. i \in 1..(end - m + 1) /\ m + i - 1 = from + i
    BY <1>2
  <2> QED BY <1>2, <2>1
<1> QED BY <1>2, <1>3, <1>4 DEF data

\* Bytes that were read behind what one has continue it, whether the file that
\* they are from is longer than that or shorter (ReadAt, filesReadChunk).
LEMMA ReadBehind ==
  ASSUME NEW got \in Seq(Nat), NEW bytes \in Seq(Nat), NEW t \in Seq(Nat),
         Begins(got, t), Begins(bytes, t), NEW to \in Nat,
         NEW data, data = ReadAt(bytes, Len(got), to)
  PROVE  /\ Len(data) \in Nat /\ Len(got \o data) = Len(got) + Len(data)
         /\ Begins(got \o data, t)
<1> DEFINE end == IF to > Len(bytes) THEN Len(bytes) ELSE to
<1>1. end \in Nat /\ end <= Len(bytes) /\ Len(got) \in Nat
  OBVIOUS
<1>2. data = SubSeq(bytes, Len(got) + 1, end)
  BY DEF ReadAt
<1> HIDE DEF end
<1>3. /\ data \in Seq(Nat)
      /\ Len(data) = 0 \/ Len(got) + Len(data) <= Len(bytes)
      /\ \A i \in 1..Len(data) : data[i] = bytes[Len(got) + i]
  <2> DEFINE from == Len(got)
  <2> HIDE DEF from
  <2>1. /\ SubSeq(bytes, from + 1, end) \in Seq(Nat)
        /\ \/ Len(SubSeq(bytes, from + 1, end)) = 0
           \/ from + Len(SubSeq(bytes, from + 1, end)) <= Len(bytes)
        /\ \A i \in 1..Len(SubSeq(bytes, from + 1, end)) :
             SubSeq(bytes, from + 1, end)[i] = bytes[from + i]
    BY <1>1, Behind DEF from
  <2>2. data = SubSeq(bytes, from + 1, end)
    BY <1>2 DEF from
  <2>3. /\ data \in Seq(Nat)
        /\ Len(data) = 0 \/ from + Len(data) <= Len(bytes)
        /\ \A i \in 1..Len(data) : data[i] = bytes[from + i]
    BY <2>1, <2>2
  <2> QED BY <2>3 DEF from
<1>4. Len(data) = 0 \/ Len(got) + Len(data) <= Len(bytes)
  BY <1>3
<1>5. \A i \in 1..Len(data) : data[i] = bytes[Len(got) + i]
  BY <1>3
<1> QED
  BY ONLY <1>3, <1>4, <1>5, got \in Seq(Nat), bytes \in Seq(Nat), t \in Seq(Nat),
          Begins(got, t), Begins(bytes, t), Continued

LEMMA ReadAtType ==
  ASSUME NEW bytes \in Seq(Nat), NEW from \in Nat, NEW to \in Nat
  PROVE  ReadAt(bytes, from, to) \in Seq(Nat)
<1>1. (IF to > Len(bytes) THEN Len(bytes) ELSE to) \in 0..Len(bytes)
  OBVIOUS
<1> QED BY <1>1 DEF ReadAt

DownloadTypes ==
  /\ inodes \in Seq(Seq(Nat)) /\ inodes # <<>> /\ fresh \in Nat
  /\ edits \in [count : Nat, kinds : SUBSET {"append", "truncate", "replace"}]
  /\ download \in [state : {"reading", "ended", "refused", "unanswered"}, chunk : Nat, whole : BOOLEAN,
                   got : Seq(Nat), size : Nat]
  /\ chunk \in [pc : {"none", "asked", "opened"}, inode : Nat, size : Nat]
  /\ chunk.pc = "opened" => chunk.inode \in 1..Len(inodes)

\* A file that only grew: it holds what it held, and a chunk that was opened
\* promises no more than the file has and no less than it had.
GrownOK ==
  edits.kinds \subseteq {"append"} =>
    /\ Begins(download.got, File) /\ download.size <= Len(File)
    /\ chunk.pc = "opened" => chunk.size \in download.size..Len(File)
    /\ download.state = "ended" => download.size <= Len(download.got)

ShrunkOK ==
  edits.kinds \subseteq {"truncate"} =>
    /\ Begins(download.got, Bytes(0, download.size))
    /\ Begins(File, Bytes(0, download.size))

DownloadOK ==
  /\ DownloadTypes
  /\ "replace" \notin edits.kinds => Len(inodes) = 1
  /\ GrownOK
  /\ ShrunkOK

LEMMA FileType ==
  ASSUME DownloadTypes
  PROVE  /\ File \in Seq(Nat) /\ Len(inodes) \in Nat \ {0} /\ File = inodes[Len(inodes)]
         /\ Len(File) \in Nat
  BY DEF DownloadTypes, File, Last

LEMMA EditStep == DownloadOK /\ Edit => DownloadOK'
<1> SUFFICES ASSUME DownloadOK, Edit PROVE DownloadOK'
  OBVIOUS
<1> DEFINE newest == Len(inodes)
<1>0. /\ DownloadTypes /\ UNCHANGED <<download, chunk>>
      /\ File \in Seq(Nat) /\ newest \in Nat \ {0} /\ File = inodes[newest] /\ Len(File) \in Nat
      /\ \A n \in Sizes : n \in Nat
  BY FileType, DownloadAssumption DEF DownloadOK, Edit
<1>1. ASSUME NEW kind \in {"append", "truncate", "replace"}, Edited(kind)
      PROVE  /\ edits' \in [count : Nat, kinds : SUBSET {"append", "truncate", "replace"}]
             /\ edits'.kinds = edits.kinds \cup {kind}
  BY <1>0, <1>1 DEF Edited, DownloadTypes
\* The file that has the name changes its bytes.
<1>2. ASSUME NEW kind \in {"append", "truncate"}, Edited(kind), NEW file \in Seq(Nat),
             inodes' = [inodes EXCEPT ![newest] = file], fresh' \in Nat,
             kind = "append" => Begins(File, file),
             kind = "truncate" => Begins(file, File)
      PROVE  DownloadOK'
  <2>1. /\ inodes' \in Seq(Seq(Nat)) /\ Len(inodes') = newest /\ inodes'[newest] = file
        /\ inodes' # <<>>
    BY <1>0, <1>2 DEF DownloadTypes
  <2>2. File' = file
    BY <2>1 DEF File, Last
  <2>3. /\ edits' \in [count : Nat, kinds : SUBSET {"append", "truncate", "replace"}]
        /\ edits'.kinds = edits.kinds \cup {kind}
    BY <1>1, <1>2
  <2>4. DownloadTypes'
    BY <1>0, <1>2, <2>1, <2>3 DEF DownloadTypes
  <2>5. GrownOK'
    <3> SUFFICES ASSUME edits'.kinds \subseteq {"append"} PROVE GrownOK'
      BY DEF GrownOK
    <3>1. edits.kinds \subseteq {"append"} /\ Begins(File, file)
      BY <1>2, <2>3
    <3>2. /\ Begins(download.got, File) /\ download.size <= Len(File)
          /\ chunk.pc = "opened" => chunk.size \in download.size..Len(File)
          /\ download.state = "ended" => download.size <= Len(download.got)
      BY <3>1 DEF DownloadOK, GrownOK
    <3>3. download.got \in Seq(Nat) /\ download.size \in Nat
      BY <1>0 DEF DownloadTypes
    <3>4. Begins(download.got, file)
      BY <1>0, <1>2, <3>1, <3>2, <3>3, BeginsTrans
    <3>5. Len(File) <= Len(file) /\ Len(file) \in Nat
      BY <1>2, <3>1 DEF Begins
    <3> QED BY <1>0, <2>2, <3>2, <3>3, <3>4, <3>5 DEF GrownOK
  <2>6. ShrunkOK'
    <3> SUFFICES ASSUME edits'.kinds \subseteq {"truncate"} PROVE ShrunkOK'
      BY DEF ShrunkOK
    <3>1. edits.kinds \subseteq {"truncate"} /\ Begins(file, File)
      BY <1>2, <2>3
    <3>2. /\ Begins(download.got, Bytes(0, download.size))
          /\ Begins(File, Bytes(0, download.size))
      BY <3>1 DEF DownloadOK, ShrunkOK
    <3>3. Bytes(0, download.size) \in Seq(Nat)
      BY <1>0, BytesSeq DEF DownloadTypes
    <3>4. Begins(file, Bytes(0, download.size))
      BY <1>0, <1>2, <3>1, <3>2, <3>3, BeginsTrans
    <3> QED BY <1>0, <2>2, <3>2, <3>4 DEF ShrunkOK
  <2> QED BY <2>1, <2>3, <2>4, <2>5, <2>6 DEF DownloadOK
<1>3. CASE /\ inodes' = [inodes EXCEPT ![newest] = Append(@, fresh + 1)]
           /\ fresh' = fresh + 1 /\ Edited("append")
  <2> DEFINE file == Append(File, fresh + 1)
  <2>1. file \in Seq(Nat) /\ Begins(File, file) /\ fresh' \in Nat
    BY <1>0, <1>3 DEF DownloadTypes, Begins
  <2>2. inodes' = [inodes EXCEPT ![newest] = file]
    BY <1>0, <1>3
  <2> HIDE DEF file
  <2> QED BY <1>2, <1>3, <2>1, <2>2
<1>4. ASSUME NEW n \in 0..(Len(File) - 1),
             inodes' = [inodes EXCEPT ![newest] = SubSeq(@, 1, n)],
             fresh' = fresh, Edited("truncate")
      PROVE  DownloadOK'
  <2> DEFINE file == SubSeq(File, 1, n)
  <2>0. n \in Nat /\ n <= Len(File) /\ fresh' \in Nat
    BY <1>0, <1>4 DEF DownloadTypes
  <2>1. file \in Seq(Nat) /\ Begins(file, File)
    <3>1. file \in Seq(Nat) /\ Len(file) = n /\ \A i \in 1..n : file[i] = File[i]
      BY <1>0, <2>0
    <3> HIDE DEF file
    <3> QED BY <2>0, <3>1 DEF Begins
  <2>2. inodes' = [inodes EXCEPT ![newest] = file]
    BY <1>0, <1>4
  <2> HIDE DEF file
  <2> QED BY <1>2, <1>4, <2>0, <2>1, <2>2
<1>5. ASSUME NEW n \in Sizes, inodes' = Append(inodes, Bytes(fresh, n)),
             fresh' = fresh + n, Edited("replace")
      PROVE  DownloadOK'
  <2> DEFINE b == Bytes(fresh, n)
  <2>0. n \in Nat /\ fresh \in Nat /\ inodes \in Seq(Seq(Nat))
    BY <1>0 DEF DownloadTypes
  <2>1. b \in Seq(Nat) /\ fresh + n \in Nat
    BY <2>0, BytesSeq
  <2>2. inodes' \in Seq(Seq(Nat)) /\ Len(inodes') = newest + 1 /\ inodes' # <<>>
    <3> HIDE DEF b
    <3>1. inodes' = Append(inodes, b)
      BY <1>5 DEF b
    <3>2. Append(inodes, b) \in Seq(Seq(Nat)) /\ Len(Append(inodes, b)) = newest + 1
      BY <2>0, <2>1, AppendProperties
    <3> QED BY <1>0, <3>1, <3>2
  <2>3. DownloadTypes'
    <3>1. /\ edits' \in [count : Nat, kinds : SUBSET {"append", "truncate", "replace"}]
          /\ fresh' \in Nat
      BY <1>1, <1>5, <2>1
    <3>2. 1..Len(inodes) \subseteq 1..Len(inodes')
      BY <1>0, <2>2
    <3> QED BY <1>0, <2>2, <3>1, <3>2 DEF DownloadTypes
  <2>4. "replace" \in edits'.kinds
    BY <1>1, <1>5
  <2> QED BY <2>3, <2>4 DEF DownloadOK, GrownOK, ShrunkOK
<1> QED BY <1>0, <1>3, <1>4, <1>5 DEF Edit

LEMMA ReadFileStep == DownloadOK /\ ReadFile => DownloadOK'
<1> SUFFICES ASSUME DownloadOK, ReadFile PROVE DownloadOK'
  OBVIOUS
<1>0. /\ DownloadTypes /\ UNCHANGED <<inodes, fresh, edits>> /\ File' = File
      /\ File \in Seq(Nat) /\ Len(File) \in Nat
      /\ chunk' = NoChunk
  BY FileType DEF DownloadOK, ReadFile, File
<1>1. \/ download' = [download EXCEPT !.state = "ended", !.got = File]
      \/ \E end \in {"refused", "unanswered"} : download' = [download EXCEPT !.state = end]
  BY DEF ReadFile, ReadAll
<1>2. /\ download' \in [state : {"reading", "ended", "refused", "unanswered"}, chunk : Nat,
                        whole : BOOLEAN, got : Seq(Nat), size : Nat]
      /\ download'.size = download.size
      /\ \/ download'.state = "ended" /\ download'.got = File
         \/ download'.state \in {"refused", "unanswered"} /\ download'.got = download.got
  BY <1>0, <1>1 DEF DownloadTypes
<1>3. chunk' \in [pc : {"none", "asked", "opened"}, inode : Nat, size : Nat] /\ chunk'.pc = "none"
  BY <1>0 DEF NoChunk
<1>4. DownloadTypes'
  BY <1>0, <1>2, <1>3 DEF DownloadTypes
<1>5. Begins(File, File)
  BY <1>0 DEF Begins
<1>6. GrownOK'
  BY <1>0, <1>2, <1>3, <1>5 DEF DownloadOK, GrownOK
<1>7. ShrunkOK'
  BY <1>0, <1>2, <1>3, <1>5 DEF DownloadOK, ShrunkOK
<1> QED BY <1>0, <1>4, <1>6, <1>7 DEF DownloadOK

LEMMA OpenChunkStep == DownloadOK /\ OpenChunk => DownloadOK'
<1> SUFFICES ASSUME DownloadOK, OpenChunk PROVE DownloadOK'
  OBVIOUS
<1>0. /\ DownloadTypes /\ UNCHANGED <<inodes, fresh, edits>> /\ File' = File
      /\ File \in Seq(Nat) /\ Len(File) \in Nat /\ Len(inodes) \in Nat \ {0}
  BY FileType DEF DownloadOK, OpenChunk, File
<1>1. CASE download' = [download EXCEPT !.state = "refused"] /\ chunk' = NoChunk
  <2>1. /\ download' \in [state : {"reading", "ended", "refused", "unanswered"}, chunk : Nat,
                          whole : BOOLEAN, got : Seq(Nat), size : Nat]
        /\ download'.size = download.size /\ download'.got = download.got
        /\ download'.state = "refused"
    BY <1>0, <1>1 DEF DownloadTypes
  <2>2. chunk' \in [pc : {"none", "asked", "opened"}, inode : Nat, size : Nat] /\ chunk'.pc = "none"
    BY <1>1 DEF NoChunk
  <2> QED BY <1>0, <2>1, <2>2 DEF DownloadOK, DownloadTypes, GrownOK, ShrunkOK
<1>2. CASE /\ chunk' = [pc |-> "opened", inode |-> Len(inodes), size |-> Len(File)]
           /\ UNCHANGED download
  <2>1. /\ chunk' \in [pc : {"none", "asked", "opened"}, inode : Nat, size : Nat]
        /\ chunk'.inode \in 1..Len(inodes) /\ chunk'.size = Len(File)
    BY <1>0, <1>2
  <2>2. DownloadTypes'
    BY <1>0, <1>2, <2>1 DEF DownloadTypes
  <2>3. GrownOK'
    BY <1>0, <1>2, <2>1 DEF DownloadOK, DownloadTypes, GrownOK
  <2>4. ShrunkOK'
    BY <1>0, <1>2 DEF DownloadOK, ShrunkOK
  <2> QED BY <1>0, <2>2, <2>3, <2>4 DEF DownloadOK
<1> QED BY <1>1, <1>2 DEF OpenChunk

LEMMA ReadChunkStep == DownloadOK /\ ReadChunk => DownloadOK'
<1> SUFFICES ASSUME DownloadOK, ReadChunk PROVE DownloadOK'
  OBVIOUS
<1> DEFINE got == download.got
           bytes == inodes[chunk.inode]
           limit == EffectiveChunk(download.chunk)
           to == IF Len(got) + limit > chunk.size THEN chunk.size ELSE Len(got) + limit
           data == ReadAt(bytes, Len(got), to)
           eof == AtEof(Len(got), Len(data), chunk.size)
<1>0. /\ DownloadTypes /\ UNCHANGED <<inodes, fresh, edits>> /\ File' = File
      /\ File \in Seq(Nat) /\ Len(File) \in Nat /\ File = inodes[Len(inodes)]
      /\ chunk' = NoChunk /\ chunk.pc = "opened"
      /\ got \in Seq(Nat) /\ bytes \in Seq(Nat) /\ chunk.size \in Nat /\ download.size \in Nat
  BY FileType DEF DownloadOK, ReadChunk, File, DownloadTypes
<1>1. limit \in Nat
  BY <1>0, DownloadAssumption DEF EffectiveChunk, DownloadTypes
<1>2. to \in Nat /\ to <= chunk.size
  BY <1>0, <1>1
<1>a. CASE download' = [download EXCEPT !.state = "unanswered"]
  <2>1. /\ download' \in [state : {"reading", "ended", "refused", "unanswered"}, chunk : Nat,
                          whole : BOOLEAN, got : Seq(Nat), size : Nat]
        /\ download'.size = download.size /\ download'.got = download.got
        /\ download'.state = "unanswered"
    BY <1>0, <1>a DEF DownloadTypes
  <2>2. chunk' \in [pc : {"none", "asked", "opened"}, inode : Nat, size : Nat] /\ chunk'.pc = "none"
    BY <1>0 DEF NoChunk
  <2> QED BY <1>0, <2>1, <2>2 DEF DownloadOK, DownloadTypes, GrownOK, ShrunkOK
<1>3. SUFFICES ASSUME download' = [download EXCEPT !.got = got \o data,
                                     !.state = IF eof THEN "ended" ELSE download.state]
               PROVE  DownloadOK'
  BY <1>a DEF ReadChunk
<1>4. eof <=> Len(got) + Len(data) >= chunk.size
  BY DEF AtEof
<1>5. Begins(bytes, bytes) /\ data \in Seq(Nat) /\ got \o data \in Seq(Nat)
  <2>1. Begins(bytes, bytes)
    BY <1>0 DEF Begins
  <2>2. Begins(<<>>, bytes) /\ <<>> \in Seq(Nat)
    BY <1>0 DEF Begins
  <2>3. data \in Seq(Nat)
    <3> HIDE DEF to, bytes, got
    <3> QED BY <1>0, <1>2, ReadAtType
  <2> QED BY <1>0, <2>1, <2>3
<1> HIDE DEF data, to, limit, eof, bytes, got
<1>6. /\ download' \in [state : {"reading", "ended", "refused", "unanswered"}, chunk : Nat,
                        whole : BOOLEAN, got : Seq(Nat), size : Nat]
      /\ download'.size = download.size /\ download'.got = got \o data
      /\ download'.state = IF eof THEN "ended" ELSE download.state
  BY <1>0, <1>3, <1>5 DEF DownloadTypes
<1>7. chunk' \in [pc : {"none", "asked", "opened"}, inode : Nat, size : Nat] /\ chunk'.pc = "none"
  BY <1>0 DEF NoChunk
<1>8. DownloadTypes'
  BY <1>0, <1>6, <1>7 DEF DownloadTypes
<1>9. "replace" \notin edits.kinds => bytes = File
  <2>1. chunk.inode \in 1..Len(inodes)
    BY <1>0 DEF DownloadTypes
  <2>2. "replace" \notin edits.kinds => Len(inodes) = 1
    BY DEF DownloadOK
  <2>3. ASSUME "replace" \notin edits.kinds PROVE chunk.inode = Len(inodes)
    <3>1. Len(inodes) = 1 /\ chunk.inode \in 1..1
      BY <2>1, <2>2, <2>3
    <3> QED BY <3>1
  <2> QED BY <1>0, <2>3 DEF bytes
<1>10. GrownOK'
  <2> SUFFICES ASSUME edits.kinds \subseteq {"append"} PROVE GrownOK'
    BY <1>0 DEF GrownOK
  <2>1. /\ bytes = File /\ Begins(got, File) /\ chunk.size \in download.size..Len(File)
        /\ download.size <= Len(File)
        /\ download.state = "ended" => download.size <= Len(got)
    BY <1>0, <1>9 DEF DownloadOK, GrownOK, got
  <2>2. /\ Begins(got \o data, File)
        /\ Len(got \o data) = Len(got) + Len(data) /\ Len(data) \in Nat /\ Len(got) \in Nat
    <3>1. Begins(bytes, File)
      BY <1>5, <2>1
    <3>2. Len(got) \in Nat
      BY <1>0
    <3>3. data = ReadAt(bytes, Len(got), to)
      BY DEF data
    <3> QED BY <1>0, <1>2, <2>1, <3>1, <3>2, <3>3, ReadBehind
  <2>3. download'.state = "ended" => download.size <= Len(got \o data)
    BY <1>0, <1>4, <1>6, <2>1, <2>2
  <2> QED BY <1>0, <1>6, <1>7, <2>1, <2>2, <2>3 DEF GrownOK
<1>11. ShrunkOK'
  <2> SUFFICES ASSUME edits.kinds \subseteq {"truncate"} PROVE ShrunkOK'
    BY <1>0 DEF ShrunkOK
  <2> DEFINE t == Bytes(0, download.size)
  <2>1. bytes = File /\ Begins(got, t) /\ Begins(File, t)
    BY <1>9 DEF DownloadOK, ShrunkOK, got
  <2>2. t \in Seq(Nat)
    BY <1>0, BytesSeq
  <2>3. Begins(got \o data, t)
    <3> HIDE DEF t
    <3>1. Begins(bytes, t) /\ data = ReadAt(bytes, Len(got), to)
      BY <2>1 DEF data
    <3> QED BY <1>0, <1>2, <2>1, <2>2, <3>1, ReadBehind
  <2> QED BY <1>0, <1>6, <2>1, <2>3 DEF ShrunkOK
<1> QED BY <1>0, <1>8, <1>10, <1>11 DEF DownloadOK

LEMMA DownloadStepOK == DownloadOK /\ [DownloadNext]_downloadVars => DownloadOK'
<1> SUFFICES ASSUME DownloadOK, [DownloadNext]_downloadVars PROVE DownloadOK'
  OBVIOUS
<1>1. CASE AskChunk
  <2>1. chunk' = [NoChunk EXCEPT !.pc = "asked"] /\ UNCHANGED <<inodes, fresh, edits, download>>
    BY <1>1 DEF AskChunk
  <2>2. chunk' \in [pc : {"none", "asked", "opened"}, inode : Nat, size : Nat] /\ chunk'.pc = "asked"
    BY <2>1 DEF NoChunk
  <2> QED BY <2>1, <2>2 DEF DownloadOK, DownloadTypes, GrownOK, ShrunkOK, File
<1>2. CASE UNCHANGED downloadVars
  BY <1>2 DEF downloadVars, DownloadOK, DownloadTypes, GrownOK, ShrunkOK, File
<1> QED BY <1>1, <1>2, EditStep, ReadFileStep, OpenChunkStep, ReadChunkStep
        DEF DownloadNext, DownloadStep

LEMMA DownloadInitOK == TasksInit => DownloadOK
<1> SUFFICES ASSUME TasksInit PROVE DownloadOK
  OBVIOUS
<1>1. CASE DownloadInit
  <2>1. PICK n \in Sizes, limit \in Chunks, whole \in BOOLEAN :
          /\ inodes = <<Bytes(0, n)>> /\ fresh = n
          /\ download = [state |-> "reading", chunk |-> limit, whole |-> whole,
                         got |-> <<>>, size |-> n]
    BY <1>1 DEF DownloadInit
  <2>2. edits = [count |-> 0, kinds |-> {}] /\ chunk = NoChunk
    BY <1>1 DEF DownloadInit
  <2>3. n \in Nat /\ limit \in Nat /\ Bytes(0, n) \in Seq(Nat) /\ Len(Bytes(0, n)) = n
    BY BytesSeq, DownloadAssumption
  <2>4. /\ inodes \in Seq(Seq(Nat)) /\ Len(inodes) = 1 /\ inodes # <<>> /\ File = Bytes(0, n)
    BY <2>1, <2>3 DEF File, Last
  <2>5. DownloadTypes
    BY <2>1, <2>2, <2>3, <2>4 DEF DownloadTypes, NoChunk
  <2>6. Begins(<<>>, Bytes(0, n)) /\ Begins(Bytes(0, n), Bytes(0, n))
    BY <2>3 DEF Begins
  <2> QED BY <2>1, <2>2, <2>3, <2>4, <2>5, <2>6 DEF DownloadOK, GrownOK, ShrunkOK, NoChunk
<1>2. CASE DownloadRests
  <2>1. /\ inodes = <<<<>>>> /\ fresh = 0 /\ chunk = NoChunk
        /\ edits = [count |-> 0, kinds |-> {}]
        /\ download = [state |-> "ended", chunk |-> 0, whole |-> FALSE, got |-> <<>>, size |-> 0]
    BY <1>2 DEF DownloadRests
  <2>2. inodes \in Seq(Seq(Nat)) /\ Len(inodes) = 1 /\ inodes # <<>> /\ File = <<>>
    BY <2>1 DEF File, Last
  <2>3. DownloadTypes
    BY <2>1, <2>2 DEF DownloadTypes, NoChunk
  <2>4. Begins(<<>>, <<>>) /\ Begins(<<>>, Bytes(0, 0))
    BY BytesSeq DEF Begins
  <2> QED BY <2>1, <2>2, <2>3, <2>4 DEF DownloadOK, GrownOK, ShrunkOK, NoChunk
<1> QED BY <1>1, <1>2 DEF TasksInit

\* What an agent puts together from chunks, or is sent as a whole, is the file,
\* if it only grew or only shrank meanwhile, whatever it was between the look at
\* its size and the reading (filesRead, filesReadChunk).
THEOREM DownloadCorrect == TasksSpec => []DownloadFaithful
<1>1. DownloadOK /\ [TasksNext]_tasksVars => DownloadOK'
  BY TasksStep, DownloadStepOK
<1>2. DownloadOK => DownloadFaithful
  <2> SUFFICES ASSUME DownloadOK PROVE WholeDownload /\ NothingInvented
    BY DEF DownloadFaithful
  <2>1. download.got \in Seq(Nat) /\ File \in Seq(Nat) /\ Bytes(0, download.size) \in Seq(Nat)
    BY FileType, BytesSeq DEF DownloadOK, DownloadTypes
  <2>2. download.size \in Nat /\ Len(download.got) \in Nat
    BY <2>1 DEF DownloadOK, DownloadTypes
  <2>3. WholeDownload
    BY <2>1, <2>2, BeginsIsPrefix DEF DownloadOK, GrownOK, WholeDownload
  <2>4. NothingInvented
    BY <2>1, BeginsIsPrefix DEF DownloadOK, ShrunkOK, NothingInvented
  <2> QED BY <2>3, <2>4
<1> QED BY DownloadInitOK, <1>1, <1>2, PTL DEF TasksSpec
-----------------------------------------------------------------------------
(* Pages (Listing).                                                        *)

\* How many of S come before x, and how many not after it.
Rank(S, x) == Cardinality({y \in S : y < x})
UpTo(S, x) == Cardinality({y \in S : y <= x})

LEMMA Ranks ==
  ASSUME NEW S \in SUBSET Nat, IsFiniteSet(S)
  PROVE  /\ Cardinality(S) \in Nat
         /\ \A x : Rank(S, x) \in Nat /\ Rank(S, x) <= Cardinality(S)
         /\ \A x : UpTo(S, x) \in Nat /\ UpTo(S, x) <= Cardinality(S)
         /\ \A x \in S : Rank(S, x) < Cardinality(S) /\ UpTo(S, x) = Rank(S, x) + 1
         /\ \A x \in S, y \in Nat : x <= y => Rank(S, x) < UpTo(S, y)
         /\ \A x \in S, y \in S : x < y => Rank(S, x) < Rank(S, y)
<1> DEFINE Less(x) == {y \in S : y < x}
           Most(x) == {y \in S : y <= x}
<1>1. Cardinality(S) \in Nat
  BY FS_CardinalityType
<1>2. ASSUME NEW T \in SUBSET S
      PROVE  IsFiniteSet(T) /\ Cardinality(T) \in Nat /\ Cardinality(T) <= Cardinality(S)
  BY FS_Subset, FS_CardinalityType
<1>3. \A x : /\ IsFiniteSet(Less(x)) /\ Cardinality(Less(x)) \in Nat
             /\ Cardinality(Less(x)) <= Cardinality(S)
  BY <1>2
<1>4. \A x : /\ IsFiniteSet(Most(x)) /\ Cardinality(Most(x)) \in Nat
             /\ Cardinality(Most(x)) <= Cardinality(S)
  BY <1>2
<1>5. ASSUME NEW x \in S
      PROVE  /\ Most(x) = Less(x) \cup {x} /\ x \notin Less(x)
             /\ Cardinality(Most(x)) = Cardinality(Less(x)) + 1
  <2>1. Most(x) = Less(x) \cup {x} /\ x \notin Less(x)
    <3>1. \A y \in S : y \in Nat
      OBVIOUS
    <3>2. \A y \in S : y <= x <=> y < x \/ y = x
      BY <3>1
    <3>3. ~(x < x)
      BY <3>1
    <3>4. Most(x) \subseteq Less(x) \cup {x}
      BY <3>2
    <3>5. Less(x) \cup {x} \subseteq Most(x)
      BY <3>2
    <3> QED BY <3>3, <3>4, <3>5
  <2> HIDE DEF Less, Most
  <2> QED BY <1>3, <2>1, FS_AddElement
<1>6. ASSUME NEW x, NEW T \in SUBSET S, Most(x) \subseteq T
      PROVE  Cardinality(Most(x)) <= Cardinality(T)
  <2> HIDE DEF Most
  <2> QED BY <1>2, <1>6, FS_Subset
<1>7. ASSUME NEW x \in S PROVE Cardinality(Less(x)) < Cardinality(S)
  <2> HIDE DEF Less, Most
  <2> QED BY <1>1, <1>3, <1>4, <1>5
<1>8. ASSUME NEW x \in S, NEW y \in Nat, x <= y
      PROVE  Cardinality(Less(x)) < Cardinality(Most(y))
  <2>1. Most(x) \subseteq Most(y) /\ Most(y) \subseteq S
    <3>1. \A z \in S : z \in Nat
      OBVIOUS
    <3>2. \A z \in S : z <= x => z <= y
      BY <1>8, <3>1
    <3> QED BY <3>2
  <2> HIDE DEF Less, Most
  <2>2. Cardinality(Most(x)) <= Cardinality(Most(y))
    BY <1>6, <2>1
  <2> QED BY <1>3, <1>4, <1>5, <2>2
<1>9. ASSUME NEW x \in S, NEW y \in S, x < y
      PROVE  Cardinality(Less(x)) < Cardinality(Less(y))
  <2>1. Most(x) \subseteq Less(y) /\ Less(y) \subseteq S
    <3>1. \A z \in S : z \in Nat
      OBVIOUS
    <3>2. \A z \in S : z <= x => z < y
      BY <1>9, <3>1
    <3> QED BY <3>2
  <2> HIDE DEF Less, Most
  <2>2. Cardinality(Most(x)) <= Cardinality(Less(y))
    BY <1>6, <2>1
  <2> QED BY <1>3, <1>4, <1>5, <2>2
<1>10. \A x : Rank(S, x) = Cardinality(Less(x)) /\ UpTo(S, x) = Cardinality(Most(x))
  BY DEF Rank, UpTo
<1> HIDE DEF Less, Most
<1> QED BY <1>1, <1>3, <1>4, <1>5, <1>7, <1>8, <1>9, <1>10

\* Fewer items come before another among fewer items.
LEMMA Wider ==
  ASSUME NEW S \in SUBSET Nat, IsFiniteSet(S), NEW T \in SUBSET S, NEW x
  PROVE  Rank(T, x) <= Rank(S, x) /\ UpTo(T, x) <= UpTo(S, x) /\ IsFiniteSet(T)
<1>1. {y \in S : y < x} \subseteq S /\ {y \in S : y <= x} \subseteq S
  OBVIOUS
<1>2. IsFiniteSet({y \in S : y < x}) /\ IsFiniteSet({y \in S : y <= x}) /\ IsFiniteSet(T)
  BY <1>1, FS_Subset
<1>3. /\ {y \in T : y < x} \subseteq {y \in S : y < x}
      /\ {y \in T : y <= x} \subseteq {y \in S : y <= x}
  OBVIOUS
<1>4. Cardinality({y \in T : y < x}) <= Cardinality({y \in S : y < x})
  BY <1>2, <1>3, FS_Subset
<1>5. Cardinality({y \in T : y <= x}) <= Cardinality({y \in S : y <= x})
  BY <1>2, <1>3, FS_Subset
<1> QED BY <1>2, <1>4, <1>5 DEF Rank, UpTo

\* The k-th item has k - 1 before it, and every item is at its rank.
LEMMA AscendingIs ==
  ASSUME NEW S \in SUBSET Nat, IsFiniteSet(S)
  PROVE  /\ Ascending(S) \in Seq(S) /\ Len(Ascending(S)) = Cardinality(S)
         /\ \A k \in 1..Cardinality(S) : Ascending(S)[k] \in S /\ Rank(S, Ascending(S)[k]) = k - 1
         /\ \A x \in S : Ascending(S)[Rank(S, x) + 1] = x
         /\ Range(Ascending(S)) = S
<1> DEFINE n == Cardinality(S)
           q == Ascending(S)
           r == [x \in S |-> Rank(S, x)]
<1>1. /\ n \in Nat /\ \A x \in S : Rank(S, x) \in 0..(n - 1)
      /\ \A x \in S, y \in S : x < y => Rank(S, x) < Rank(S, y)
  <2>1. /\ n \in Nat /\ \A x \in S : Rank(S, x) \in Nat /\ Rank(S, x) < n
        /\ \A x \in S, y \in S : x < y => Rank(S, x) < Rank(S, y)
    BY Ranks
  <2> HIDE DEF n
  <2> QED BY <2>1
<1> HIDE DEF n
<1>2. \A x \in S, y \in S : Rank(S, x) = Rank(S, y) => x = y
  <2> SUFFICES ASSUME NEW x \in S, NEW y \in S, x # y PROVE Rank(S, x) # Rank(S, y)
    OBVIOUS
  <2>1. x < y \/ y < x
    OBVIOUS
  <2>2. Rank(S, x) \in Nat /\ Rank(S, y) \in Nat
    BY <1>1
  <2> QED BY <1>1, <2>1, <2>2
<1>3. r \in Injection(S, 0..(n - 1))
  BY <1>1, <1>2 DEF Injection, IsInjective
<1>4. IsFiniteSet(0..(n - 1)) /\ Cardinality(0..(n - 1)) = n
  BY <1>1, FS_Interval
<1>5. r \in Surjection(S, 0..(n - 1))
  BY <1>3, <1>4, FS_Injection DEF n
<1>6. ASSUME NEW k \in 1..n PROVE \E x \in S : Rank(S, x) = k - 1
  <2>1. k - 1 \in 0..(n - 1)
    BY <1>1
  <2>2. \E x \in S : r[x] = k - 1
    BY <1>5, <2>1 DEF Surjection
  <2> QED BY <2>2
<1>7. q = [k \in 1..n |-> CHOOSE x \in S : Rank(S, x) = k - 1]
  BY DEF Ascending, Rank, n
<1>8. \A k \in 1..n : q[k] \in S /\ Rank(S, q[k]) = k - 1
  BY <1>6, <1>7
<1>9. q \in Seq(S) /\ Len(q) = n /\ DOMAIN q = 1..n
  <2>1. q \in [1..n -> S]
    BY <1>7, <1>8
  <2> HIDE DEF q
  <2> QED BY <1>1, <2>1
<1>10. ASSUME NEW x \in S PROVE Rank(S, x) + 1 \in 1..n /\ q[Rank(S, x) + 1] = x
  <2>1. Rank(S, x) + 1 \in 1..n /\ (Rank(S, x) + 1) - 1 = Rank(S, x)
    BY <1>1
  <2> HIDE DEF q
  <2> QED BY <1>2, <1>8, <2>1
<1>11. Range(q) = S
  <2> HIDE DEF q
  <2> QED BY <1>8, <1>9, <1>10 DEF Range
<1> HIDE DEF q
<1> QED BY <1>8, <1>9, <1>10, <1>11 DEF q, n

\* A page has what is at the offset and behind it, up to the next offset.
Takes(S, offset, page, next) ==
  /\ page.items \in Seq(S) /\ next \in Nat /\ next <= Cardinality(S)
  /\ offset <= next \/ next = Cardinality(S)
  /\ page.hasMore \in BOOLEAN /\ (~page.hasMore => next = Cardinality(S))
  /\ \A i \in 1..Len(page.items) :
       /\ page.items[i] \in S /\ Rank(S, page.items[i]) = offset + i - 1
       /\ offset + i <= next
  /\ \A x \in S : Rank(S, x) >= offset => x \in Range(page.items) \/ Rank(S, x) >= next

LEMMA PageTakes ==
  ASSUME NEW S \in SUBSET Nat, IsFiniteSet(S), NEW offset \in Nat, NEW limit \in Nat,
         NEW page, page = Page(Ascending(S), offset, limit),
         NEW next, next = page.offset + Len(page.items)
  PROVE  Takes(S, offset, page, next)
<1> DEFINE q == Ascending(S)
           n == Cardinality(S)
           start == IF offset > n THEN n ELSE offset
           end == IF start + limit > n THEN n ELSE start + limit
<1>1. /\ q \in Seq(S) /\ Len(q) = n /\ n \in Nat
      /\ \A k \in 1..n : q[k] \in S /\ Rank(S, q[k]) = k - 1
      /\ \A x \in S : q[Rank(S, x) + 1] = x /\ Rank(S, x) \in Nat /\ Rank(S, x) < n
  BY AscendingIs, Ranks
<1>2. page = [items |-> SubSeq(q, start + 1, end), offset |-> start, hasMore |-> end < n]
  BY <1>1 DEF Page
<1> HIDE DEF q, n
<1>3. /\ start \in Nat /\ end \in Nat /\ start <= end /\ end <= n
      /\ offset <= start \/ start = n
      /\ start < n => start = offset
      /\ offset < n => start = offset
  BY <1>1
<1> HIDE DEF start, end
<1> DEFINE items == page.items
<1>4. /\ page.items = SubSeq(q, start + 1, end) /\ page.offset = start
      /\ page.hasMore = (end < n)
  <2> DEFINE t == SubSeq(q, start + 1, end)
             more == end < n
  <2>1. page = [items |-> t, offset |-> start, hasMore |-> more]
    BY <1>2
  <2> HIDE DEF t, more
  <2>2. page.items = t /\ page.offset = start /\ page.hasMore = more
    BY <2>1
  <2> QED BY <2>2 DEF t, more
<1>5. /\ items \in Seq(S) /\ Len(items) = end - start
      /\ \A i \in 1..(end - start) : items[i] = q[start + i]
  <2>1. /\ SubSeq(q, start + 1, end) \in Seq(S)
        /\ Len(SubSeq(q, start + 1, end)) = IF start + 1 <= end THEN end - (start + 1) + 1 ELSE 0
        /\ \A i \in 1..(end - (start + 1) + 1) :
             SubSeq(q, start + 1, end)[i] = q[(start + 1) + i - 1]
    <3>1. \A k \in (start + 1)..end : q[k] \in S
      BY <1>1, <1>3
    <3> QED BY <1>3, <3>1, SubSeqProperties
  <2>2. Len(items) = end - start
    BY <1>3, <1>4, <2>1
  <2>3. ASSUME NEW i \in 1..(end - start) PROVE items[i] = q[start + i]
    <3>1. i \in 1..(end - (start + 1) + 1) /\ (start + 1) + i - 1 = start + i
      BY <1>3
    <3> QED BY <1>4, <2>1, <3>1
  <2> QED BY <1>4, <2>1, <2>2, <2>3
<1>6. next = end /\ DOMAIN items = 1..(end - start)
  <2>1. DOMAIN items = 1..Len(items)
    BY <1>5
  <2> HIDE DEF items
  <2> QED BY <1>3, <1>4, <1>5, <2>1 DEF items
<1> HIDE DEF items
<1>7. ASSUME NEW i \in 1..Len(items)
      PROVE  items[i] \in S /\ Rank(S, items[i]) = offset + i - 1 /\ offset + i <= next
  <2>1. start = offset /\ start + i \in 1..n /\ i \in 1..(end - start) /\ start + i <= end
    BY <1>1, <1>3, <1>5
  <2>2. items[i] = q[start + i]
    BY <1>5, <2>1
  <2> QED BY <1>1, <1>6, <2>1, <2>2
<1>8. ASSUME NEW x \in S, Rank(S, x) >= offset, Rank(S, x) < next PROVE x \in Range(items)
  <2> DEFINE k == Rank(S, x)
  <2>1. k \in Nat /\ k < n /\ k >= offset /\ k < end /\ q[k + 1] = x
    BY <1>1, <1>6, <1>8
  <2> HIDE DEF k
  <2>2. start = offset
    BY <1>1, <1>3, <2>1
  <2>3. (k + 1) - start \in 1..(end - start) /\ start + ((k + 1) - start) = k + 1
    BY <1>3, <2>1, <2>2
  <2>4. items[(k + 1) - start] = x
    BY <1>5, <2>1, <2>3
  <2> QED BY <1>6, <2>3, <2>4 DEF Range
<1>9. offset <= next \/ next = n
  BY <1>1, <1>3, <1>6
<1>10. ~page.hasMore => next = n
  <2>1. end \in Nat /\ n \in Nat /\ end <= n /\ next = end
    BY <1>1, <1>3, <1>6
  <2>2. ~(end < n) => next = n
    BY ONLY <2>1
  <2> QED BY <1>4, <2>2, Zenon
<1>11. \A x \in S : Rank(S, x) >= offset => x \in Range(items) \/ Rank(S, x) >= next
  BY <1>1, <1>3, <1>6, <1>8
<1>12. next \in Nat /\ next <= n /\ page.hasMore \in BOOLEAN
  BY <1>3, <1>4, <1>6
<1> QED BY <1>5, <1>7, <1>9, <1>10, <1>11, <1>12 DEF items, n, Takes

\* What the page at hand will be cut from, as far as it is known already.
Snapshot ==
  IF lookup.pc = "looking"
  THEN (Range(lookup.names) \cap lister.filter) \cup Range(lookup.found)
  ELSE present \cap lister.filter

ListingTypes ==
  /\ present \subseteq Items
  /\ past \in [start : SUBSET Items, created : BOOLEAN, removed : BOOLEAN, changes : Nat]
  /\ lister \in [kind : {"files", "inventory"}, filter : SUBSET Items, limit : Nat,
                 state : {"paging", "ended", "refused"}, offset : Nat, seen : Seq(Items)]
  /\ lookup \in [pc : {"none", "asked", "looking"}, names : Seq(Items), found : Seq(Items)]
  /\ Range(lookup.found) \subseteq lister.filter

\* Nothing went away: what the agent began with is on the pages it has, or comes
\* behind them.
KeptOK == ~past.removed =>
  /\ past.start \subseteq present
  /\ lookup.pc = "looking" => Range(lookup.names) \cup Range(lookup.found) \subseteq present
  /\ past.start \cap lister.filter \subseteq Snapshot
  /\ \A x \in past.start \cap lister.filter :
       x \in Range(lister.seen) \/ Rank(Snapshot, x) >= lister.offset
  /\ lister.state = "ended" => past.start \cap lister.filter \subseteq Range(lister.seen)

\* Nothing came: what the agent has is in order and comes before the rest.
OrderOK == ~past.created =>
  /\ present \cap lister.filter \subseteq Snapshot
  /\ NothingTwice
  /\ \A i \in DOMAIN lister.seen : UpTo(Snapshot, lister.seen[i]) <= lister.offset

ListingOK == ListingTypes /\ KeptOK /\ OrderOK

LEMMA RangeType ==
  ASSUME NEW T, NEW q \in Seq(T)
  PROVE  Range(q) \subseteq T /\ DOMAIN q = 1..Len(q) /\ Len(q) \in Nat
BY DEF Range

LEMMA SnapshotType ==
  ListingTypes =>
    /\ Snapshot \in SUBSET Nat /\ Snapshot \subseteq Items /\ IsFiniteSet(Snapshot)
    /\ Snapshot \subseteq lister.filter
<1> SUFFICES ASSUME ListingTypes
             PROVE  Snapshot \subseteq Items /\ Snapshot \subseteq lister.filter
  BY ListingAssumption, FS_Subset
<1>1. Range(lookup.names) \subseteq Items /\ Range(lookup.found) \subseteq Items
  BY RangeType DEF ListingTypes
<1> QED BY <1>1 DEF Snapshot, ListingTypes

LEMMA AmongMore ==
  ASSUME NEW T, NEW U, U \subseteq T, NEW q \in Seq(U)
  PROVE  q \in Seq(T)
<1>1. Len(q) \in Nat /\ \A i \in 1..Len(q) : q[i] \in T
  OBVIOUS
<1>2. q = [i \in 1..Len(q) |-> q[i]]
  OBVIOUS
<1> QED BY <1>1, <1>2

LEMMA BehindOthers ==
  ASSUME NEW T, NEW s \in Seq(T), NEW t \in Seq(T)
  PROVE  /\ s \o t \in Seq(T) /\ DOMAIN (s \o t) = 1..(Len(s) + Len(t))
         /\ \A i \in 1..Len(s) : (s \o t)[i] = s[i]
         /\ \A i \in (Len(s) + 1)..(Len(s) + Len(t)) :
              i - Len(s) \in 1..Len(t) /\ (s \o t)[i] = t[i - Len(s)]
         /\ Range(s \o t) = Range(s) \cup Range(t)
<1> DEFINE q == s \o t
<1>1. /\ q \in Seq(T) /\ DOMAIN q = 1..(Len(s) + Len(t))
      /\ \A i \in 1..Len(s) : q[i] = s[i]
      /\ \A i \in 1..Len(t) : q[Len(s) + i] = t[i]
  BY ConcatProperties
<1>2. /\ Len(s) \in Nat /\ Len(t) \in Nat
      /\ DOMAIN s = 1..Len(s) /\ DOMAIN t = 1..Len(t)
  OBVIOUS
<1> HIDE DEF q
<1>3. ASSUME NEW i \in (Len(s) + 1)..(Len(s) + Len(t))
      PROVE  i - Len(s) \in 1..Len(t) /\ q[i] = t[i - Len(s)]
  <2>1. i - Len(s) \in 1..Len(t) /\ i = Len(s) + (i - Len(s))
    BY <1>2
  <2> QED BY <1>1, <2>1
<1>4. Range(q) \subseteq Range(s) \cup Range(t)
  <2> SUFFICES ASSUME NEW i \in 1..(Len(s) + Len(t)) PROVE q[i] \in Range(s) \cup Range(t)
    BY <1>1 DEF Range
  <2>1. i \in 1..Len(s) \/ i \in (Len(s) + 1)..(Len(s) + Len(t))
    BY <1>2
  <2> QED BY <1>1, <1>2, <1>3, <2>1 DEF Range
<1>5. Range(s) \subseteq Range(q)
  <2> SUFFICES ASSUME NEW i \in 1..Len(s) PROVE s[i] \in Range(q)
    BY <1>2 DEF Range
  <2>1. i \in 1..(Len(s) + Len(t))
    BY <1>2
  <2> QED BY <1>1, <2>1 DEF Range
<1>6. Range(t) \subseteq Range(q)
  <2> SUFFICES ASSUME NEW i \in 1..Len(t) PROVE t[i] \in Range(q)
    BY <1>2 DEF Range
  <2>1. Len(s) + i \in 1..(Len(s) + Len(t))
    BY <1>2
  <2> QED BY <1>1, <2>1 DEF Range
<1> QED BY <1>1, <1>3, <1>4, <1>5, <1>6 DEF q

\* A page is answered, cut from what was found.
LEMMA AnswerOK ==
  ASSUME ListingOK, NEW found \in Seq(Items), Range(found) = Snapshot,
         AnswerPage(found), UNCHANGED <<present, past>>
  PROVE  ListingOK'
<1> DEFINE S == Snapshot
           seen == lister.seen
           offset == lister.offset
           page == Page(Ascending(S), offset, EffectiveLimit(lister.limit))
           items == page.items
           next == page.offset + Len(page.items)
<1>1. /\ S \in SUBSET Nat /\ S \subseteq Items /\ IsFiniteSet(S) /\ S \subseteq lister.filter
      /\ ListingTypes
  BY SnapshotType DEF ListingOK
<1>2. /\ offset \in Nat /\ EffectiveLimit(lister.limit) \in Nat /\ seen \in Seq(Items)
      /\ Items \subseteq Nat
  BY <1>1, ListingAssumption DEF EffectiveLimit, ListingTypes
<1>3. /\ lister' = [lister EXCEPT !.seen = @ \o items, !.offset = next,
                                  !.state = IF page.hasMore THEN "paging" ELSE "ended"]
      /\ lookup' = NoLookup
  BY DEF AnswerPage, Arranged
<1>4. /\ items \in Seq(S) /\ next \in Nat /\ next <= Cardinality(S)
      /\ offset <= next \/ next = Cardinality(S)
      /\ page.hasMore \in BOOLEAN /\ (~page.hasMore => next = Cardinality(S))
      /\ \A i \in 1..Len(items) :
           /\ items[i] \in S /\ Rank(S, items[i]) = offset + i - 1
           /\ offset + i <= next
      /\ \A x \in S : Rank(S, x) >= offset => x \in Range(items) \/ Rank(S, x) >= next
  <2> DEFINE limit == EffectiveLimit(lister.limit)
  <2>1. page = Page(Ascending(S), offset, limit) /\ next = page.offset + Len(page.items)
    OBVIOUS
  <2>2. offset \in Nat /\ limit \in Nat /\ S \in SUBSET Nat /\ IsFiniteSet(S)
    BY <1>1, <1>2
  <2> HIDE DEF S, offset, page, next, limit
  <2>3. Takes(S, offset, page, next)
    BY <2>1, <2>2, PageTakes
  <2> QED BY <2>3 DEF Takes
<1> HIDE DEF page, next
<1>5. /\ lister' \in [kind : {"files", "inventory"}, filter : SUBSET Items, limit : Nat,
                      state : {"paging", "ended", "refused"}, offset : Nat, seen : Seq(Items)]
      /\ lister'.filter = lister.filter /\ lister'.seen = seen \o items /\ lister'.offset = next
      /\ lister'.state = IF page.hasMore THEN "paging" ELSE "ended"
  <2>1. items \in Seq(Items)
    <3> HIDE DEF items, S
    <3> QED BY <1>1, <1>4, AmongMore
  <2>2. seen \o items \in Seq(Items)
    BY <1>2, <2>1
  <2> HIDE DEF items
  <2> QED BY <1>1, <1>3, <1>4, <2>2 DEF ListingTypes
<1>6. /\ lookup' \in [pc : {"none", "asked", "looking"}, names : Seq(Items), found : Seq(Items)]
      /\ lookup'.pc = "none" /\ Range(lookup'.found) = {}
  BY <1>3 DEF NoLookup, Range
<1>7. Snapshot' = present \cap lister.filter
  BY <1>5, <1>6 DEF Snapshot
<1>8. ListingTypes'
  BY <1>1, <1>5, <1>6 DEF ListingTypes
<1>9. /\ Range(seen \o items) = Range(seen) \cup Range(items)
      /\ seen \o items \in Seq(Items) /\ DOMAIN (seen \o items) = 1..(Len(seen) + Len(items))
      /\ \A i \in 1..Len(seen) : (seen \o items)[i] = seen[i] /\ seen[i] \in Nat
      /\ \A i \in (Len(seen) + 1)..(Len(seen) + Len(items)) :
           i - Len(seen) \in 1..Len(items) /\ (seen \o items)[i] = items[i - Len(seen)]
      /\ Len(seen) \in Nat /\ Len(items) \in Nat /\ DOMAIN seen = 1..Len(seen)
  <2>1. items \in Seq(Items)
    <3> HIDE DEF items, S
    <3> QED BY <1>1, <1>4, AmongMore
  <2> HIDE DEF items, seen
  <2>2. \A i \in 1..Len(seen) : seen[i] \in Nat
    <3>1. \A i \in 1..Len(seen) : seen[i] \in Items
      BY <1>2
    <3> QED BY <1>2, <3>1
  <2> QED BY <1>2, <2>1, <2>2, BehindOthers
<1> HIDE DEF items, S, seen, offset
<1>10. KeptOK'
  <2> SUFFICES ASSUME ~past.removed
               PROVE  /\ past.start \subseteq present
                      /\ past.start \cap lister.filter \subseteq Snapshot'
                      /\ \A x \in past.start \cap lister.filter :
                           x \in Range(seen \o items) \/ Rank(Snapshot', x) >= next
                      /\ ~page.hasMore =>
                           past.start \cap lister.filter \subseteq Range(seen \o items)
    BY <1>5, <1>6, Zenon DEF KeptOK
  <2>1. /\ past.start \subseteq present
        /\ past.start \cap lister.filter \subseteq S
        /\ \A x \in past.start \cap lister.filter : x \in Range(seen) \/ Rank(S, x) >= offset
    BY DEF ListingOK, KeptOK, S, seen, offset
  <2>2. S \subseteq present
    BY <1>1 DEF ListingOK, KeptOK, S, Snapshot
  <2>3. S \subseteq Snapshot' /\ Snapshot' \in SUBSET Nat /\ IsFiniteSet(Snapshot')
    <3>1. Snapshot' \subseteq Items
      BY <1>1, <1>7 DEF ListingTypes
    <3> QED BY <1>1, <1>2, <1>7, <2>2, <3>1, ListingAssumption, FS_Subset
  <2>4. ASSUME NEW x \in past.start \cap lister.filter, x \notin Range(seen \o items)
        PROVE  Rank(S, x) >= next /\ Rank(Snapshot', x) >= next /\ page.hasMore
    <3>1. x \in S /\ Rank(S, x) >= next
      BY <1>4, <1>9, <2>1, <2>4
    <3>2. Rank(S, x) \in Nat /\ Rank(S, x) < Cardinality(S) /\ Cardinality(S) \in Nat
      BY <1>1, <3>1, Ranks
    <3>3. Rank(S, x) <= Rank(Snapshot', x)
      BY <2>3, Wider
    <3>4. Rank(Snapshot', x) \in Nat
      BY <2>3, Ranks
    <3>5. Rank(Snapshot', x) >= next
      BY <1>4, <3>1, <3>2, <3>3, <3>4
    <3>6. next # Cardinality(S)
      BY <1>4, <3>1, <3>2
    <3> QED BY <1>4, <3>1, <3>5, <3>6
  <2>5. past.start \cap lister.filter \subseteq Snapshot'
    BY <2>1, <2>3
  <2> QED BY <2>1, <2>4, <2>5
<1>11. OrderOK'
  <2> SUFFICES ASSUME ~past.created
               PROVE  /\ \A i, j \in 1..(Len(seen) + Len(items)) :
                           i < j => (seen \o items)[i] < (seen \o items)[j]
                      /\ \A i \in 1..(Len(seen) + Len(items)) :
                           UpTo(Snapshot', (seen \o items)[i]) <= next
    BY <1>5, <1>7, <1>9 DEF OrderOK, NothingTwice
  <2>1. /\ present \cap lister.filter \subseteq S
        /\ \A i, j \in 1..Len(seen) : i < j => seen[i] < seen[j]
        /\ \A i \in 1..Len(seen) : UpTo(S, seen[i]) <= offset
    BY <1>9 DEF ListingOK, OrderOK, NothingTwice, S, seen, offset
  <2>2. /\ \A x : UpTo(S, x) \in Nat /\ UpTo(S, x) <= Cardinality(S) /\ Rank(S, x) \in Nat
        /\ \A x \in S : UpTo(S, x) = Rank(S, x) + 1
        /\ \A x \in S, y \in Nat : x <= y => Rank(S, x) < UpTo(S, y)
        /\ \A x \in S, y \in S : x < y => Rank(S, x) < Rank(S, y)
        /\ Cardinality(S) \in Nat /\ \A x \in S : x \in Nat
    BY <1>1, Ranks
  <2>3. ASSUME NEW i \in 1..Len(items)
        PROVE  /\ items[i] \in S /\ items[i] \in Nat /\ UpTo(S, items[i]) <= next
               /\ Rank(S, items[i]) = offset + i - 1
    <3>1. items[i] \in S /\ Rank(S, items[i]) = offset + i - 1 /\ offset + i <= next
      BY <1>4
    <3>2. UpTo(S, items[i]) = offset + i - 1 + 1 /\ items[i] \in Nat
      BY <2>2, <3>1
    <3>3. offset + i - 1 + 1 = offset + i
      BY <1>2, <1>9 DEF offset
    <3> QED BY <3>1, <3>2, <3>3
  <2>4. ASSUME NEW i \in 1..Len(seen), NEW j \in 1..Len(items) PROVE seen[i] < items[j]
    <3>1. seen[i] \in Nat /\ UpTo(S, seen[i]) <= offset /\ UpTo(S, seen[i]) \in Nat
      BY <1>9, <2>1, <2>2
    <3>2. offset \in Nat /\ offset + j - 1 >= offset
      BY <1>2, <1>9 DEF offset
    <3>3. items[j] <= seen[i] => Rank(S, items[j]) < UpTo(S, seen[i])
      BY <2>2, <2>3, <3>1
    <3>4. ~(items[j] <= seen[i])
      BY <2>2, <2>3, <3>1, <3>2, <3>3
    <3> QED BY <2>3, <3>1, <3>4
  <2>5. ASSUME NEW i \in 1..Len(items), NEW j \in 1..Len(items), i < j
        PROVE  items[i] < items[j]
    <3>1. offset \in Nat /\ offset + i - 1 < offset + j - 1
      BY <1>2, <1>9, <2>5 DEF offset
    <3>2. /\ Rank(S, items[i]) = offset + i - 1 /\ items[i] \in S /\ items[i] \in Nat
          /\ Rank(S, items[j]) = offset + j - 1 /\ items[j] \in S /\ items[j] \in Nat
      BY <2>3
    <3>3. items[i] # items[j]
      <4> SUFFICES ASSUME items[i] = items[j] PROVE FALSE
        OBVIOUS
      <4>1. offset + i - 1 = offset + j - 1
        BY <3>2
      <4> QED BY <1>2, <1>9, <2>5, <4>1 DEF offset
    <3>4. items[j] < items[i] => Rank(S, items[j]) < Rank(S, items[i])
      BY <2>2, <3>2
    <3>5. ~(items[j] < items[i])
      <4> SUFFICES ASSUME items[j] < items[i] PROVE FALSE
        OBVIOUS
      <4>1. offset + j - 1 < offset + i - 1
        BY <3>2, <3>4
      <4> QED BY <1>2, <1>9, <3>1, <4>1 DEF offset
    <3> QED BY <3>2, <3>3, <3>5
  <2>6. \A i \in 1..(Len(seen) + Len(items)) :
          i \in 1..Len(seen) \/ i \in (Len(seen) + 1)..(Len(seen) + Len(items))
    BY <1>9
  <2>7. ASSUME NEW i \in 1..(Len(seen) + Len(items)), NEW j \in 1..(Len(seen) + Len(items)),
               i < j
        PROVE  (seen \o items)[i] < (seen \o items)[j]
    <3>1. CASE i \in 1..Len(seen) /\ j \in 1..Len(seen)
      BY <1>9, <2>1, <2>7, <3>1
    <3>2. CASE i \in 1..Len(seen) /\ j \in (Len(seen) + 1)..(Len(seen) + Len(items))
      BY <1>9, <2>4, <3>2
    <3>3. CASE i \in (Len(seen) + 1)..(Len(seen) + Len(items))
      <4>1. /\ j \in (Len(seen) + 1)..(Len(seen) + Len(items))
            /\ i - Len(seen) < j - Len(seen)
        BY <1>9, <2>7, <3>3
      <4> QED BY <1>9, <2>5, <3>3, <4>1
    <3> QED BY <2>6, <3>1, <3>2, <3>3
  <2>8. ASSUME NEW i \in 1..(Len(seen) + Len(items)) PROVE UpTo(S, (seen \o items)[i]) <= next
    <3>1. CASE i \in 1..Len(seen)
      <4>1. UpTo(S, seen[i]) <= offset /\ UpTo(S, seen[i]) \in Nat /\ offset \in Nat
        BY <1>2, <2>1, <2>2, <3>1 DEF offset
      <4>2. UpTo(S, seen[i]) <= next
        BY <1>4, <2>2, <4>1
      <4> QED BY <1>9, <3>1, <4>2
    <3>2. CASE i \in (Len(seen) + 1)..(Len(seen) + Len(items))
      BY <1>9, <2>3, <3>2
    <3> QED BY <2>6, <3>1, <3>2
  <2>9. ASSUME NEW i \in 1..(Len(seen) + Len(items))
        PROVE  UpTo(Snapshot', (seen \o items)[i]) <= next
    <3> DEFINE x == (seen \o items)[i]
    <3>1. Snapshot' \in SUBSET S
      BY <1>7, <2>1
    <3>2. UpTo(Snapshot', x) <= UpTo(S, x) /\ IsFiniteSet(Snapshot')
      BY <1>1, <3>1, Wider
    <3>3. UpTo(Snapshot', x) \in Nat
      BY <1>1, <3>1, <3>2, Ranks
    <3> HIDE DEF x
    <3>4. UpTo(S, x) <= next /\ UpTo(S, x) \in Nat
      BY <2>2, <2>8 DEF x
    <3> QED BY <1>4, <3>2, <3>3, <3>4 DEF x
  <2> QED BY <2>7, <2>9
<1> QED BY <1>8, <1>10, <1>11 DEF ListingOK

\* What is to be cut changes, but neither gains nor loses what it must not.
LEMMA SnapshotChanges ==
  ASSUME ListingOK, ListingTypes',
         UNCHANGED <<lister.filter, lister.seen, lister.offset, past.start>>,
         ~past.removed' =>
           /\ ~past.removed /\ Snapshot \subseteq Snapshot' /\ past'.start \subseteq present'
           /\ lookup'.pc = "looking" => Range(lookup'.names) \cup Range(lookup'.found) \subseteq present'
           /\ lister'.state = "ended" => lister.state = "ended",
         ~past.created' =>
           /\ ~past.created /\ Snapshot' \subseteq Snapshot
           /\ present' \cap lister'.filter \subseteq Snapshot'
  PROVE  ListingOK'
<1>1. ListingTypes /\ KeptOK /\ OrderOK
  BY DEF ListingOK
<1>2. /\ Snapshot \in SUBSET Nat /\ IsFiniteSet(Snapshot)
      /\ Snapshot' \in SUBSET Nat /\ IsFiniteSet(Snapshot')
  <2>1. (ListingTypes => Snapshot \in SUBSET Nat /\ IsFiniteSet(Snapshot))'
    BY SnapshotType, PTL
  <2> QED BY <1>1, <2>1, SnapshotType
<1>3. \A x : /\ Rank(Snapshot, x) \in Nat /\ Rank(Snapshot', x) \in Nat
             /\ UpTo(Snapshot, x) \in Nat /\ UpTo(Snapshot', x) \in Nat
  BY <1>2, Ranks
<1>4. KeptOK'
  <2> SUFFICES ASSUME ~past.removed' PROVE KeptOK'
    BY DEF KeptOK
  <2>1. \A x : Rank(Snapshot, x) <= Rank(Snapshot', x)
    BY <1>2, Wider
  <2>2. lister.offset \in Nat
    BY <1>1 DEF ListingTypes
  <2>3. ASSUME NEW x, Rank(Snapshot, x) >= lister.offset
        PROVE  Rank(Snapshot', x) >= lister.offset
    BY <1>3, <2>1, <2>2, <2>3
  <2> QED BY <1>1, <2>3 DEF KeptOK
<1>5. OrderOK'
  <2> SUFFICES ASSUME ~past.created' PROVE OrderOK'
    BY DEF OrderOK
  <2>1. \A x : UpTo(Snapshot', x) <= UpTo(Snapshot, x)
    BY <1>2, Wider
  <2>2. lister.offset \in Nat
    BY <1>1 DEF ListingTypes
  <2>3. ASSUME NEW x, UpTo(Snapshot, x) <= lister.offset
        PROVE  UpTo(Snapshot', x) <= lister.offset
    BY <1>3, <2>1, <2>2, <2>3
  <2> QED BY <1>1, <2>3 DEF OrderOK, NothingTwice
<1> QED BY <1>4, <1>5 DEF ListingOK

LEMMA AskPageOK == ListingOK /\ AskPage => ListingOK'
<1> SUFFICES ASSUME ListingOK, AskPage PROVE ListingOK'
  OBVIOUS
<1>1. /\ lookup' \in [pc : {"none", "asked", "looking"}, names : Seq(Items), found : Seq(Items)]
      /\ lookup'.pc = "asked" /\ lookup.pc = "none" /\ Range(lookup'.found) = {}
      /\ UNCHANGED <<present, past, lister>>
  <2>1. lookup' = [pc |-> "asked", names |-> <<>>, found |-> <<>>]
    BY DEF AskPage, NoLookup
  <2>2. <<>> \in Seq(Items) /\ Range(<<>>) = {}
    BY DEF Range
  <2>3. lookup.pc = "none" /\ UNCHANGED <<present, past, lister>>
    BY DEF AskPage
  <2>4. lookup'.pc = "asked" /\ lookup'.names = <<>> /\ lookup'.found = <<>>
    BY <2>1
  <2>5. lookup' \in [pc : {"none", "asked", "looking"}, names : Seq(Items), found : Seq(Items)]
    BY <2>1, <2>2
  <2> QED BY <2>2, <2>3, <2>4, <2>5
<1>2. ListingTypes' /\ Snapshot' = Snapshot
  BY <1>1 DEF ListingOK, ListingTypes, Snapshot
<1> QED BY <1>1, <1>2 DEF ListingOK, KeptOK, OrderOK, NothingTwice

\* A page that is refused is not there to be cut.
LEMMA RefuseOK ==
  ASSUME ListingOK, lookup.pc = "asked", RefusePage, UNCHANGED <<present, past>>
  PROVE  ListingOK'
<1>1. /\ lookup' \in [pc : {"none", "asked", "looking"}, names : Seq(Items), found : Seq(Items)]
      /\ lookup'.pc = "none" /\ Range(lookup'.found) = {}
  BY DEF RefusePage, NoLookup, Range
<1>2. /\ lister' \in [kind : {"files", "inventory"}, filter : SUBSET Items, limit : Nat,
                      state : {"paging", "ended", "refused"}, offset : Nat, seen : Seq(Items)]
      /\ UNCHANGED <<lister.filter, lister.seen, lister.offset>> /\ lister'.state = "refused"
  BY DEF RefusePage, ListingOK, ListingTypes
<1>3. ListingTypes' /\ Snapshot' = Snapshot
  BY <1>1, <1>2 DEF ListingOK, ListingTypes, Snapshot
<1> QED BY <1>1, <1>2, <1>3 DEF ListingOK, KeptOK, OrderOK, NothingTwice

LEMMA ReadDirOK == ListingOK /\ ReadDir => ListingOK'
<1> SUFFICES ASSUME ListingOK, ReadDir PROVE ListingOK'
  OBVIOUS
<1>1. CASE RefusePage
  BY <1>1, RefuseOK DEF ReadDir
<1>2. CASE /\ lookup' = [pc |-> "looking", names |-> Ascending(present), found |-> <<>>]
           /\ UNCHANGED lister
  <2>1. present \in SUBSET Nat /\ IsFiniteSet(present) /\ present \subseteq Items
    BY ListingAssumption, FS_Subset DEF ListingOK, ListingTypes
  <2>2. Ascending(present) \in Seq(Items) /\ Range(Ascending(present)) = present
    BY <2>1, AscendingIs, AmongMore
  <2>3. /\ lookup' \in [pc : {"none", "asked", "looking"}, names : Seq(Items), found : Seq(Items)]
        /\ lookup'.pc = "looking" /\ Range(lookup'.names) = present /\ Range(lookup'.found) = {}
        /\ UNCHANGED <<present, past, lister>> /\ lookup.pc = "asked"
    BY <1>2, <2>2 DEF ReadDir, Range
  <2>4. ListingTypes' /\ Snapshot' = Snapshot
    BY <2>3 DEF ListingOK, ListingTypes, Snapshot
  <2> QED BY <2>3, <2>4 DEF ListingOK, KeptOK, OrderOK, NothingTwice
<1> QED BY <1>1, <1>2 DEF ReadDir

\* A name that is looked up moves from the names to what was found, or is left out
\* because its file has gone or it does not match.
LEMMA InfoOK == ListingOK /\ Info => ListingOK'
<1> SUFFICES ASSUME ListingOK, Info PROVE ListingOK'
  OBVIOUS
<1> DEFINE names == lookup.names
           found == lookup.found
           x == Head(names)
<1>1. /\ UNCHANGED <<present, past, lister>> /\ lookup.pc = "looking"
      /\ names # <<>> /\ names \in Seq(Items) /\ found \in Seq(Items)
      /\ ListingTypes
  BY DEF Info, ListingOK, ListingTypes
<1>2. lookup' = [lookup EXCEPT !.names = Tail(names),
                               !.found = IF x \in present \cap lister.filter
                                         THEN Append(found, x) ELSE found]
  BY DEF Info
<1>3. /\ x \in Items /\ Tail(names) \in Seq(Items)
      /\ Range(names) = {x} \cup Range(Tail(names))
  <2> HIDE DEF names
  <2> DEFINE t == Tail(names)
  <2>1. /\ t \in Seq(Items) /\ Len(t) = Len(names) - 1
        /\ \A i \in 1..Len(t) : t[i] = names[i + 1]
        /\ x = names[1] /\ x \in Items /\ Len(names) \in Nat /\ Len(names) >= 1
    BY <1>1
  <2>2. DOMAIN t = 1..Len(t) /\ DOMAIN names = 1..Len(names)
    BY <1>1, <2>1
  <2> HIDE DEF t, x
  <2>3. Range(names) \subseteq {x} \cup Range(t)
    <3> SUFFICES ASSUME NEW i \in 1..Len(names), i # 1 PROVE names[i] \in Range(t)
      BY <2>1, <2>2 DEF Range
    <3>1. i - 1 \in 1..Len(t) /\ t[i - 1] = names[(i - 1) + 1] /\ (i - 1) + 1 = i
      BY <2>1
    <3> QED BY <2>2, <3>1 DEF Range
  <2>4. Range(t) \subseteq Range(names)
    <3> SUFFICES ASSUME NEW i \in 1..Len(t) PROVE t[i] \in Range(names)
      BY <2>2 DEF Range
    <3>1. i + 1 \in 1..Len(names)
      BY <2>1
    <3> QED BY <2>1, <2>2, <3>1 DEF Range
  <2>5. x \in Range(names)
    BY <2>1, <2>2 DEF Range
  <2> QED BY <2>1, <2>3, <2>4, <2>5 DEF t
<1>4. Append(found, x) \in Seq(Items) /\ Range(Append(found, x)) = Range(found) \cup {x}
  <2> HIDE DEF found, x
  <2> DEFINE a == Append(found, x)
  <2>1. /\ a \in Seq(Items) /\ Len(a) = Len(found) + 1 /\ Len(found) \in Nat
        /\ \A i \in 1..Len(found) : a[i] = found[i]
        /\ a[Len(found) + 1] = x
    BY <1>1, <1>3, AppendProperties
  <2>2. DOMAIN a = 1..Len(a) /\ DOMAIN found = 1..Len(found)
    BY <1>1, <2>1
  <2> HIDE DEF a
  <2>3. Range(a) \subseteq Range(found) \cup {x}
    <3> SUFFICES ASSUME NEW i \in 1..Len(a) PROVE a[i] \in Range(found) \cup {x}
      BY <2>2 DEF Range
    <3>1. i \in 1..Len(found) \/ i = Len(found) + 1
      BY <2>1
    <3> QED BY <2>1, <2>2, <3>1 DEF Range
  <2>4. Range(found) \subseteq Range(a)
    <3> SUFFICES ASSUME NEW i \in 1..Len(found) PROVE found[i] \in Range(a)
      BY <2>2 DEF Range
    <3>1. i \in 1..Len(a)
      BY <2>1
    <3> QED BY <2>1, <2>2, <3>1 DEF Range
  <2>5. x \in Range(a)
    <3>1. Len(found) + 1 \in 1..Len(a)
      BY <2>1
    <3> QED BY <2>1, <2>2, <3>1 DEF Range
  <2> QED BY <2>1, <2>3, <2>4, <2>5 DEF a
<1>5. /\ lookup' \in [pc : {"none", "asked", "looking"}, names : Seq(Items), found : Seq(Items)]
      /\ lookup'.pc = "looking" /\ lookup'.names = Tail(names)
      /\ lookup'.found = IF x \in present \cap lister.filter THEN Append(found, x) ELSE found
  <2> DEFINE more == IF x \in present \cap lister.filter THEN Append(found, x) ELSE found
  <2>1. more \in Seq(Items)
    BY <1>1, <1>4
  <2> HIDE DEF more, x, names, found
  <2>2. lookup' = [lookup EXCEPT !.names = Tail(names), !.found = more]
    BY <1>2 DEF more
  <2> QED BY <1>1, <1>3, <2>1, <2>2 DEF ListingTypes, more
<1>6. /\ Range(lookup.names) = {x} \cup Range(lookup'.names)
      /\ Range(lookup'.found) = IF x \in present \cap lister.filter
                                THEN Range(lookup.found) \cup {x} ELSE Range(lookup.found)
  BY <1>3, <1>4, <1>5
<1> HIDE DEF x, names, found
<1>7. ListingTypes'
  BY <1>1, <1>5, <1>6 DEF ListingTypes
<1>8. /\ Snapshot = (Range(lookup.names) \cap lister.filter) \cup Range(lookup.found)
      /\ Snapshot' = (Range(lookup'.names) \cap lister.filter) \cup Range(lookup'.found)
  BY <1>1, <1>5 DEF Snapshot
<1>9. ASSUME ~past.removed
      PROVE  /\ Snapshot \subseteq Snapshot' /\ past.start \subseteq present
             /\ Range(lookup'.names) \cup Range(lookup'.found) \subseteq present
  <2>1. Range(lookup.names) \cup Range(lookup.found) \subseteq present /\ past.start \subseteq present
    BY <1>1, <1>9 DEF ListingOK, KeptOK
  <2>2. x \in present
    BY <1>6, <2>1
  <2> QED BY <1>6, <1>8, <2>1, <2>2
<1>10. ASSUME ~past.created
       PROVE  Snapshot' \subseteq Snapshot /\ present \cap lister.filter \subseteq Snapshot'
  <2>1. present \cap lister.filter \subseteq Snapshot
    BY <1>10 DEF ListingOK, OrderOK
  <2> QED BY <1>6, <1>8, <2>1
<1> QED BY <1>1, <1>7, <1>9, <1>10, SnapshotChanges

LEMMA ListFilesOK == ListingOK /\ ListFiles => ListingOK'
<1> SUFFICES ASSUME ListingOK, ListFiles PROVE ListingOK'
  OBVIOUS
<1>1. Range(lookup.names) = {}
  BY DEF ListFiles, Range
<1>2. lookup.found \in Seq(Items) /\ Range(lookup.found) = Snapshot
  BY <1>1 DEF ListFiles, Snapshot, ListingOK, ListingTypes
<1> QED BY <1>2, AnswerOK DEF ListFiles

\* A sequence that has each element once has them all.
LEMMA SeqOfSet ==
  ASSUME NEW T, IsFiniteSet(T), NEW q \in SetToSeqs(T)
  PROVE  q \in Seq(T) /\ Range(q) = T
<1> DEFINE n == Cardinality(T)
<1>1. /\ q \in [1..n -> T] /\ n \in Nat
      /\ \A i, j \in 1..n : q[i] = q[j] => i = j
  BY FS_CardinalityType DEF SetToSeqs, IsInjective
<1>2. IsFiniteSet(1..n) /\ Cardinality(1..n) = n
  BY <1>1, FS_Interval
<1> HIDE DEF n
<1>3. q \in Injection(1..n, T)
  BY <1>1 DEF Injection, IsInjective
<1>4. q \in Surjection(1..n, T)
  BY <1>2, <1>3, FS_Injection DEF n
<1>5. q \in Seq(T) /\ DOMAIN q = 1..n
  BY <1>1
<1> QED BY <1>1, <1>4, <1>5 DEF Surjection, Range

LEMMA CollectOK == ListingOK /\ Collect => ListingOK'
<1> SUFFICES ASSUME ListingOK, Collect PROVE ListingOK'
  OBVIOUS
<1>1. CASE RefusePage
  BY <1>1, RefuseOK DEF Collect
<1>2. ASSUME NEW matches \in SetToSeqs(present \cap lister.filter), AnswerPage(matches)
      PROVE  ListingOK'
  <2> DEFINE T == present \cap lister.filter
  <2>1. T = Snapshot /\ T \subseteq Items /\ IsFiniteSet(T)
    BY ListingAssumption, FS_Subset DEF Collect, Snapshot, ListingOK, ListingTypes
  <2> HIDE DEF T
  <2>2. matches \in Seq(T) /\ Range(matches) = T
    BY <2>1, SeqOfSet DEF T
  <2>3. matches \in Seq(Items)
    BY <2>1, <2>2, AmongMore
  <2> QED BY <1>2, <2>1, <2>2, <2>3, AnswerOK DEF Collect
<1> QED BY <1>1, <1>2 DEF Collect

LEMMA ChangeOK == ASSUME ListingOK, NEW x \in Items, Appear(x) \/ Vanish(x) PROVE ListingOK'
<1>1. ListingTypes /\ UNCHANGED <<lister, lookup>> /\ lister.state = "paging"
  BY DEF ListingOK, Appear, Vanish
<1>2. CASE Appear(x)
  <2>1. /\ present' = present \cup {x} /\ past'.start = past.start
        /\ past'.removed = past.removed /\ past'.created = TRUE
        /\ past' \in [start : SUBSET Items, created : BOOLEAN, removed : BOOLEAN, changes : Nat]
    <3>1. /\ past' = [past EXCEPT !.created = TRUE, !.changes = past.changes + 1]
          /\ past \in [start : SUBSET Items, created : BOOLEAN, removed : BOOLEAN, changes : Nat]
      BY <1>1, <1>2 DEF Appear, ListingTypes
    <3>2. past'.start = past.start /\ past'.changes = past.changes + 1
      BY <3>1
    <3>3. past'.removed = past.removed /\ past'.created = TRUE
      BY <3>1, Zenon
    <3>4. past' \in [start : SUBSET Items, created : BOOLEAN, removed : BOOLEAN, changes : Nat]
      <4>1. past' = [start |-> past.start, created |-> TRUE, removed |-> past.removed,
                     changes |-> past.changes + 1]
        BY <3>1
      <4>2. past.start \in SUBSET Items /\ past.changes + 1 \in Nat
        BY <3>1
      <4>3. past.created \in BOOLEAN /\ past.removed \in BOOLEAN
        BY <3>1
      <4> QED BY <4>1, <4>2, <4>3
    <3> QED BY <1>2, <3>2, <3>3, <3>4 DEF Appear
  <2>2. ListingTypes'
    BY <1>1, <2>1 DEF ListingTypes
  <2>3. Snapshot \subseteq Snapshot'
    BY <1>1, <2>1 DEF Snapshot
  <2>4. ASSUME ~past'.removed
        PROVE  /\ ~past.removed /\ past.start \subseteq present'
               /\ lookup.pc = "looking" => Range(lookup.names) \cup Range(lookup.found) \subseteq present'
    BY <2>1, <2>4 DEF ListingOK, KeptOK
  <2> QED BY <1>1, <2>1, <2>2, <2>3, <2>4, SnapshotChanges
<1>3. CASE Vanish(x)
  <2>1. /\ present' = present \ {x} /\ past'.start = past.start
        /\ past'.created = past.created /\ past'.removed = TRUE
        /\ past' \in [start : SUBSET Items, created : BOOLEAN, removed : BOOLEAN, changes : Nat]
    <3>1. /\ past' = [past EXCEPT !.removed = TRUE, !.changes = past.changes + 1]
          /\ past \in [start : SUBSET Items, created : BOOLEAN, removed : BOOLEAN, changes : Nat]
      BY <1>1, <1>3 DEF Vanish, ListingTypes
    <3>2. past'.start = past.start /\ past'.changes = past.changes + 1
      BY <3>1
    <3>3. past'.created = past.created /\ past'.removed = TRUE
      BY <3>1, Zenon
    <3>4. past' \in [start : SUBSET Items, created : BOOLEAN, removed : BOOLEAN, changes : Nat]
      <4>1. past' = [start |-> past.start, created |-> past.created, removed |-> TRUE,
                     changes |-> past.changes + 1]
        BY <3>1
      <4>2. past.start \in SUBSET Items /\ past.changes + 1 \in Nat
        BY <3>1
      <4>3. past.created \in BOOLEAN /\ past.removed \in BOOLEAN
        BY <3>1
      <4> QED BY <4>1, <4>2, <4>3
    <3> QED BY <1>3, <3>2, <3>3, <3>4 DEF Vanish
  <2>2. ListingTypes'
    BY <1>1, <2>1 DEF ListingTypes
  <2>3. Snapshot' \subseteq Snapshot
    BY <1>1, <2>1 DEF Snapshot
  <2>4. ASSUME ~past'.created
        PROVE  ~past.created /\ present' \cap lister.filter \subseteq Snapshot'
    BY <1>1, <2>1, <2>4 DEF ListingOK, OrderOK, Snapshot
  <2> QED BY <1>1, <2>1, <2>2, <2>3, <2>4, SnapshotChanges
<1> QED BY <1>2, <1>3

LEMMA ListingStepOK == ListingOK /\ [ListingNext]_listingVars => ListingOK'
<1> SUFFICES ASSUME ListingOK, [ListingNext]_listingVars PROVE ListingOK'
  OBVIOUS
<1>1. CASE UNCHANGED listingVars
  BY <1>1 DEF listingVars, ListingOK, ListingTypes, KeptOK, OrderOK, NothingTwice, Snapshot
<1>2. CASE ListingNext
  BY <1>2, AskPageOK, ReadDirOK, InfoOK, ListFilesOK, CollectOK, ChangeOK
  DEF ListingNext, ListingStep
<1> QED BY <1>1, <1>2

LEMMA ListingInitOK == TasksInit => ListingOK
<1> SUFFICES ASSUME TasksInit PROVE ListingOK
  OBVIOUS
<1>1. CASE ListingInit
  <2>1. PICK kind \in {"files", "inventory"}, filter \in {Items, Matching}, limit \in Limits :
          lister = [kind |-> kind, filter |-> filter, limit |-> limit, state |-> "paging",
                    offset |-> 0, seen |-> <<>>]
    BY <1>1 DEF ListingInit
  <2>2. /\ present \subseteq Items /\ lookup = [pc |-> "none", names |-> <<>>, found |-> <<>>]
        /\ past = [start |-> present, created |-> FALSE, removed |-> FALSE, changes |-> 0]
    BY <1>1 DEF ListingInit, NoLookup
  <2>3. filter \subseteq Items /\ limit \in Nat /\ <<>> \in Seq(Items)
    BY ListingAssumption
  <2>4. Range(<<>>) = {} /\ DOMAIN <<>> = {}
    BY DEF Range
  <2>5. ListingTypes
    BY <2>1, <2>2, <2>3, <2>4 DEF ListingTypes
  <2>6. /\ lister.offset = 0 /\ lister.seen = <<>> /\ lister.state = "paging"
        /\ past.start = present /\ lookup.pc = "none"
    BY <2>1, <2>2
  <2>7. Snapshot = present \cap lister.filter
    BY <2>6 DEF Snapshot
  <2>8. \A x : Rank(Snapshot, x) >= 0
    BY <2>5, SnapshotType, Ranks
  <2>9. KeptOK
    BY <2>6, <2>7, <2>8 DEF KeptOK
  <2>10. OrderOK
    BY <2>4, <2>6, <2>7 DEF OrderOK, NothingTwice
  <2> QED BY <2>5, <2>9, <2>10 DEF ListingOK
<1>2. CASE ListingRests
  <2>1. /\ present = {} /\ lookup = [pc |-> "none", names |-> <<>>, found |-> <<>>]
        /\ past = [start |-> {}, created |-> FALSE, removed |-> FALSE, changes |-> 0]
        /\ lister = [kind |-> "files", filter |-> Items, limit |-> 0, state |-> "ended",
                     offset |-> 0, seen |-> <<>>]
    BY <1>2 DEF ListingRests, NoLookup
  <2>2. Range(<<>>) = {} /\ DOMAIN <<>> = {} /\ <<>> \in Seq(Items)
    BY DEF Range
  <2>3. ListingTypes
    BY <2>1, <2>2 DEF ListingTypes
  <2>4. /\ lister.offset = 0 /\ lister.seen = <<>> /\ past.start = {} /\ lookup.pc = "none"
    BY <2>1
  <2>5. KeptOK
    BY <2>1, <2>4 DEF KeptOK
  <2>6. OrderOK
    BY <2>1, <2>2, <2>4 DEF OrderOK, NothingTwice, Snapshot
  <2> QED BY <2>3, <2>5, <2>6 DEF ListingOK
<1> QED BY <1>1, <1>2 DEF TasksInit

\* What an agent puts together from pages has everything that was there when it
\* began, if nothing went away, and has it in order and once, if nothing came,
\* whatever else happens between two pages and between the reading of the names
\* and the look at each (filesList, serviceList, processList, marshalPage).
THEOREM ListingCorrect == TasksSpec => []ListingExact
<1>1. ListingOK /\ [TasksNext]_tasksVars => ListingOK'
  BY TasksStep, ListingStepOK
<1>2. ListingOK => ListingExact
  BY DEF ListingOK, KeptOK, OrderOK, ListingExact, NothingSkipped, NothingTwice
<1> QED BY ListingInitOK, <1>1, <1>2, PTL DEF TasksSpec
-----------------------------------------------------------------------------
(* Views (AgentView).                                                      *)

LEMMA Induction ==
  ASSUME NEW S, 0 \in S, \A n \in Nat : n \in S => n + 1 \in S
  PROVE  Nat \subseteq S
<1> SUFFICES ASSUME Nat \ S # {} PROVE FALSE
  OBVIOUS
<1>1. PICK m \in Nat \ S : \A x \in Nat \ S : ~(<<x, m>> \in OpToRel(<, Nat))
  BY WFMin, NatLessThanWellFounded
<1>2. m # 0 /\ m - 1 \in Nat
  OBVIOUS
<1>3. m - 1 \in S
  <2>1. m - 1 < m /\ <<m - 1, m>> \in Nat \X Nat
    BY <1>2
  <2>2. <<m - 1, m>> \in OpToRel(<, Nat)
    BY <2>1, Zenon DEF OpToRel
  <2> QED BY <1>1, <1>2, <2>2
<1>4. (m - 1) + 1 = m
  OBVIOUS
<1> QED BY <1>2, <1>3, <1>4

\* A function on 0..n whose next value is a step from the last one.
Steps(f, first, step, n) ==
  /\ f \in [0..n -> Nat] /\ f[0] = first
  /\ \A k \in 1..n : f[k] = step[k][f[k - 1]]

LEMMA StepsExist ==
  ASSUME NEW n \in Nat, NEW first \in Nat, NEW step \in [1..n -> [Nat -> Nat]]
  PROVE  \E f : Steps(f, first, step, n)
<1> DEFINE S == {m \in Nat : m <= n => \E f : Steps(f, first, step, m)}
<1>1. 0 \in S
  <2> DEFINE f == [k \in 0..0 |-> first]
  <2>1. f \in [0..0 -> Nat] /\ f[0] = first /\ 1..0 = {}
    OBVIOUS
  <2>2. Steps(f, first, step, 0)
    BY <2>1 DEF Steps
  <2> QED BY <2>2
<1>2. ASSUME NEW m \in Nat, m \in S PROVE m + 1 \in S
  <2> SUFFICES ASSUME m + 1 <= n PROVE \E f : Steps(f, first, step, m + 1)
    OBVIOUS
  <2>1. PICK f : Steps(f, first, step, m)
    BY <1>2
  <2> DEFINE next == step[m + 1][f[m]]
             g == [k \in 0..(m + 1) |-> IF k <= m THEN f[k] ELSE next]
  <2>2. f \in [0..m -> Nat] /\ f[0] = first /\ \A k \in 1..m : f[k] = step[k][f[k - 1]]
    BY <2>1 DEF Steps
  <2>3. next \in Nat
    <3>1. f[m] \in Nat /\ m + 1 \in 1..n
      <4>1. m \in 0..m /\ m + 1 \in 1..n
        OBVIOUS
      <4> QED BY <2>2, <4>1
    <3>2. step[m + 1] \in [Nat -> Nat]
      BY <3>1
    <3> QED BY <3>1, <3>2
  <2>4. \A k \in 0..m : k \in 0..(m + 1) /\ k <= m
    OBVIOUS
  <2>5. m + 1 \in 0..(m + 1) /\ ~(m + 1 <= m)
    OBVIOUS
  <2>6. /\ \A k \in 0..m : g[k] = f[k]
        /\ g[m + 1] = next
    BY <2>4, <2>5
  <2>7. g \in [0..(m + 1) -> Nat]
    <3>1. ASSUME NEW k \in 0..(m + 1) PROVE (IF k <= m THEN f[k] ELSE next) \in Nat
      <4>1. CASE k <= m
        <5>1. k \in 0..m
          BY <4>1
        <5> QED BY <2>2, <4>1, <5>1
      <4>2. CASE ~(k <= m)
        BY <2>3, <4>2
      <4> QED BY <4>1, <4>2
    <3> QED BY <3>1
  <2>8. ASSUME NEW k \in 1..(m + 1) PROVE g[k] = step[k][g[k - 1]]
    <3> HIDE DEF g
    <3>1. CASE k \in 1..m
      <4>1. k \in 0..m /\ k - 1 \in 0..m
        BY <3>1
      <4> QED BY <2>2, <2>6, <3>1, <4>1
    <3>2. CASE k = m + 1
      <4>1. k - 1 = m /\ m \in 0..m
        BY <3>2
      <4> QED BY <2>6, <3>2, <4>1
    <3>3. k \in 1..m \/ k = m + 1
      OBVIOUS
    <3> QED BY <3>1, <3>2, <3>3
  <2>9. g[0] = first
    <3>1. 0 \in 0..m
      OBVIOUS
    <3> QED BY <2>2, <2>6, <3>1
  <2> HIDE DEF g
  <2> QED BY <2>7, <2>8, <2>9 DEF Steps
<1>3. n \in S
  <2> HIDE DEF S
  <2> QED BY <1>1, <1>2, Induction
<1>4. n <= n
  OBVIOUS
<1> QED BY <1>3, <1>4

\* An output has a number of bytes, and the empty one has none.
LEMMA WeightType ==
  ASSUME NEW output \in Seq(Pieces)
  PROVE  Weight(output) \in Nat /\ Weight(SubSeq(output, 1, 0)) = 0
<1> DEFINE places == (1..Len(output)) \X (1..3)
           bytes == {byte \in places : byte[2] <= Width(output[byte[1]])}
<1>1. IsFiniteSet(1..Len(output)) /\ IsFiniteSet(1..3)
  <2>1. Len(output) \in Int /\ 1 \in Int /\ 3 \in Int
    OBVIOUS
  <2> QED BY ONLY <2>1, FS_Interval
<1>2. IsFiniteSet(places)
  BY <1>1, FS_Product
<1>3. IsFiniteSet(bytes)
  <2> HIDE DEF places
  <2> QED BY <1>2, FS_Subset
<1>4. Weight(output) = Cardinality(bytes)
  BY DEF Weight
<1>5. Weight(output) \in Nat
  <2> HIDE DEF bytes
  <2> QED BY <1>3, <1>4, FS_CardinalityType
<1>6. Weight(SubSeq(output, 1, 0)) = 0
  <2> DEFINE none == SubSeq(output, 1, 0)
  <2>1. 1..Len(none) = {}
    OBVIOUS
  <2> HIDE DEF none
  <2>2. {byte \in (1..Len(none)) \X (1..3) : byte[2] <= Width(none[byte[1]])} = {}
    BY <2>1
  <2> QED BY <2>2, FS_EmptySet DEF Weight, none
<1> QED BY <1>5, <1>6

\* What is shown has neither broken bytes nor control characters.
Clean == Pieces \ {"control", "broken"}

\* The greatest of a set of numbers up to n.
LEMMA Greatest ==
  ASSUME NEW n \in Nat, NEW S \in SUBSET (0..n), 0 \in S
  PROVE  \E m \in S : \A k \in S : k <= m
<1> DEFINE T == {m \in Nat : \A U \in SUBSET (0..m) : 0 \in U =>
                                \E k \in U : \A j \in U : j <= k}
<1>1. 0 \in T
  OBVIOUS
<1>2. ASSUME NEW m \in Nat, m \in T PROVE m + 1 \in T
  <2> SUFFICES ASSUME NEW U \in SUBSET (0..(m + 1)), 0 \in U
               PROVE  \E k \in U : \A j \in U : j <= k
    OBVIOUS
  <2>1. CASE m + 1 \in U
    BY <2>1
  <2>2. CASE m + 1 \notin U
    <3>1. U \in SUBSET (0..m)
      BY <2>2
    <3> QED BY <1>2, <3>1
  <2> QED BY <2>1, <2>2
<1>3. n \in T
  <2> HIDE DEF T
  <2> QED BY <1>1, <1>2, Induction
<1> QED BY <1>3


\* What is cut is as long as the limit allows.
LEMMA CutIs ==
  ASSUME NEW whole \in Seq(Clean), NEW limit \in Nat
  PROVE  \E n \in 0..Len(whole) :
           /\ Cut(whole, limit) = SubSeq(whole, 1, n)
           /\ Len(Cut(whole, limit)) = n /\ Cut(whole, limit) \in Seq(Clean)
           /\ Weight(SubSeq(whole, 1, n)) <= limit
           /\ n < Len(whole) => Weight(SubSeq(whole, 1, n + 1)) > limit
           /\ n < Len(whole) => Weight(whole) > limit
<1> DEFINE fits(n) == Weight(SubSeq(whole, 1, n)) <= limit
           fitting == {n \in 0..Len(whole) : fits(n)}
           most == CHOOSE n \in fitting : \A m \in fitting : m <= n
<1>1. whole \in Seq(Pieces) /\ Len(whole) \in Nat
  <2>1. Clean \subseteq Pieces
    BY DEF Clean
  <2> HIDE DEF fitting
  <2> QED BY <2>1, AmongMore
<1>2. fits(0)
  BY <1>1, WeightType
<1> HIDE DEF fits
<1>3. 0 \in fitting
  BY <1>1, <1>2
<1>4. most \in fitting /\ \A m \in fitting : m <= most
  <2>1. \E n \in fitting : \A m \in fitting : m <= n
    <3>1. fitting \in SUBSET (0..Len(whole))
      OBVIOUS
    <3> HIDE DEF fitting
    <3> QED BY <1>1, <1>3, <3>1, Greatest
  <2> HIDE DEF fitting
  <2> QED BY <2>1
<1>5. Cut(whole, limit) = SubSeq(whole, 1, most)
  <2>1. fitting = {n \in 0..Len(whole) : Fits(Weight(SubSeq(whole, 1, n)), limit)}
    BY DEF Fits, fits
  <2>2. fitting # {}
    BY <1>3
  <2> QED BY <2>1, <2>2 DEF Cut
<1>6. most \in 0..Len(whole) /\ fits(most)
  BY <1>4
<1>7. most < Len(whole) => ~fits(most + 1)
  <2> SUFFICES ASSUME most < Len(whole), fits(most + 1) PROVE FALSE
    OBVIOUS
  <2>1. most + 1 \in fitting
    BY <1>1, <1>6
  <2>2. most + 1 <= most
    BY <1>4, <2>1
  <2> QED BY <1>6, <2>2
<1>10. most < Len(whole) => ~fits(Len(whole))
  <2> SUFFICES ASSUME most < Len(whole), fits(Len(whole)) PROVE FALSE
    OBVIOUS
  <2>1. Len(whole) \in fitting
    BY <1>1
  <2>2. Len(whole) <= most
    BY <1>4, <2>1
  <2> QED BY <1>1, <1>6, <2>2
<1> HIDE DEF most, fitting
<1>8. Len(SubSeq(whole, 1, most)) = most /\ SubSeq(whole, 1, most) \in Seq(Clean)
  BY <1>1, <1>6
<1>9. most < Len(whole) => Weight(SubSeq(whole, 1, most + 1)) > limit
  <2> SUFFICES ASSUME most < Len(whole) PROVE Weight(SubSeq(whole, 1, most + 1)) > limit
    OBVIOUS
  <2>1. ~(Weight(SubSeq(whole, 1, most + 1)) <= limit)
    BY <1>7 DEF fits
  <2>2. SubSeq(whole, 1, most + 1) \in Seq(Pieces)
    BY <1>1, <1>6
  <2>3. Weight(SubSeq(whole, 1, most + 1)) \in Nat
    BY <2>2, WeightType
  <2> QED BY <2>1, <2>3
<1>11. most < Len(whole) => Weight(whole) > limit
  <2> SUFFICES ASSUME most < Len(whole) PROVE Weight(whole) > limit
    OBVIOUS
  <2>1. SubSeq(whole, 1, Len(whole)) = whole
    BY <1>1
  <2>2. ~(Weight(whole) <= limit)
    BY <1>10, <2>1 DEF fits
  <2>3. Weight(whole) \in Nat
    BY <1>1, WeightType
  <2> QED BY <2>2, <2>3
<1> QED BY <1>5, <1>6, <1>8, <1>9, <1>11 DEF fits

\* What is cleaned has nothing left to clean.
LEMMA SanitizedIs ==
  ASSUME NEW output \in Seq(Pieces)
  PROVE  Sanitized(output) \in Seq(Clean)
<1> DEFINE kept == {k \in DOMAIN output :
                      /\ output[k] # "control"
                      /\ output[k] = "broken" => k = 1 \/ output[k - 1] # "broken"}
           n == Cardinality(kept)
           place(j) == CHOOSE k \in kept : Cardinality({i \in kept : i < k}) = j - 1
           piece(j) == IF output[place(j)] = "broken" THEN "mark" ELSE output[place(j)]
<1>1. /\ kept \in SUBSET Nat /\ IsFiniteSet(kept)
      /\ \A k \in kept : output[k] \in Pieces /\ output[k] # "control"
  <2>1. DOMAIN output = 1..Len(output) /\ Len(output) \in Nat
    OBVIOUS
  <2>2. IsFiniteSet(1..Len(output))
    <3>1. Len(output) \in Int /\ 1 \in Int
      BY <2>1
    <3> QED BY ONLY <3>1, FS_Interval
  <2>3. kept \subseteq 1..Len(output)
    BY <2>1
  <2>4. \A k \in kept : output[k] \in Pieces /\ output[k] # "control"
    BY <2>1
  <2> HIDE DEF kept
  <2>5. IsFiniteSet(kept)
    BY <2>2, <2>3, FS_Subset
  <2>6. kept \in SUBSET Nat
    BY <2>1, <2>3
  <2> QED BY <2>4, <2>5, <2>6
<1>2. Sanitized(output) = [j \in 1..n |-> piece(j)]
  BY DEF Sanitized
<1> HIDE DEF kept
<1>3. n \in Nat /\ \A j \in 1..n : place(j) \in kept
  <2>1. n \in Nat
    BY <1>1, FS_CardinalityType
  <2>2. \A j \in 1..n : Ascending(kept)[j] \in kept
    BY <1>1, AscendingIs
  <2>3. \A j \in 1..n : Ascending(kept)[j] = place(j)
    BY DEF Ascending
  <2> QED BY <2>1, <2>2, <2>3
<1> HIDE DEF place, n
<1>4. ASSUME NEW j \in 1..n PROVE piece(j) \in Clean
  BY <1>1, <1>3 DEF Clean, Pieces
<1> HIDE DEF piece
<1> QED BY <1>2, <1>3, <1>4

\* What a view says of the output it is of, for the size it may have.
Tells(view, output, limit) ==
  LET whole == Sanitized(output)
      n == Len(view.output)
  IN  /\ view.output \in Seq(Clean) /\ whole \in Seq(Clean)
      /\ IsPrefix(view.output, whole)
      /\ view.truncated <=> view.output # whole
      /\ Weight(view.output) \in Nat /\ Weight(view.output) <= limit
      /\ n < Len(whole) => Weight(SubSeq(whole, 1, n + 1)) > limit

LEMMA ViewTells ==
  ASSUME NEW output \in Seq(Pieces), NEW limit \in Nat
  PROVE  Tells(View(output, limit), output, limit)
<1> DEFINE whole == Sanitized(output)
           view == View(output, limit)
<1>1. whole \in Seq(Clean)
  BY SanitizedIs
<1>2. view.output = Cut(whole, limit) /\ view.truncated = (Weight(whole) > limit)
  BY DEF View, Truncated
<1> HIDE DEF view, whole
<1>3. PICK n \in 0..Len(whole) :
        /\ Cut(whole, limit) = SubSeq(whole, 1, n)
        /\ Len(Cut(whole, limit)) = n /\ Cut(whole, limit) \in Seq(Clean)
        /\ Weight(SubSeq(whole, 1, n)) <= limit
        /\ n < Len(whole) => Weight(SubSeq(whole, 1, n + 1)) > limit
        /\ n < Len(whole) => Weight(whole) > limit
  BY <1>1, CutIs
<1>4. view.output \in Seq(Clean) /\ view.output = SubSeq(whole, 1, n) /\ Len(view.output) = n
  BY <1>2, <1>3
<1>5. Clean \subseteq Pieces /\ Len(whole) \in Nat
  BY <1>1 DEF Clean
<1>6. Weight(view.output) \in Nat /\ Weight(whole) \in Nat
  <2>1. view.output \in Seq(Pieces) /\ whole \in Seq(Pieces)
    BY <1>1, <1>4, <1>5, AmongMore
  <2> QED BY <2>1, WeightType
<1>7. IsPrefix(view.output, whole)
  BY <1>1, <1>4, <1>5 DEF IsPrefix
<1>8. n = Len(whole) <=> view.output = whole
  BY <1>1, <1>4, <1>5
<1>9. Weight(whole) > limit <=> n # Len(whole)
  <2>1. SubSeq(whole, 1, Len(whole)) = whole
    BY <1>1
  <2>2. CASE n = Len(whole)
    <3>1. Weight(whole) <= limit
      BY <1>3, <2>1, <2>2
    <3> QED BY <1>6, <2>2, <3>1
  <2>3. CASE n # Len(whole)
    <3>1. n < Len(whole)
      BY <1>5, <2>3
    <3> QED BY <1>3, <2>3, <3>1
  <2> QED BY <2>2, <2>3
<1>10. view.truncated <=> view.output # whole
  BY <1>2, <1>8, <1>9, Zenon
<1>11. /\ Weight(view.output) <= limit
       /\ Len(view.output) < Len(whole) =>
            Weight(SubSeq(whole, 1, Len(view.output) + 1)) > limit
  BY <1>3, <1>4
<1> QED BY <1>1, <1>4, <1>6, <1>7, <1>10, <1>11 DEF Tells, view, whole

\* Whatever takes such steps has such values.
LEMMA StepsNat ==
  ASSUME NEW n \in Nat, NEW step \in [1..n -> [Nat -> Nat]], NEW g, g[0] \in Nat,
         \A k \in 1..n : g[k - 1] \in Nat => g[k] = step[k][g[k - 1]]
  PROVE  \A k \in 0..n : g[k] \in Nat
<1> DEFINE S == {m \in Nat : m <= n => g[m] \in Nat}
<1>1. 0 \in S
  OBVIOUS
<1>2. ASSUME NEW m \in Nat, m \in S PROVE m + 1 \in S
  <2> SUFFICES ASSUME m + 1 <= n PROVE g[m + 1] \in Nat
    OBVIOUS
  <2>1. m + 1 \in 1..n /\ (m + 1) - 1 = m /\ g[m] \in Nat
    BY <1>2
  <2>2. g[m + 1] = step[m + 1][g[m]]
    BY <2>1
  <2>3. step[m + 1] \in [Nat -> Nat]
    BY <2>1
  <2> QED BY <2>1, <2>2, <2>3
<1>3. Nat \subseteq S
  <2> HIDE DEF S
  <2> QED BY <1>1, <1>2, Induction
<1> QED BY <1>3

\* The recursions of Envelope and Used.
Limit(size, left) == IF size < left THEN size ELSE left

Remains(g, outputs, size) ==
  g = [k \in 0..Len(outputs) |->
        IF k = 0 THEN TotalShown
        ELSE Left(g[k - 1], View(outputs[k], Limit(size, g[k - 1])).output)]

Uses(g, views) ==
  g = [k \in 0..Len(views) |-> IF k = 0 THEN 0 ELSE g[k - 1] + Weight(views[k].output)]

\* What is left is never less than what the next view takes of it.
LEMMA EnvelopeLeaves ==
  ASSUME NEW outputs \in Seq(Seq(Pieces)), NEW size \in Nat
  PROVE  \E left :
           /\ \A k \in 0..Len(outputs) : left[k] \in Nat
           /\ left[0] = TotalShown
           /\ \A k \in 1..Len(outputs) :
                /\ Envelope(outputs, size)[k] = View(outputs[k], Limit(size, left[k - 1]))
                /\ left[k] = left[k - 1] - Weight(Envelope(outputs, size)[k].output)
           /\ DOMAIN Envelope(outputs, size) = 1..Len(outputs)
<1> DEFINE n == Len(outputs)
           left == CHOOSE g : Remains(g, outputs, size)
           taken(k, x) == View(outputs[k], Limit(size, x)).output
           step == [k \in 1..n |-> [x \in Nat |-> Left(x, taken(k, x))]]
<1>1. n \in Nat /\ TotalShown \in Nat /\ \A k \in 1..n : outputs[k] \in Seq(Pieces)
  BY ViewAssumption
<1>2. ASSUME NEW k \in 1..n, NEW x \in Nat PROVE Left(x, taken(k, x)) \in Nat
  <2> DEFINE l == Limit(size, x)
  <2>1. l \in Nat /\ l <= x
    BY DEF Limit
  <2> HIDE DEF l
  <2>2. Tells(View(outputs[k], l), outputs[k], l)
    BY <1>1, <2>1, ViewTells
  <2>3. Weight(taken(k, x)) \in Nat /\ Weight(taken(k, x)) <= l
    BY <2>2 DEF Tells, l
  <2> HIDE DEF taken
  <2> QED BY <2>1, <2>3 DEF Left
<1> HIDE DEF taken, n
<1>3. step \in [1..n -> [Nat -> Nat]]
  BY <1>2
<1>4. \A k \in 1..n, x \in Nat : step[k][x] = Left(x, taken(k, x))
  OBVIOUS
<1> HIDE DEF step
<1>5. \E g : Remains(g, outputs, size)
  <2>1. PICK f : Steps(f, TotalShown, step, n)
    BY <1>1, <1>3, StepsExist
  <2>2. f \in [0..n -> Nat] /\ f[0] = TotalShown /\ \A k \in 1..n : f[k] = step[k][f[k - 1]]
    BY <2>1 DEF Steps
  <2>3. ASSUME NEW k \in 0..n
        PROVE  f[k] = IF k = 0 THEN TotalShown ELSE Left(f[k - 1], taken(k, f[k - 1]))
    <3>1. CASE k = 0
      BY <2>2, <3>1
    <3>2. CASE k # 0
      <4>1. k \in 1..n /\ k - 1 \in 0..n
        BY <1>1, <3>2
      <4>2. f[k - 1] \in Nat /\ f[k] = step[k][f[k - 1]]
        BY <2>2, <4>1
      <4> QED BY <1>4, <3>2, <4>1, <4>2
    <3> QED BY <3>1, <3>2
  <2>4. f = [k \in 0..n |-> IF k = 0 THEN TotalShown ELSE Left(f[k - 1], taken(k, f[k - 1]))]
    BY <2>2, <2>3
  <2>5. Remains(f, outputs, size)
    BY <2>4 DEF Remains, taken, n
  <2> QED BY <2>5
<1>6. Remains(left, outputs, size)
  BY <1>5
<1>7. Envelope(outputs, size) = [k \in 1..n |-> View(outputs[k], Limit(size, left[k - 1]))]
  BY DEF Envelope, Limit, Remains, n
<1> HIDE DEF left
<1>8. /\ left[0] = TotalShown
      /\ \A k \in 1..n : left[k] = Left(left[k - 1], taken(k, left[k - 1]))
  <2>1. \A k \in 0..n : left[k] =
          IF k = 0 THEN TotalShown ELSE Left(left[k - 1], taken(k, left[k - 1]))
    <3>1. left = [k \in 0..n |->
                   IF k = 0 THEN TotalShown ELSE Left(left[k - 1], taken(k, left[k - 1]))]
      BY <1>6 DEF Remains, taken, n
    <3> QED BY <3>1
  <2>2. 0 \in 0..n /\ \A k \in 1..n : k \in 0..n /\ k # 0
    BY <1>1
  <2> QED BY <2>1, <2>2
<1>9. \A k \in 0..n : left[k] \in Nat
  <2>1. \A k \in 1..n : left[k - 1] \in Nat => left[k] = step[k][left[k - 1]]
    BY <1>4, <1>8
  <2>2. left[0] \in Nat
    BY <1>1, <1>8
  <2> QED BY <1>1, <1>3, <2>1, <2>2, StepsNat
<1>10. ASSUME NEW k \in 1..n
       PROVE  /\ Envelope(outputs, size)[k] = View(outputs[k], Limit(size, left[k - 1]))
              /\ left[k] = left[k - 1] - Weight(Envelope(outputs, size)[k].output)
  <2>1. Envelope(outputs, size)[k] = View(outputs[k], Limit(size, left[k - 1]))
    BY <1>7
  <2>2. taken(k, left[k - 1]) = Envelope(outputs, size)[k].output
    BY <2>1 DEF taken
  <2> QED BY <1>8, <2>1, <2>2 DEF Left
<1>11. DOMAIN Envelope(outputs, size) = 1..n
  BY <1>7
<1> QED BY <1>8, <1>9, <1>10, <1>11 DEF n

\* The bytes of the views before the k-th, when each has as many as a number.
LEMMA UsedIs ==
  ASSUME NEW views, NEW n \in Nat, Len(views) = n,
         \A k \in 1..n : Weight(views[k].output) \in Nat
  PROVE  /\ Used(views)[0] = 0
         /\ \A k \in 1..n : /\ Used(views)[k] = Used(views)[k - 1] + Weight(views[k].output)
                            /\ Used(views)[k - 1] \in Nat
<1> DEFINE used == CHOOSE g : Uses(g, views)
           step == [k \in 1..n |-> [x \in Nat |-> x + Weight(views[k].output)]]
<1>1. step \in [1..n -> [Nat -> Nat]]
  OBVIOUS
<1>2. \A k \in 1..n, x \in Nat : step[k][x] = x + Weight(views[k].output)
  OBVIOUS
<1> HIDE DEF step
<1>3. \E g : Uses(g, views)
  <2>1. PICK f : Steps(f, 0, step, n)
    BY <1>1, StepsExist
  <2>2. f \in [0..n -> Nat] /\ f[0] = 0 /\ \A k \in 1..n : f[k] = step[k][f[k - 1]]
    BY <2>1 DEF Steps
  <2>3. ASSUME NEW k \in 0..n
        PROVE  f[k] = IF k = 0 THEN 0 ELSE f[k - 1] + Weight(views[k].output)
    <3>1. CASE k = 0
      BY <2>2, <3>1
    <3>2. CASE k # 0
      <4>1. k \in 1..n /\ k - 1 \in 0..n
        BY <3>2
      <4>2. f[k - 1] \in Nat /\ f[k] = step[k][f[k - 1]]
        BY <2>2, <4>1
      <4> QED BY <1>2, <3>2, <4>1, <4>2
    <3> QED BY <3>1, <3>2
  <2>4. f = [k \in 0..n |-> IF k = 0 THEN 0 ELSE f[k - 1] + Weight(views[k].output)]
    BY <2>2, <2>3
  <2> QED BY <2>4 DEF Uses
<1>4. Uses(used, views)
  BY <1>3
<1>5. Used(views) = used
  BY DEF Used, Uses
<1> HIDE DEF used
<1>6. /\ used[0] = 0
      /\ \A k \in 1..n : used[k] = used[k - 1] + Weight(views[k].output)
  <2>1. \A k \in 0..n : used[k] = IF k = 0 THEN 0 ELSE used[k - 1] + Weight(views[k].output)
    <3>1. used = [k \in 0..n |-> IF k = 0 THEN 0 ELSE used[k - 1] + Weight(views[k].output)]
      BY <1>4 DEF Uses
    <3> QED BY <3>1
  <2>2. 0 \in 0..n /\ \A k \in 1..n : k \in 0..n /\ k # 0
    OBVIOUS
  <2> QED BY <2>1, <2>2
<1>7. \A k \in 0..n : used[k] \in Nat
  <2>1. \A k \in 1..n : used[k - 1] \in Nat => used[k] = step[k][used[k - 1]]
    BY <1>2, <1>6
  <2>2. used[0] \in Nat
    BY <1>6
  <2> QED BY <1>1, <2>1, <2>2, StepsNat
<1>8. \A k \in 1..n : k - 1 \in 0..n
  OBVIOUS
<1> QED BY <1>5, <1>6, <1>7, <1>8

\* What was used and what is left are the total.
LEMMA UsedAndLeft ==
  ASSUME NEW outputs \in Seq(Seq(Pieces)), NEW size \in Nat
  PROVE  LET views == Envelope(outputs, size)
         IN  /\ DOMAIN views = 1..Len(outputs) /\ Len(views) = Len(outputs)
             /\ Used(views)[Len(views)] <= TotalShown
             /\ \A k \in 1..Len(outputs) :
                  \E left \in Nat :
                    /\ Used(views)[k - 1] = TotalShown - left
                    /\ Tells(views[k], outputs[k], Limit(size, left))
<1> DEFINE views == Envelope(outputs, size)
           n == Len(outputs)
<1>1. PICK left :
        /\ \A k \in 0..n : left[k] \in Nat
        /\ left[0] = TotalShown
        /\ \A k \in 1..n : /\ views[k] = View(outputs[k], Limit(size, left[k - 1]))
                           /\ left[k] = left[k - 1] - Weight(views[k].output)
        /\ DOMAIN views = 1..n
  BY EnvelopeLeaves
<1>2. n \in Nat /\ TotalShown \in Nat /\ \A k \in 1..n : outputs[k] \in Seq(Pieces)
  BY ViewAssumption
<1>3. Len(views) = n
  <2> HIDE DEF views, n
  <2>1. views = [k \in 1..n |-> View(outputs[k], Limit(size, (CHOOSE g : Remains(g, outputs, size))[k - 1]))]
    BY DEF Envelope, Limit, Remains, n, views
  <2> QED BY <1>2, <2>1
<1> HIDE DEF views, n
<1>4. ASSUME NEW k \in 1..n
      PROVE  left[k - 1] \in Nat /\ Tells(views[k], outputs[k], Limit(size, left[k - 1]))
  <2>1. left[k - 1] \in Nat
    BY <1>1, <1>2
  <2>2. Limit(size, left[k - 1]) \in Nat
    BY <2>1 DEF Limit
  <2> QED BY <1>1, <1>2, <2>1, <2>2, ViewTells
<1>5. \A k \in 1..n : Weight(views[k].output) \in Nat
  BY <1>4 DEF Tells
<1>6. /\ Used(views)[0] = 0
      /\ \A k \in 1..n : /\ Used(views)[k] = Used(views)[k - 1] + Weight(views[k].output)
                         /\ Used(views)[k - 1] \in Nat
  BY <1>2, <1>3, <1>5, UsedIs
<1> DEFINE u(k) == Used(views)[k]
           S == {k \in Nat : k <= n => u(k) = TotalShown - left[k]}
<1>7. Nat \subseteq S
  <2>1. 0 \in S
    BY <1>1, <1>2, <1>6
  <2>2. ASSUME NEW k \in Nat, k \in S PROVE k + 1 \in S
    <3> SUFFICES ASSUME k + 1 <= n PROVE u(k + 1) = TotalShown - left[k + 1]
      OBVIOUS
    <3>1. k + 1 \in 1..n /\ (k + 1) - 1 = k /\ k \in 0..n /\ u(k) = TotalShown - left[k]
      BY <1>2, <2>2
    <3>2. /\ u(k + 1) = u(k) + Weight(views[k + 1].output) /\ left[k] \in Nat
          /\ left[k + 1] = left[k] - Weight(views[k + 1].output)
          /\ Weight(views[k + 1].output) \in Nat
      BY <1>1, <1>5, <1>6, <3>1
    <3> HIDE DEF u
    <3> QED BY <1>2, <3>1, <3>2
  <2> HIDE DEF S
  <2> QED BY <2>1, <2>2, Induction
<1>8. \A k \in 0..n : u(k) = TotalShown - left[k]
  BY <1>2, <1>7
<1>9. Used(views)[Len(views)] <= TotalShown
  <2>1. n \in 0..n
    BY <1>2
  <2>2. left[n] \in Nat /\ u(n) = TotalShown - left[n]
    BY <1>1, <1>8, <2>1
  <2> HIDE DEF u
  <2>3. u(n) <= TotalShown
    BY <1>2, <2>2
  <2> QED BY <1>3, <2>3 DEF u
<1>10. ASSUME NEW k \in 1..n
       PROVE  /\ left[k - 1] \in Nat /\ Used(views)[k - 1] = TotalShown - left[k - 1]
              /\ Tells(views[k], outputs[k], Limit(size, left[k - 1]))
  <2>1. k - 1 \in 0..n
    BY <1>2
  <2> QED BY <1>4, <1>8, <2>1
<1> QED BY <1>1, <1>3, <1>9, <1>10 DEF views, n

\* The last answer is what the broker makes of the results it had.
ViewOK ==
  /\ results \in Seq(Outputs) /\ Len(results) <= MaxResults
  /\ shown \in [of : Seq(Outputs), size : (LeastAsked..MostAsked) \cup {0},
                views : {Envelope(shown.of, shown.size)}]

LEMMA EnvelopeType ==
  ASSUME NEW outputs \in Seq(Outputs), NEW size \in Nat
  PROVE  /\ outputs \in Seq(Seq(Pieces))
         /\ DOMAIN Envelope(outputs, size) = DOMAIN outputs
<1>1. outputs \in Seq(Seq(Pieces))
  BY ViewAssumption, AmongMore
<1> QED BY <1>1, UsedAndLeft

LEMMA ViewStepOK == ViewOK /\ [ViewNext]_viewVars => ViewOK'
<1> SUFFICES ASSUME ViewOK, [ViewNext]_viewVars PROVE ViewOK'
  OBVIOUS
<1>1. ASSUME NEW output \in Outputs, ResultArrives(output) PROVE ViewOK'
  <2>1. /\ results' = Append(results, output) /\ UNCHANGED shown
        /\ results \in Seq(Outputs) /\ Len(results) < MaxResults
    BY <1>1 DEF ResultArrives, ViewOK
  <2>2. results' \in Seq(Outputs) /\ Len(results') = Len(results) + 1
    BY <2>1
  <2>3. Len(results') <= MaxResults
    BY <2>1, <2>2, ViewAssumption
  <2> QED BY <2>1, <2>2, <2>3 DEF ViewOK
<1>2. ASSUME NEW asked \in Asked, NEW consume \in BOOLEAN, ShowResults(asked, consume)
      PROVE  ViewOK'
  <2>1. shown' = [of |-> results, size |-> SizeFor(asked), views |-> Envelope(results, SizeFor(asked))]
    BY <1>2 DEF ShowResults
  <2>2. SizeFor(asked) \in LeastAsked..MostAsked
    BY ViewAssumption DEF SizeFor
  <2>3. results \in Seq(Outputs) /\ Len(results) <= MaxResults
    BY DEF ViewOK
  <2>4. shown'.of = results /\ shown'.size = SizeFor(asked)
    BY <2>1
  <2>5. results' = results \/ results' = <<>>
    BY <1>2 DEF ShowResults
  <2>6. results' \in Seq(Outputs) /\ Len(results') <= MaxResults
    <3>1. CASE results' = <<>>
      BY <3>1, ViewAssumption
    <3> QED BY <2>3, <2>5, <3>1
  <2> QED BY <2>1, <2>2, <2>3, <2>4, <2>6 DEF ViewOK
<1>3. CASE UNCHANGED viewVars
  BY <1>3 DEF viewVars, ViewOK
<1> QED BY <1>1, <1>2, <1>3 DEF ViewNext

LEMMA ViewInitOK == ViewInit => ViewOK
<1> SUFFICES ASSUME ViewInit PROVE ViewOK
  OBVIOUS
<1>1. results = <<>> /\ shown = [of |-> <<>>, size |-> 0, views |-> <<>>]
  BY DEF ViewInit, NothingShown
<1>2. Envelope(<<>>, 0) = <<>>
  BY DEF Envelope
<1> QED BY <1>1, <1>2, ViewAssumption DEF ViewOK

LEMMA ViewExact == ViewOK => ViewIsExact /\ ViewTypeOK
<1> SUFFICES ASSUME ViewOK PROVE ViewIsExact /\ ViewTypeOK
  OBVIOUS
<1> DEFINE outputs == shown.of
           size == shown.size
           views == shown.views
           n == Len(outputs)
<1>1. /\ outputs \in Seq(Outputs) /\ size \in (LeastAsked..MostAsked) \cup {0}
      /\ size \in Nat /\ views = Envelope(outputs, size)
      /\ results \in Seq(Outputs) /\ Len(results) <= MaxResults
  BY ViewAssumption DEF ViewOK
<1> HIDE DEF outputs, size, views
<1>2. DOMAIN views = DOMAIN outputs /\ outputs \in Seq(Seq(Pieces))
  BY <1>1, EnvelopeType
<1>3. ViewTypeOK
  BY <1>1, <1>2 DEF ViewTypeOK, outputs, size, views
<1>4. /\ DOMAIN views = 1..n /\ Len(views) = n /\ Used(views)[Len(views)] <= TotalShown
      /\ \A k \in 1..n : \E left \in Nat :
           /\ Used(views)[k - 1] = TotalShown - left
           /\ Tells(views[k], outputs[k], Limit(size, left))
  BY <1>1, <1>2, UsedAndLeft
<1>5. ASSUME NEW k \in 1..n
      PROVE  LET whole == Sanitized(outputs[k])
                 view == views[k]
                 m == Len(view.output)
             IN  /\ Weight(view.output) <= size
                 /\ IsPrefix(view.output, whole)
                 /\ view.truncated <=> view.output # whole
                 /\ \A j \in DOMAIN view.output : view.output[j] \in Pieces \ {"control", "broken"}
                 /\ m < Len(whole) =>
                      \/ Weight(SubSeq(whole, 1, m + 1)) > size
                      \/ Used(views)[k - 1] + Weight(SubSeq(whole, 1, m + 1)) > TotalShown
  <2> DEFINE whole == Sanitized(outputs[k])
             view == views[k]
             m == Len(view.output)
  <2>1. PICK left \in Nat :
          /\ Used(views)[k - 1] = TotalShown - left
          /\ Tells(view, outputs[k], Limit(size, left))
    BY <1>4
  <2>2. /\ view.output \in Seq(Clean) /\ whole \in Seq(Clean)
        /\ IsPrefix(view.output, whole)
        /\ view.truncated <=> view.output # whole
        /\ Weight(view.output) \in Nat /\ Weight(view.output) <= Limit(size, left)
        /\ m < Len(whole) => Weight(SubSeq(whole, 1, m + 1)) > Limit(size, left)
    BY <2>1 DEF Tells
  <2> HIDE DEF whole, view
  <2>3. Weight(view.output) <= size
    BY <1>1, <2>2 DEF Limit
  <2>4. \A j \in DOMAIN view.output : view.output[j] \in Clean
    BY <2>2
  <2>5. ASSUME m < Len(whole)
        PROVE  \/ Weight(SubSeq(whole, 1, m + 1)) > size
               \/ Used(views)[k - 1] + Weight(SubSeq(whole, 1, m + 1)) > TotalShown
    <3> DEFINE w == Weight(SubSeq(whole, 1, m + 1))
    <3>1. SubSeq(whole, 1, m + 1) \in Seq(Clean)
      BY <2>2, <2>5
    <3>2. SubSeq(whole, 1, m + 1) \in Seq(Pieces)
      <4>1. Clean \subseteq Pieces
        BY DEF Clean
      <4> QED BY <3>1, <4>1, AmongMore
    <3>3. w \in Nat /\ w > Limit(size, left)
      BY <2>2, <2>5, <3>2, WeightType
    <3> HIDE DEF w
    <3>4. w > size \/ w > left
      BY <1>1, <2>1, <3>3 DEF Limit
    <3>5. w > left => (TotalShown - left) + w > TotalShown
      BY <2>1, <3>3, ViewAssumption
    <3> QED BY <2>1, <3>4, <3>5 DEF w
  <2> QED BY <2>2, <2>3, <2>4, <2>5 DEF whole, view, Clean
<1>6. ViewBounded
  BY <1>4, <1>5 DEF ViewBounded, views, size
<1>7. CutIsTold
  BY <1>4, <1>5 DEF CutIsTold, views, outputs
<1>8. CutIsNeeded
  BY <1>4, <1>5 DEF CutIsNeeded, views, outputs, size
<1> QED BY <1>3, <1>6, <1>7, <1>8 DEF ViewIsExact

\* The views are as much of the outputs as the two limits allow, and say so,
\* whatever commands wrote, however many results wait and whatever size is asked
\* for (agentResultEnvelope, truncateUTF8, sanitizeGuestText).
THEOREM ViewCorrect == TasksSpec => []ViewIsExact
<1>1. TasksInit => ViewOK
  BY ViewInitOK DEF TasksInit
<1>2. ViewOK /\ [TasksNext]_tasksVars => ViewOK'
  BY TasksStep, ViewStepOK
<1> QED BY <1>1, <1>2, ViewExact, PTL DEF TasksSpec

-----------------------------------------------------------------------------
(* Types.                                                                  *)

\* What the bounds of the model allow.
ListingBounds ==
  /\ past.changes \in 0..MaxChanges /\ lister.filter \in {Items, Matching}
  /\ lister.limit \in Limits \cup {0} /\ lister.offset <= Cardinality(Items)

DownloadBounds ==
  /\ edits.count \in 0..MaxEdits /\ download.chunk \in Chunks \cup {0}
  /\ chunk.inode \in 0..Len(inodes)

\* A page never leads behind the last item.
LEMMA AnswerOffset ==
  ASSUME ListingOK, NEW found \in Seq(Items), Range(found) = Snapshot, AnswerPage(found)
  PROVE  /\ UNCHANGED <<lister.filter, lister.limit>>
         /\ lister'.offset <= Cardinality(Items)
<1> DEFINE limit == EffectiveLimit(lister.limit)
           offset == lister.offset
           S == Snapshot
           page == Page(Ascending(S), offset, limit)
           next == page.offset + Len(page.items)
<1>1. /\ S \in SUBSET Nat /\ S \subseteq Items /\ IsFiniteSet(S)
      /\ offset \in Nat /\ limit \in Nat /\ ListingTypes
  BY SnapshotType, ListingAssumption DEF ListingOK, ListingTypes, EffectiveLimit
<1>2. /\ lister' = [lister EXCEPT !.seen = @ \o page.items, !.offset = next,
                                  !.state = IF page.hasMore THEN "paging" ELSE "ended"]
  BY DEF AnswerPage, Arranged
<1>3. Takes(S, offset, page, next)
  <2>1. page = Page(Ascending(S), offset, limit) /\ next = page.offset + Len(page.items)
    OBVIOUS
  <2> HIDE DEF S, offset, page, next, limit
  <2> QED BY <1>1, <2>1, PageTakes
<1> HIDE DEF page, next, S
<1>4. next \in Nat /\ next <= Cardinality(S)
  BY <1>3 DEF Takes
<1>5. Cardinality(S) <= Cardinality(Items) /\ Cardinality(S) \in Nat /\ Cardinality(Items) \in Nat
  BY <1>1, ListingAssumption, FS_Subset, FS_CardinalityType
<1>6. lister'.offset = next /\ lister'.filter = lister.filter /\ lister'.limit = lister.limit
  BY <1>1, <1>2 DEF ListingTypes
<1> QED BY <1>4, <1>5, <1>6

LEMMA ListingBoundsKept ==
  ListingOK /\ ListingBounds /\ [ListingNext]_listingVars => ListingBounds'
<1> SUFFICES ASSUME ListingOK, ListingBounds, [ListingNext]_listingVars PROVE ListingBounds'
  OBVIOUS
<1> USE DEF ListingBounds
<1>1. ASSUME NEW found \in Seq(Items), Range(found) = Snapshot, AnswerPage(found), past' = past
      PROVE  ListingBounds'
  BY <1>1, AnswerOffset
<1>2. ASSUME RefusePage, past' = past PROVE ListingBounds'
  BY <1>2 DEF RefusePage, ListingOK, ListingTypes
<1>3. CASE AskPage \/ Info \/ UNCHANGED listingVars
  BY <1>3 DEF AskPage, Info, listingVars
<1>4. CASE ReadDir
  BY <1>2, <1>4 DEF ReadDir
<1>5. CASE ListFiles
  <2>1. Range(lookup.names) = {}
    BY <1>5 DEF ListFiles, Range
  <2>2. lookup.found \in Seq(Items) /\ Range(lookup.found) = Snapshot
    BY <1>5, <2>1 DEF ListFiles, Snapshot, ListingOK, ListingTypes
  <2> QED BY <1>1, <1>5, <2>2 DEF ListFiles
<1>6. CASE Collect
  <2>1. CASE RefusePage
    BY <1>2, <1>6, <2>1 DEF Collect
  <2>2. ASSUME NEW matches \in SetToSeqs(present \cap lister.filter), AnswerPage(matches)
        PROVE  ListingBounds'
    <3> DEFINE T == present \cap lister.filter
    <3>1. T = Snapshot /\ T \subseteq Items /\ IsFiniteSet(T)
      BY <1>6, ListingAssumption, FS_Subset DEF Collect, Snapshot, ListingOK, ListingTypes
    <3> HIDE DEF T
    <3>2. matches \in Seq(T) /\ Range(matches) = T
      BY <3>1, SeqOfSet DEF T
    <3>3. matches \in Seq(Items)
      BY <3>1, <3>2, AmongMore
    <3> QED BY <1>1, <1>6, <2>2, <3>1, <3>2, <3>3 DEF Collect
  <2> QED BY <1>6, <2>1, <2>2 DEF Collect
<1>7. ASSUME NEW i \in Items, Appear(i) \/ Vanish(i) PROVE ListingBounds'
  <2>1. past'.changes = past.changes + 1 /\ past.changes < MaxChanges /\ UNCHANGED lister
    BY <1>7 DEF Appear, Vanish, ListingOK, ListingTypes
  <2>2. past'.changes \in 0..MaxChanges
    BY <2>1, ListingAssumption
  <2> QED BY <2>1, <2>2
<1> QED BY <1>3, <1>4, <1>5, <1>6, <1>7 DEF ListingNext, ListingStep

LEMMA DownloadBoundsKept ==
  DownloadOK /\ DownloadBounds /\ [DownloadNext]_downloadVars => DownloadBounds'
<1> SUFFICES ASSUME DownloadOK, DownloadBounds, [DownloadNext]_downloadVars PROVE DownloadBounds'
  OBVIOUS
<1> USE DEF DownloadBounds
<1>0. DownloadTypes /\ Len(inodes) \in Nat \ {0}
  BY FileType DEF DownloadOK
<1>1. ASSUME UNCHANGED <<inodes, edits>>, chunk' = NoChunk \/ chunk'.inode = 0,
             download'.chunk = download.chunk
      PROVE  DownloadBounds'
  BY <1>0, <1>1 DEF NoChunk
<1>2. CASE AskChunk
  BY <1>1, <1>2 DEF AskChunk, NoChunk
<1>3. CASE ReadFile
  <2>1. download'.chunk = download.chunk
    BY <1>0, <1>3 DEF ReadFile, ReadAll, DownloadTypes
  <2> QED BY <1>1, <1>3, <2>1 DEF ReadFile
<1>4. CASE OpenChunk
  <2>1. CASE download' = [download EXCEPT !.state = "refused"] /\ chunk' = NoChunk
    <3>1. download'.chunk = download.chunk
      BY <1>0, <2>1 DEF DownloadTypes
    <3> QED BY <1>1, <1>4, <2>1, <3>1 DEF OpenChunk
  <2>2. CASE /\ chunk' = [pc |-> "opened", inode |-> Len(inodes), size |-> Len(File)]
             /\ UNCHANGED download
    BY <1>0, <1>4, <2>2 DEF OpenChunk
  <2> QED BY <1>4, <2>1, <2>2 DEF OpenChunk
<1>5. CASE ReadChunk
  <2>1. download'.chunk = download.chunk
    BY <1>0, <1>5 DEF ReadChunk, DownloadTypes
  <2> QED BY <1>1, <1>5, <2>1 DEF ReadChunk
<1>6. CASE Edit
  <2>1. edits'.count = edits.count + 1 /\ edits.count < MaxEdits /\ UNCHANGED <<download, chunk>>
    BY <1>6 DEF Edit, Edited
  <2>2. Len(inodes) <= Len(inodes') /\ Len(inodes') \in Nat
    BY <1>0, <1>6 DEF Edit, DownloadTypes
  <2>3. edits'.count \in 0..MaxEdits
    BY <2>1, DownloadAssumption
  <2> QED BY <1>0, <2>1, <2>2, <2>3
<1>7. CASE UNCHANGED downloadVars
  BY <1>7 DEF downloadVars
<1> QED BY <1>2, <1>3, <1>4, <1>5, <1>6, <1>7 DEF DownloadNext, DownloadStep

\* Pages, chunks, results and views keep their types: an agent's offset never
\* leads behind the last item, a chunk is of a file that had the name, an output
\* is kept within its buffer and every result that was taken has its view.
THEOREM TasksTypeCorrect == TasksSpec => []TasksTypeOK
<1> DEFINE All == /\ ListingOK /\ ListingBounds /\ DownloadOK /\ DownloadBounds
                  /\ RunOK /\ ViewOK /\ IInv
<1>1. TasksInit => All
  <2> SUFFICES ASSUME TasksInit PROVE All
    OBVIOUS
  <2>1. ListingBounds
    <3>1. Cardinality(Items) \in Nat
      BY ListingAssumption, FS_CardinalityType
    <3> QED BY <3>1, ListingAssumption DEF TasksInit, ListingInit, ListingRests, ListingBounds
  <2>2. DownloadBounds
    <3>1. /\ edits.count = 0 /\ chunk = NoChunk
          /\ download.chunk \in Chunks \cup {0}
      BY DEF TasksInit, DownloadInit, DownloadRests
    <3>2. Len(inodes) = 1
      BY DEF TasksInit, DownloadInit, DownloadRests
    <3> QED BY <3>1, <3>2, DownloadAssumption DEF DownloadBounds, NoChunk
  <2>3. RunOK
    BY OneShotAssumption DEF TasksInit, OneShotInit, RunOK, OneShotTypeOK, NoReply
  <2> QED BY <2>1, <2>2, <2>3, ListingInitOK, DownloadInitOK, ViewInitOK, InitIInv DEF TasksInit
<1>2. All /\ [TasksNext]_tasksVars => All'
  BY TasksStep, ListingStepOK, ListingBoundsKept, DownloadStepOK, DownloadBoundsKept,
     RunStep, ViewStepOK, StepIInv
<1>3. All => TasksTypeOK
  <2> SUFFICES ASSUME All PROVE TasksTypeOK
    OBVIOUS
  <2>1. ListingTypeOK
    <3>1. Cardinality(Items) \in Nat
      BY ListingAssumption, FS_CardinalityType
    <3>2. lister.offset \in 0..Cardinality(Items)
      BY <3>1 DEF ListingOK, ListingTypes, ListingBounds
    <3> QED BY <3>2 DEF ListingOK, ListingTypes, ListingBounds, ListingTypeOK
  <2>2. DownloadTypeOK
    BY DEF DownloadOK, DownloadTypes, DownloadBounds, DownloadTypeOK
  <2>3. OneShotTypeOK /\ ViewTypeOK /\ TypeOK
    BY ViewExact DEF RunOK, IInv
  <2> QED BY <2>1, <2>2, <2>3 DEF TasksTypeOK
<1> QED BY <1>1, <1>2, <1>3, PTL DEF TasksSpec
===============================================================================
