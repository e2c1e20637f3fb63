---------------------------- MODULE ChunkedUpload ----------------------------
(***************************************************************************)
(* Uploads to one path of the guest machine: files.write-chunk, which      *)
(* collects chunks in PATH.openclaw-part and renames it, and files.write,  *)
(* which writes PATH itself.                                               *)
(*                                                                         *)
(* Chunks arrive as commands, in any order and any number of times, from   *)
(* more than one upload.  The client executes one command at a time; the   *)
(* disk may be full, the client may be stopped between two steps, and      *)
(* other programs of the guest use the same path.  Nobody but the          *)
(* client touches the part file.                                           *)
(***************************************************************************)
EXTENDS Naturals, Sequences

CONSTANTS
  Versions,     \* the files that operators upload to the path
  Other,        \* what another program writes
  NoFile,       \* the path does not exist
  Size,         \* blocks of each version
  MaxChunk,     \* blocks of a chunk, 1 << 20 bytes in the code
  MaxTransfer   \* blocks of an upload, 10 << 20 bytes in the code

\* Block i of a version.  A file is what is written one after another.
Block == (Versions \cup {Other}) \X Nat
Slice(v, from, n) == [i \in 1..n |-> <<v, from + i>>]
Whole(v) == Slice(v, 0, Size[v])
Foreign == <<<<Other, 1>>>>

ASSUME UploadAssumption ==
  /\ Size \in [Versions -> Nat]
  /\ {MaxChunk, MaxTransfer} \subseteq Nat
  /\ Other \notin Versions
  /\ NoFile \notin Seq(Block)

VARIABLES
  part,      \* PATH.openclaw-part
  target,    \* PATH
  call,      \* the command the client executes, at its next step
  last,      \* history: the latest answer
  replaced  \* history: the files that commands have replaced

vars == <<part, target, call, last, replaced>>

Idle == [op |-> "idle"]
Refused == [op |-> "refused"]
Contents(file) == IF file = NoFile THEN <<>> ELSE file

Init ==
  /\ part = NoFile
  /\ target = NoFile
  /\ call = Idle
  /\ last = Refused
  /\ replaced = {}

Answer(answer) ==
  /\ last' = answer
  /\ call' = Idle

-----------------------------------------------------------------------------
(* files.write-chunk.                                                      *)

\* Whose whole-file SHA-256 is expected; NoFile for none.
Hashes == Versions \cup {NoFile}

\* Fault: only the chunk is compared with the limit.
WithinChunk(offset, length) == length <= MaxChunk

\* The check of a chunk's size and of the size of the whole.
Within(offset, length) ==
  /\ length <= MaxChunk
  /\ offset + length <= MaxTransfer

\* Fault: chunks are appended, whatever their offset.
OpenAppends(v, offset, length, final, expected) ==
  /\ call = Idle
  /\ Within(offset, length)
  /\ part' = IF offset = 0 THEN <<>> ELSE Contents(part)
  /\ call' = [op |-> "chunk", data |-> Slice(v, offset, length),
              next |-> Len(part') + length, final |-> final, expected |-> expected]
  /\ UNCHANGED <<target, last, replaced>>

\* OpenFile creates the part file, and empties it for the first chunk; its size
\* must be the offset.  Oversized chunks and failures to open change nothing.
Open(v, offset, length, final, expected) ==
  /\ call = Idle
  /\ Within(offset, length)
  /\ part' = IF offset = 0 THEN <<>> ELSE Contents(part)
  /\ IF Len(part') = offset
     THEN /\ call' = [op |-> "chunk", data |-> Slice(v, offset, length),
                      next |-> offset + length, final |-> final, expected |-> expected]
          /\ UNCHANGED last
     ELSE Answer(Refused)
  /\ UNCHANGED <<target, replaced>>

\* Fault: the error of a short write is ignored.
WriteShort(n) ==
  /\ call.op = "chunk"
  /\ n <= Len(call.data)
  /\ part' = part \o SubSeq(call.data, 1, n)
  /\ Answer([op |-> "more", next |-> call.next])
  /\ UNCHANGED <<target, replaced>>

\* A full disk takes the first blocks of the chunk only; or all are written and
\* the close, the reading back or the client fails.
WriteFails(n) ==
  /\ call.op = "chunk"
  /\ n <= Len(call.data)
  /\ part' = part \o SubSeq(call.data, 1, n)
  /\ Answer(Refused)
  /\ UNCHANGED <<target, replaced>>

\* The write of a chunk that is not the last, or that is but expects no hash.
WriteMore ==
  /\ call.op = "chunk"
  /\ ~call.final \/ call.expected = NoFile
  /\ part' = part \o call.data
  /\ Answer(IF call.final THEN Refused ELSE [op |-> "more", next |-> call.next])
  /\ UNCHANGED <<target, replaced>>

\* Fault: the hash of the last chunk is compared.
WriteFinalUnhashed ==
  /\ call.op = "chunk"
  /\ call.final
  /\ call.expected # NoFile
  /\ part' = part \o call.data
  /\ call' = [op |-> "lstat", expected |-> call.expected]
  /\ UNCHANGED <<last, target, replaced>>

\* The write of the last chunk, and the hash of the whole file.  A file with
\* another hash is removed.
WriteFinal ==
  LET all == part \o call.data IN
  /\ call.op = "chunk"
  /\ call.final
  /\ call.expected # NoFile
  /\ IF all = Whole(call.expected)
     THEN /\ part' = all
          /\ call' = [op |-> "lstat", expected |-> call.expected]
          /\ UNCHANGED last
     ELSE /\ part' = NoFile
          /\ Answer(Refused)
  /\ UNCHANGED <<target, replaced>>

\* Fault: an existing target is not looked for.
ExistsIgnored ==
  /\ call.op = "lstat"
  /\ call' = [call EXCEPT !.op = "rename"]
  /\ UNCHANGED <<part, target, last, replaced>>

\* "refusing to overwrite existing file"; the part file stays.
Exists ==
  /\ call.op = "lstat"
  /\ IF target # NoFile THEN Answer(Refused)
                        ELSE call' = [call EXCEPT !.op = "rename"] /\ UNCHANGED last
  /\ UNCHANGED <<part, target, replaced>>

\* os.Rename replaces what it finds; a failure changes nothing.
Rename ==
  /\ call.op = "rename"
  /\ \/ /\ target' = part
        /\ part' = NoFile
        /\ replaced' = replaced \cup ({target} \ {NoFile})
        /\ Answer([op |-> "published", file |-> part, expected |-> call.expected])
     \/ Answer(Refused) /\ UNCHANGED <<part, target, replaced>>

-----------------------------------------------------------------------------
(* files.write.                                                            *)

\* Oversized data, or a path that is there, changes nothing.
WriteExists(v) ==
  /\ call = Idle
  /\ Size[v] <= MaxTransfer
  /\ IF target # NoFile THEN Answer(Refused)
                        ELSE call' = [op |-> "write", data |-> Whole(v)] /\ UNCHANGED last
  /\ UNCHANGED <<part, target, replaced>>

\* os.WriteFile empties what it finds; a full disk takes the first n blocks.
WriteFile(n) ==
  /\ call.op = "write"
  /\ n <= Len(call.data)
  /\ target' = SubSeq(call.data, 1, n)
  /\ replaced' = replaced \cup ({target} \ {NoFile})
  /\ Answer(IF n = Len(call.data) THEN [op |-> "written", size |-> n] ELSE Refused)
  /\ UNCHANGED part

-----------------------------------------------------------------------------
(* The rest of the guest machine.                                          *)

\* The client is stopped in the middle of a command; its successor goes on with
\* the files it finds.
Stop ==
  /\ call # Idle
  /\ Answer(Refused)
  /\ UNCHANGED <<part, target, replaced>>

\* Another program creates or removes the file.
Interfere ==
  /\ target' \in {NoFile, Foreign} \ {target}
  /\ UNCHANGED <<part, call, last, replaced>>

-----------------------------------------------------------------------------
Command ==
  \/ \E v \in Versions, final \in BOOLEAN, expected \in Hashes :
       \E offset \in 0..Size[v] : \E length \in 0..(Size[v] - offset) :
         Open(v, offset, length, final, expected)
  \/ \E n \in 0..MaxChunk : WriteFails(n)
  \/ WriteMore \/ WriteFinal \/ Exists \/ Rename
  \/ \E v \in Versions : WriteExists(v)
  \/ \E n \in 0..MaxTransfer : WriteFile(n)

Next == Command \/ Stop \/ Interfere

Spec == Init /\ [][Next]_vars

-----------------------------------------------------------------------------
(* Properties.                                                             *)

Calls ==
  {Idle} \cup
  [op : {"chunk"}, data : Seq(Block), next : Nat, final : BOOLEAN, expected : Hashes] \cup
  [op : {"lstat", "rename"}, expected : Versions] \cup
  [op : {"write"}, data : Seq(Block)]

Answers ==
  {Refused} \cup [op : {"more"}, next : Nat] \cup [op : {"written"}, size : Nat] \cup
  [op : {"published"}, file : Seq(Block), expected : Versions]

\* The files are absent or are files, and a command between its steps still has
\* the part file it opened (filesWriteChunk).
TypeOK ==
  /\ part \in Seq(Block) \cup {NoFile}
  /\ target \in Seq(Block) \cup {NoFile}
  /\ call \in Calls
  /\ last \in Answers
  /\ replaced \subseteq Seq(Block)
  /\ call.op \in {"chunk", "lstat", "rename"} => part # NoFile

\* What is published is the whole file whose hash was expected, however the
\* chunks of several uploads were mixed, repeated and cut off.
PublishedIsExpected ==
  last.op = "published" => last.file = Whole(last.expected)

\* Every block in the part file is at the place it was sent for.
PartInPlace ==
  part # NoFile => \A i \in 1..Len(part) : part[i][2] = i

\* The answer to a chunk tells where the next one begins, until the next command.
NextIsSize ==
  call = Idle /\ last.op = "more" => part # NoFile /\ Len(part) = last.next

\* An upload never takes more than MaxTransfer on the disk, however it is cut.
WithinLimit == part # NoFile => Len(part) <= MaxTransfer

\* The part file is what the agent was told of it: the blocks it sent, each in its
\* place, to where the next one is expected, and within the limit.
PartIsSound == PartInPlace /\ NextIsSize /\ WithinLimit

\* No command replaces a file that a command has written: only what another
\* program put there between Lstat and the write or rename is lost.
KeepsUploads == replaced \subseteq {Foreign}
=============================================================================
