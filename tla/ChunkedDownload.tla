--------------------------- MODULE ChunkedDownload ---------------------------
(* files.read-chunk as an agent uses it, from the offset the last answer     *)
(* names until an answer says eof, and files.read, while other programs      *)
(* append to the file, truncate it or put another one in its place.  A chunk *)
(* opens the file anew; its size is taken before the bytes are read.         *)
EXTENDS Naturals, Sequences, SequencesExt

CONSTANTS
  Chunks,         \* the limits an agent asks for; 0 leaves it to the client
  DefaultChunk,   \* stands for 1 MiB
  MaxRead,        \* stands for 10 MiB
  MaxTaken,       \* stands for the 1.5 MiB whose encoding the broker takes in a result
  Sizes,          \* sizes of a file when it appears
  MaxEdits        \* bound: changes of the file

ASSUME DownloadAssumption ==
  /\ Chunks \subseteq Nat /\ Sizes \subseteq Nat /\ MaxEdits \in Nat
  /\ DefaultChunk \in 1..MaxRead /\ MaxTaken \in Nat /\ DefaultChunk <= MaxTaken

VARIABLES
  inodes,     \* the files that had the name, each a sequence of bytes: no two bytes are the same
  fresh,      \* the next byte nobody wrote yet
  edits,      \* what was done to the file since the agent began
  download,   \* the agent: state, chunk, got, and the size the file had when it began
  chunk       \* the call under way in the client

downloadVars == <<inodes, fresh, edits, download, chunk>>

NoChunk == [pc |-> "none", inode |-> 0, size |-> 0]

Bytes(first, n) == [k \in 1..n |-> first + k]

DownloadTypeOK ==
  /\ inodes \in Seq(Seq(Nat)) /\ fresh \in Nat
  /\ edits.count \in 0..MaxEdits /\ edits.kinds \subseteq {"append", "truncate", "replace"}
  /\ download.state \in {"reading", "ended", "refused", "unanswered"} /\ download.chunk \in Chunks \cup {0}
  /\ download.whole \in BOOLEAN /\ download.got \in Seq(Nat) /\ download.size \in Nat
  /\ chunk.pc \in {"none", "asked", "opened"} /\ chunk.inode \in 0..Len(inodes) /\ chunk.size \in Nat

DownloadInit ==
  /\ \E n \in Sizes, limit \in Chunks, whole \in BOOLEAN :
       /\ inodes = <<Bytes(0, n)>> /\ fresh = n
       /\ download = [state |-> "reading", chunk |-> limit, whole |-> whole, got |-> <<>>, size |-> n]
  /\ edits = [count |-> 0, kinds |-> {}]
  /\ chunk = NoChunk

\* The file that has the name now.
File == Last(inodes)

-----------------------------------------------------------------------------
\* Fault: the limit is taken as it is sent.
ChunkAsSent(limit) == limit

EffectiveChunk(limit) == IF limit = 0 THEN DefaultChunk ELSE limit

\* Fault: the last byte is taken for the end.
AtEofEarly(offset, n, size) == offset + n + 1 >= size

\* The answer's eof.
AtEof(offset, n, size) == offset + n >= size

\* Fault: the buffer is answered at its full length.
ReadAtPadded(bytes, from, to) ==
  [k \in 1..(to - from) |-> IF from + k <= Len(bytes) THEN bytes[from + k] ELSE 0]

\* f.ReadAt and data[:n].
ReadAt(bytes, from, to) == SubSeq(bytes, from + 1, IF to > Len(bytes) THEN Len(bytes) ELSE to)

\* files.read: one byte more than may be sent is read, to know a file that is larger.
ReadAll(bytes) ==
  [ok |-> Len(bytes) <= MaxRead, data |-> bytes]

\* result() refuses an output above 2 MiB, and the client drops that error: the
\* command stays running at the broker and the agent never has an answer.
Taken(data) == Len(data) <= MaxTaken

AskChunk ==
  /\ download.state = "reading" /\ chunk.pc = "none"
  /\ chunk' = [NoChunk EXCEPT !.pc = "asked"]
  /\ UNCHANGED <<inodes, fresh, edits, download>>

\* files.read.
ReadFile ==
  /\ chunk.pc = "asked" /\ download.whole
  /\ LET read == ReadAll(File)
     IN  download' =
           CASE ~read.ok -> [download EXCEPT !.state = "refused"]
             [] read.ok /\ ~Taken(read.data) -> [download EXCEPT !.state = "unanswered"]
             [] read.ok /\ Taken(read.data) -> [download EXCEPT !.state = "ended", !.got = read.data]
  /\ chunk' = NoChunk
  /\ UNCHANGED <<inodes, fresh, edits>>

\* files.read-chunk: the request is checked, the file opened and its size taken.
OpenChunk ==
  /\ chunk.pc = "asked" /\ ~download.whole
  /\ IF download.chunk > MaxRead \/ Len(download.got) > Len(File)
     THEN /\ download' = [download EXCEPT !.state = "refused"]
          /\ chunk' = NoChunk
     ELSE /\ chunk' = [pc |-> "opened", inode |-> Len(inodes), size |-> Len(File)]
          /\ UNCHANGED download
  /\ UNCHANGED <<inodes, fresh, edits>>

\* files.read-chunk: the bytes are read from the file that was opened, as many
\* of those its size promised as it still has; the agent takes the answer, if
\* the broker does.
ReadChunk ==
  /\ chunk.pc = "opened"
  /\ LET offset == Len(download.got)
         limit == EffectiveChunk(download.chunk)
         wanted == IF offset + limit > chunk.size THEN chunk.size ELSE offset + limit
         data == ReadAt(inodes[chunk.inode], offset, wanted)
     IN  download' =
           IF Taken(data)
             THEN [download EXCEPT
                     !.got = @ \o data,
                     !.state = IF AtEof(offset, Len(data), chunk.size) THEN "ended" ELSE @]
             ELSE [download EXCEPT !.state = "unanswered"]
  /\ chunk' = NoChunk
  /\ UNCHANGED <<inodes, fresh, edits>>

DownloadStep == AskChunk \/ ReadFile \/ OpenChunk \/ ReadChunk

Edited(kind) == edits' = [count |-> edits.count + 1, kinds |-> edits.kinds \cup {kind}]

\* What other programs do to the file.
Edit ==
  /\ edits.count < MaxEdits /\ download.state = "reading"
  /\ \/ /\ inodes' = [inodes EXCEPT ![Len(inodes)] = Append(@, fresh + 1)]
        /\ fresh' = fresh + 1 /\ Edited("append")
     \/ \E n \in 0..Len(File) - 1 :
          /\ inodes' = [inodes EXCEPT ![Len(inodes)] = SubSeq(@, 1, n)]
          /\ fresh' = fresh /\ Edited("truncate")
     \/ \E n \in Sizes :
          /\ inodes' = Append(inodes, Bytes(fresh, n))
          /\ fresh' = fresh + n /\ Edited("replace")
  /\ UNCHANGED <<download, chunk>>

DownloadNext == DownloadStep \/ Edit

-----------------------------------------------------------------------------
(* Properties.                                                             *)

\* A file that is at most appended to is downloaded whole: what the agent has is
\* the beginning of the file, and when it is told the end it has at least what
\* was there when it began, however the file grew between a size and its bytes.
WholeDownload ==
  edits.kinds \subseteq {"append"} =>
    /\ IsPrefix(download.got, File)
    /\ download.state = "ended" => Len(download.got) >= download.size

\* A file that loses bytes, and is not replaced, never lends a download bytes it
\* did not have at that place: every byte was the file's own there.
NothingInvented ==
  edits.kinds \subseteq {"truncate"} => IsPrefix(download.got, Bytes(0, download.size))

\* What an agent puts together from chunks is the file, when it only grew or only
\* shrank meanwhile.
DownloadFaithful == WholeDownload /\ NothingInvented

\* Once nobody changes the file any more a download ends, also over a file that
\* shrank between a size and its bytes: the agent is told the end or refused, and
\* when it asks for chunks that the broker takes it does not wait in vain.  While a
\* file is appended to as fast as it is read, a download need not end.
DownloadEnds ==
  <>[][~Edit]_downloadVars =>
    <>\/ download.state \in {"ended", "refused"}
      \/ /\ download.state = "unanswered"
         /\ download.whole \/ EffectiveChunk(download.chunk) > MaxTaken
=============================================================================
