-------------------------------- MODULE Files --------------------------------
(***************************************************************************)
(* FileSystemOperations and FileUtils: files and searches scripts opened,  *)
(* and the streams of the C runtime behind them.  A handle is the address  *)
(* of a stream, the lowest bit tells which of two runtimes it is from.     *)
(*                                                                         *)
(* Abstractions.  A file has no content: what matters of a read is whether *)
(* it met the end, and of a write whether it got to the disk.  A script    *)
(* may hold any handle it has seen.  An opcode that refuses its arguments  *)
(* changes nothing here; the script is suspended.                          *)
(***************************************************************************)
EXTENDS Naturals, FiniteSets

CONSTANTS
  Stream,     \* addresses of FILE structures
  Search,     \* handles of the system for searches
  DiskFaults, \* what may fail: "read", "write"
  MaxLeaks    \* bound on the searches never closed

VARIABLES
  streams,    \* of the runtimes: what each open FILE is
  m_hFiles,
  searches,   \* of the system: searches that are open
  m_hFileSearches

filesVars == <<streams, m_hFiles, searches, m_hFileSearches>>

----------------------------------------------------------------------------
Closed == [open |-> FALSE]

\* The direction of the last transfer, the flags of the runtime, data not yet written to disk.
Opened(legacy, mode) ==
  [open |-> TRUE, legacy |-> legacy, mode |-> mode, last |-> "none", eof |-> FALSE, err |-> "none",
   buffered |-> FALSE]

Handle == [file : Stream, legacy : BOOLEAN]
isLegacy(h) == h.legacy
handleToFile(h) == h.file
fileToHandle(f, legacy) == [file |-> f, legacy |-> legacy]

Of(h) == streams[handleToFile(h)]

----------------------------------------------------------------------------
(* The C runtimes *)

FlushFails(f) == f.buffered /\ "write" \in DiskFaults

\* The first error stays with the stream.
Err(f, what) == IF f.err = "none" THEN what ELSE f.err

\* Both fflush and fseek write what is buffered, and leave a stream open to either direction.
fflush(f, failed) == [f EXCEPT !.buffered = FALSE, !.err = IF failed THEN Err(f, "fault") ELSE @,
                               !.last = IF @ = "write" THEN "none" ELSE @]
fseek(f, failed) == [fflush(f, failed) EXCEPT !.eof = FALSE, !.last = "none"]

\* A read right after a write is an error, so is a write after a read that did not meet the end.
CanRead(f) == f.mode \in {"read", "update"} /\ f.last # "write"
CanWrite(f) == f.mode \in {"write", "update"} /\ (f.last = "read" => f.eof)

WrongUse(f, mode) == [f EXCEPT !.err = Err(f, IF f.mode \in {mode, "update"} THEN "order" ELSE "mode")]

fread(f, outcome) ==
  IF ~CanRead(f) THEN WrongUse(f, "read")
  ELSE [f EXCEPT !.last = "read", !.eof = @ \/ outcome = "end",
                 !.err = IF outcome = "fault" THEN Err(f, "fault") ELSE @]

fwrite(f, outcome) ==
  IF ~CanWrite(f) THEN WrongUse(f, "write")
  ELSE [f EXCEPT !.last = "write", !.eof = FALSE, !.buffered = outcome # "fault",
                 !.err = IF outcome = "fault" THEN Err(f, "fault") ELSE @]

ReadOutcome == {"full", "end"} \cup (IF "read" \in DiskFaults THEN {"fault"} ELSE {})
WriteOutcome == {"full"} \cup (IF "write" \in DiskFaults THEN {"fault"} ELSE {})

----------------------------------------------------------------------------
(* FileUtils: the functions of File, on a handle h and the stream f behind it *)

\* For a legacy stream the result of ferror is not stored: no error is ever seen.
isOk(h, f) == isLegacy(h) \/ f.err = "none"
isEndOfFile(f) == f.eof

seek(f, failed) == fseek(f, failed)
flush(f, failed) == fflush(f, failed)
open(legacy, mode) == Opened(legacy, mode)
close(f) == Closed

\* Variant: the positions of reading and writing are not brought together.
updateStateNot(h, f, failed) == f

\* Streams for update have to be positioned between reading and writing.
updateState(h, f, failed) == IF isOk(h, f) /\ ~isEndOfFile(f) THEN seek(f, failed) ELSE f

\* Leaves the stream at its old position, but no longer at the end of the file.
getSize(f, failed) == seek(seek(f, failed), FALSE)
getPos(f) == f

read(h, f, outcome) == updateState(h, fread(f, outcome), FALSE)
readChar(h, f, outcome) == updateState(h, fread(f, outcome), FALSE)
readString(h, f, outcome) == updateState(h, fread(f, outcome), FALSE)
write(h, f, outcome, failed) == updateState(h, fwrite(f, outcome), failed)
writeString(h, f, outcome, failed) == updateState(h, fwrite(f, outcome), failed)

\* fscanf, emulated for legacy files: one character at a time until the format is satisfied. The
\* last one is put back if it was not needed. At the end of a file that does not satisfy it the
\* loop never ends; here it stops.
scan(h, f, outcome, unused) ==
  IF isLegacy(h)
  THEN LET c == readChar(h, f, outcome)
       IN  updateState(h, IF unused THEN seek(c, FALSE) ELSE c, FALSE)
  ELSE updateState(h, fread(f, outcome), FALSE)

----------------------------------------------------------------------------
(* Opcodes for files *)

Become(h, f) ==
  /\ streams' = [streams EXCEPT ![handleToFile(h)] = f]
  /\ UNCHANGED <<m_hFiles, searches, m_hFileSearches>>

Known(h) == h \in m_hFiles

\* openfile: unless the mode is refused, or there is no such file
opcode_0A9A(f, legacy, mode) ==
  /\ streams[f] = Closed
  /\ streams' = [streams EXCEPT ![f] = open(legacy, mode)]
  /\ m_hFiles' = m_hFiles \cup {fileToHandle(f, legacy)}
  /\ UNCHANGED <<searches, m_hFileSearches>>

\* closefile
opcode_0A9B(h) ==
  /\ Known(h)
  /\ streams' = [streams EXCEPT ![handleToFile(h)] = close(@)]
  /\ m_hFiles' = m_hFiles \ {h}
  /\ UNCHANGED <<searches, m_hFileSearches>>

SeekMayFail(h, failed) == failed => FlushFails(Of(h))
WriteMayFail(h, outcome, failed) == failed => FlushFails(fwrite(Of(h), outcome))

\* get_file_size, file_seek
opcode_0A9C(h, failed) == Known(h) /\ SeekMayFail(h, failed) /\ Become(h, getSize(Of(h), failed))
opcode_0AD5(h, failed) == Known(h) /\ SeekMayFail(h, failed) /\ Become(h, seek(Of(h), failed))

\* is_end_of_file_reached, get_file_position
opcode_0AD6(h) == Known(h) /\ UNCHANGED filesVars
opcode_2300(h) == Known(h) /\ Become(h, getPos(Of(h)))

\* read_from_file, read_block_from_file, read_string_from_file
opcode_0A9D(h, outcome) == Known(h) /\ Become(h, read(h, Of(h), outcome))
opcode_2301(h, outcome) == Known(h) /\ Become(h, read(h, Of(h), outcome))
opcode_0AD7(h, outcome) == Known(h) /\ Become(h, readString(h, Of(h), outcome))

\* scan_file
opcode_0ADA(h, outcome, unused) == Known(h) /\ Become(h, scan(h, Of(h), outcome, unused))

\* write_to_file, and write_block_to_file, which does not flush
opcode_0A9E(h, outcome, failed) ==
  /\ Known(h) /\ WriteMayFail(h, outcome, failed)
  /\ LET f == write(h, Of(h), outcome, failed)
     IN  Become(h, IF isOk(h, f) THEN flush(f, FALSE) ELSE f)

opcode_2302(h, outcome, failed) ==
  /\ Known(h) /\ WriteMayFail(h, outcome, failed)
  /\ Become(h, write(h, Of(h), outcome, failed))

\* write_string_to_file and write_formatted_string_to_file flush unless that text failed.
WriteText(h, outcome, failed) ==
  /\ Known(h) /\ WriteMayFail(h, outcome, failed)
  /\ LET f == writeString(h, Of(h), outcome, failed)
     IN  Become(h, IF CanWrite(Of(h)) /\ outcome # "fault" THEN flush(f, FALSE) ELSE f)

opcode_0AD8(h, outcome, failed) == WriteText(h, outcome, failed)
opcode_0AD9(h, outcome, failed) == WriteText(h, outcome, failed)

----------------------------------------------------------------------------
(* Searches *)

Script_FS_FindFirstFile(x) ==
  /\ x \notin searches
  /\ searches' = searches \cup {x} /\ m_hFileSearches' = m_hFileSearches \cup {x}
  /\ UNCHANGED <<streams, m_hFiles>>

Script_FS_FindNextFile(x) == x \in m_hFileSearches /\ UNCHANGED filesVars

Script_FS_FindClose(x) ==
  /\ x \in m_hFileSearches
  /\ searches' = searches \ {x} /\ m_hFileSearches' = m_hFileSearches \ {x}
  /\ UNCHANGED <<streams, m_hFiles>>

\* When something in the directory cannot be deleted, the searches for it and for the directories
\* around it stay open.
DeleteDir(X) == X \cap searches = {} /\ searches' = searches \cup X

Script_FS_DeleteDirectory(X) ==
  /\ DeleteDir(X) /\ Cardinality((searches \cup X) \ m_hFileSearches) <= MaxLeaks
  /\ UNCHANGED <<streams, m_hFiles, m_hFileSearches>>

\* At the end of the session
OnFinalizeScriptObjects ==
  /\ streams' = [f \in Stream |-> IF \E h \in m_hFiles : handleToFile(h) = f THEN Closed ELSE streams[f]]
  /\ m_hFiles' = {}
  /\ searches' = searches \ m_hFileSearches /\ m_hFileSearches' = {}

----------------------------------------------------------------------------
FilesInit ==
  /\ streams = [f \in Stream |-> Closed] /\ m_hFiles = {}
  /\ searches = {} /\ m_hFileSearches = {}

FilesNext ==
  \/ \E f \in Stream, legacy \in BOOLEAN, mode \in {"read", "write", "update"} : opcode_0A9A(f, legacy, mode)
  \/ \E h \in Handle :
       \/ opcode_0A9B(h)
       \/ \E failed \in BOOLEAN : opcode_0A9C(h, failed) \/ opcode_0AD5(h, failed)
       \/ opcode_0AD6(h) \/ opcode_2300(h)
       \/ \E outcome \in ReadOutcome :
            \/ opcode_0A9D(h, outcome) \/ opcode_2301(h, outcome) \/ opcode_0AD7(h, outcome)
            \/ \E unused \in BOOLEAN : opcode_0ADA(h, outcome, unused)
       \/ \E outcome \in WriteOutcome, failed \in BOOLEAN :
            \/ opcode_0A9E(h, outcome, failed) \/ opcode_2302(h, outcome, failed)
            \/ opcode_0AD8(h, outcome, failed) \/ opcode_0AD9(h, outcome, failed)
  \/ \E x \in Search :
       Script_FS_FindFirstFile(x) \/ Script_FS_FindNextFile(x) \/ Script_FS_FindClose(x)
  \/ \E X \in SUBSET Search : Script_FS_DeleteDirectory(X)

----------------------------------------------------------------------------
\* Types of the streams and handles.
FilesTypeOK ==
  /\ \A f \in Stream : streams[f] = Closed \/
       streams[f] \in [open : {TRUE}, legacy : BOOLEAN, mode : {"read", "write", "update"},
                       last : {"none", "read", "write"}, eof : BOOLEAN, err : {"none", "fault", "mode", "order"}, buffered : BOOLEAN]
  /\ m_hFiles \subseteq Handle /\ searches \subseteq Search /\ m_hFileSearches \subseteq searches

\* Between opcodes every stream without an error is open to either direction, unless it met the
\* end, and has nothing in its buffer that a crash of the game would lose. In whatever order
\* scripts read, write and position, that order is never the first error of a stream.
StreamsAreSettled ==
  \A f \in Stream : streams[f].open =>
    /\ streams[f].last # "none" => streams[f].eof \/ streams[f].err # "none"
    /\ streams[f].buffered => streams[f].err # "none"
    /\ streams[f].err # "order"

\* An accepted handle leads to an open stream of the runtime it names, and every open stream
\* has one: no file is closed twice or by the other runtime, none is left open for ever.
HandlesAreOwned ==
  /\ \A h \in m_hFiles : Of(h).open /\ Of(h).legacy = isLegacy(h)
  /\ \A f \in Stream : streams[f].open => \E h \in m_hFiles : handleToFile(h) = f
=============================================================================
