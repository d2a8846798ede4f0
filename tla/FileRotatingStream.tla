-------------------------- MODULE FileRotatingStream --------------------------
(***************************************************************************)
(* A FileRotatingStream, or the CallSessionFileRotatingStream derived from *)
(* it, and the directory it writes to (rtc_base/file_rotating_stream.cc).  *)
(*                                                                         *)
(* A file is the set of the bytes in it, each byte known by its number in  *)
(* the order of writing; the file called prefix_i has the index i.  Each   *)
(* call on the file system is one step and may fail; the process may end   *)
(* between two of them.  Files are POSIX files: rename replaces its target.*)
(***************************************************************************)
EXTENDS Integers, FiniteSets

CONSTANTS FileSizes,    \* max_file_size of a plain stream
          FileCounts,   \* num_files of a plain stream
          TotalSizes,   \* max_total_log_size of a call-session stream
          kRotatingLogFileDefaultSize,
          WriteSizes,   \* data_len of Write
          MaxBytes,     \* bound: bytes written in a behaviour
          MaxOpens      \* bound: calls of Open in a behaviour

(* What the constructors are given and the compiler is told.               *)
RotatingAssumption ==
  /\ FileSizes \subseteq Nat \ {0}
  /\ FileCounts \subseteq Nat \ {0, 1}
  /\ TotalSizes \subseteq Nat \ (0 .. 3)
  /\ kRotatingLogFileDefaultSize \in Nat \ {0}
  /\ WriteSizes \subseteq Nat
  /\ MaxBytes \in Nat
  /\ MaxOpens \in Nat

VARIABLES
  config,          \* the constructor's arguments; they do not change
  dir,             \* the directory: content of each file that exists
  is_open,         \* file_.is_open()
  max_file_size_, rotation_index_, current_bytes_written_,
  num_rotations_,
  pc,              \* the next step of the call in progress
  data_len, i,     \* locals of Write and of RotateFiles
  opens, allOpens, \* how often this object was opened, and any
  written,         \* history: the number of the last byte written
  start,           \* history: the number of the last byte before this log
  faults           \* history: what went wrong since the last Open

configVars == <<config, max_file_size_, rotation_index_, num_rotations_>>
callVars == <<pc, data_len, i>>
openVars == <<opens, allOpens, start>>
vars == <<configVars, dir, is_open, current_bytes_written_, callVars, openVars,
          written, faults>>

-----------------------------------------------------------------------------
(* The sizes of a call-session stream.                                     *)
GetNumRotatingLogFiles(total) ==
  LET n == (total \div 2) \div kRotatingLogFileDefaultSize
  IN  IF n > 2 THEN n ELSE 2

GetRotatingLogSize(total) ==
  IF GetNumRotatingLogFiles(total) > 2 THEN kRotatingLogFileDefaultSize ELSE total \div 4

FileConfig(size, count) ==
  [session |-> FALSE, total |-> 0, first |-> size, rotating |-> size, files |-> count]

SessionConfig(total) ==
  [session |-> TRUE, total |-> total, first |-> total \div 2,
   rotating |-> GetRotatingLogSize(total), files |-> GetNumRotatingLogFiles(total) + 1]

Configs == {FileConfig(s, n) : s \in FileSizes, n \in FileCounts} \cup
           {SessionConfig(t) : t \in TotalSizes}

Last == config.files - 1
NoFiles == [n \in {} |-> {}]

Init ==
  /\ config \in Configs
  /\ max_file_size_ = config.first
  /\ rotation_index_ = Last
  /\ num_rotations_ = 0
  /\ dir = NoFiles
  /\ is_open = FALSE
  /\ current_bytes_written_ = 0
  /\ pc = "idle"
  /\ data_len = 0
  /\ i = 0
  /\ opens = 0
  /\ allOpens = 0
  /\ written = 0
  /\ start = 0
  /\ faults = {}

-----------------------------------------------------------------------------
(* The file system *)

Without(files) == [n \in DOMAIN dir \ files |-> dir[n]]

Renamed(from, to) ==
  [n \in (DOMAIN dir \ {from}) \cup {to} |-> IF n = to THEN dir[from] ELSE dir[n]]

Truncated(d) == [n \in DOMAIN d \cup {0} |-> IF n = 0 THEN {} ELSE d[n]]

(* OpenCurrentFile, from the directory d on, with what went wrong before.  *)
OpenCurrentFile(d, earlier) ==
  /\ current_bytes_written_' = IF is_open THEN 0 ELSE current_bytes_written_
  /\ \/ is_open' = TRUE  /\ dir' = Truncated(d) /\ faults' = earlier
     \/ is_open' = FALSE /\ dir' = d            /\ faults' = earlier \cup {"open"}

-----------------------------------------------------------------------------
(* The stream *)

(* Open deletes the files of an earlier log; what it cannot delete stays.  *)
Open ==
  /\ pc = "idle"
  /\ allOpens < MaxOpens
  /\ \E kept \in SUBSET DOMAIN dir :
       OpenCurrentFile(Without(DOMAIN dir \ kept),
                       {f \in {"stale", "reopened"} :
                          IF f = "stale" THEN kept # {} ELSE opens > 0})
  /\ opens' = opens + 1
  /\ allOpens' = allOpens + 1
  /\ start' = written
  /\ UNCHANGED <<configVars, callVars, written>>

Close ==
  /\ pc = "idle"
  /\ is_open
  /\ is_open' = FALSE
  /\ current_bytes_written_' = 0
  /\ UNCHANGED <<configVars, dir, callVars, openVars, written, faults>>

(* A Write of a stream that is not open returns at once.                   *)
Write(n) ==
  /\ pc = "idle"
  /\ is_open
  /\ written + n <= MaxBytes
  /\ n > 0
  /\ data_len' = n
  /\ pc' = "write"
  /\ UNCHANGED <<configVars, dir, is_open, current_bytes_written_, i, openVars, written,
                 faults>>

CanWrite == is_open /\ current_bytes_written_ < max_file_size_

write_length ==
  LET remaining_bytes == max_file_size_ - current_bytes_written_
  IN  IF data_len < remaining_bytes THEN data_len ELSE remaining_bytes

AppendBytes(n) ==
  /\ dir' = [dir EXCEPT ![0] = @ \cup (written + 1 .. written + n)]
  /\ written' = written + n

(* As much as fits goes into the current file, which is closed and rotated *)
(* once it is full.                                                        *)
WriteChunk ==
  /\ pc = "write"
  /\ CanWrite
  /\ AppendBytes(write_length)
  /\ data_len' = data_len - write_length
  /\ IF current_bytes_written_ + write_length >= max_file_size_
       THEN pc' = "delete" /\ is_open' = FALSE /\ current_bytes_written_' = 0
       ELSE /\ pc' = "idle"
            /\ current_bytes_written_' = current_bytes_written_ + write_length
            /\ UNCHANGED is_open
  /\ UNCHANGED <<configVars, i, openVars, faults>>

(* fwrite, or the fflush after it, fails: part of the bytes are in the     *)
(* file and none is counted.                                               *)
WriteFails ==
  /\ pc = "write"
  /\ CanWrite
  /\ \E n \in 0 .. write_length : AppendBytes(n)
  /\ data_len' = 0
  /\ pc' = "idle"
  /\ faults' = faults \cup {"write"}
  /\ UNCHANGED <<configVars, is_open, current_bytes_written_, i, openVars>>

(* The assertion at the head of the loop, or the one in FileWrapper::Write *)
(* that there is a file, fails.                                            *)
Abort ==
  /\ pc = "write"
  /\ ~CanWrite
  /\ pc' = "aborted"
  /\ UNCHANGED <<configVars, dir, is_open, current_bytes_written_, data_len, i, openVars,
                 written, faults>>

-----------------------------------------------------------------------------
(* RotateFiles *)

(* Each step fails or does what it is for.                                 *)
May(fault, d) ==
  \/ dir' = d /\ UNCHANGED faults
  \/ UNCHANGED dir /\ faults' = faults \cup {fault}

DeleteOldest ==
  /\ pc = "delete"
  /\ IF rotation_index_ \in DOMAIN dir
       THEN May("delete", Without({rotation_index_}))
       ELSE UNCHANGED <<dir, faults>>
  /\ i' = rotation_index_
  /\ pc' = "move"
  /\ UNCHANGED <<configVars, is_open, current_bytes_written_, data_len, openVars, written>>

(* Mutant: a file changes places with the next older one.                  *)
MoveNext_Swaps ==
  /\ pc = "move"
  /\ i > 0
  /\ IF i - 1 \in DOMAIN dir
       THEN May("move", [n \in DOMAIN dir \cup {i} |->
                           IF n = i THEN dir[i - 1]
                           ELSE IF n = i - 1 /\ i \in DOMAIN dir THEN dir[i] ELSE dir[n]])
       ELSE UNCHANGED <<dir, faults>>
  /\ i' = i - 1
  /\ UNCHANGED <<configVars, is_open, current_bytes_written_, pc, data_len, openVars,
                 written>>

(* The files below the rotation index get the next index, oldest first.    *)
MoveNext ==
  /\ pc = "move"
  /\ i > 0
  /\ IF i - 1 \in DOMAIN dir
       THEN May("move", Renamed(i - 1, i))
       ELSE UNCHANGED <<dir, faults>>
  /\ i' = i - 1
  /\ UNCHANGED <<configVars, is_open, current_bytes_written_, pc, data_len, openVars,
                 written>>

(* A call-session stream makes its files smaller after the first one, and  *)
(* spares the first one when it has become the oldest.                     *)
OnRotation ==
  IF config.session
    THEN /\ num_rotations_' = num_rotations_ + 1
         /\ max_file_size_' = IF num_rotations_' = 1 THEN config.rotating
                              ELSE max_file_size_
         /\ rotation_index_' = IF num_rotations_' # 1 /\ num_rotations_' = Last
                                 THEN rotation_index_ - 1 ELSE rotation_index_
    ELSE UNCHANGED <<num_rotations_, max_file_size_, rotation_index_>>

(* Mutant: the stream is opened again and nothing is adjusted.             *)
OpenNext_NoCallback ==
  /\ pc = "move"
  /\ i = 0
  /\ OpenCurrentFile(dir, faults)
  /\ pc' = IF data_len > 0 THEN "write" ELSE "idle"
  /\ UNCHANGED <<configVars, data_len, i, openVars, written>>

OpenNext ==
  /\ pc = "move"
  /\ i = 0
  /\ OpenCurrentFile(dir, faults)
  /\ OnRotation
  /\ pc' = IF data_len > 0 THEN "write" ELSE "idle"
  /\ UNCHANGED <<config, data_len, i, openVars, written>>

-----------------------------------------------------------------------------
(* The process ends, between two calls or between two steps of one, and    *)
(* another one makes a stream with the same arguments.                     *)
Restart ==
  /\ allOpens < MaxOpens
  /\ max_file_size_' = config.first
  /\ rotation_index_' = Last
  /\ num_rotations_' = 0
  /\ is_open' = FALSE
  /\ current_bytes_written_' = 0
  /\ pc' = "idle"
  /\ data_len' = 0
  /\ i' = 0
  /\ opens' = 0
  /\ UNCHANGED <<config, dir, allOpens, start, written, faults>>

Next ==
  \/ Open
  \/ Close
  \/ \E n \in WriteSizes : Write(n)
  \/ WriteChunk
  \/ WriteFails
  \/ Abort
  \/ DeleteOldest
  \/ MoveNext
  \/ OpenNext
  \/ Restart

Spec == Init /\ [][Next]_vars

-----------------------------------------------------------------------------
(* Properties *)

TypeOK ==
  /\ config \in Configs
  /\ DOMAIN dir \subseteq 0 .. Last
  /\ \A n \in DOMAIN dir : dir[n] \subseteq 1 .. written
  /\ is_open \in BOOLEAN
  /\ is_open => 0 \in DOMAIN dir
  /\ max_file_size_ \in Nat
  /\ rotation_index_ \in 1 .. Last
  /\ num_rotations_ \in Nat
  /\ current_bytes_written_ \in Nat
  /\ pc \in {"idle", "write", "delete", "move", "aborted"}
  /\ data_len \in Nat
  /\ i \in 0 .. Last
  /\ opens \in Nat
  /\ allOpens \in 0 .. MaxOpens
  /\ written \in Nat
  /\ start \in 0 .. written
  /\ faults \subseteq {"stale", "reopened", "write", "delete", "move", "open"}

(* A reader that takes the files from the highest index to the lowest gets *)
(* the bytes in the order they were written ("the desired chronological    *)
(* older, oldest first", file_rotating_stream.cc:393-394), whatever fails  *)
(* and wherever the process ends.                                          *)
ReadsInOrder ==
  \A m, n \in DOMAIN dir : m < n => \A a \in dir[m], b \in dir[n] : b < a

(* "Logs from the middle are deleted whereas logs from the beginning and   *)
(* end are preserved" (file_rotating_stream.h:110-111): the first half of a  *)
(* call session and the newest full files are on disk at every moment of a *)
(* rotation; a plain stream keeps the newest.  It needs no failure but of  *)
(* a delete, which the rename after it makes good.                         *)
OnDisk == UNION {dir[n] : n \in DOMAIN dir}

KeptFiles == IF config.session THEN config.files - 2 ELSE config.files - 1

EndsPreserved ==
  faults \subseteq {"delete"} =>
    \A b \in start + 1 .. written :
      \/ config.session /\ b <= start + config.first
      \/ b > written - KeptFiles * config.rotating
      => b \in OnDisk

(* The log never takes more than its size ("write logs up to a maximum     *)
(* size", file_rotating_stream.h:109-110), also when files cannot be moved *)
(* or deleted by a rotation.                                               *)
SizeLimit == IF config.session THEN config.total ELSE config.files * config.first

SizeBounded ==
  faults \cap {"stale", "write"} = {} => Cardinality(OnDisk) <= SizeLimit

(* The two ends of the log are kept within its size.                       *)
LogIsKept == EndsPreserved /\ SizeBounded

(* FileWrapper::Write asserts that there is a file (RTC_DCHECK(file_),     *)
(* file_wrapper.cc:112): the loop of Write only writes to an open one.     *)
WritesToOpenFile == pc # "aborted"
==============================================================================
