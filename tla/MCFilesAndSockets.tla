--------------------------- MODULE MCFilesAndSockets ---------------------------
(***************************************************************************)
(* What the library does with descriptors and files: the two socket servers*)
(* and the rotating log, each on its own.  `subject' says which one a      *)
(* behaviour is about.  The server of POSIX is extended, the others are    *)
(* instances.                                                              *)
(***************************************************************************)
EXTENDS PhysicalSocketServer

CONSTANTS WinCalls,
          FileSizes, FileCounts, TotalSizes, kRotatingLogFileDefaultSize, WriteSizes,
          MaxBytes, MaxOpens

VARIABLES subject, win_file, win_happened, win_selected, win_dispatcher, win_opened,
          win_socket_ev_, win_hev_, win_fWait_, win_wait, win_keys, win_left, win_event, win_calls,
          config, dir, is_open, max_file_size_, rotation_index_, current_bytes_written_,
          num_rotations_, pc, data_len, index, opens, allOpens, written, start, faults

W == INSTANCE WinSockets WITH
  MaxCalls <- WinCalls, file <- win_file, happened <- win_happened, selected <- win_selected,
  dispatcher <- win_dispatcher, opened <- win_opened, socket_ev_ <- win_socket_ev_,
  hev_ <- win_hev_, fWait_ <- win_fWait_, wait <- win_wait,
  current_dispatcher_keys_ <- win_keys, left <- win_left, event <- win_event, calls <- win_calls
Log == INSTANCE FileRotatingStream WITH i <- index

(* The sizes and numbers of files are those the stream's constructors take.*)
ASSUME FilesAssumption == Log!RotatingAssumption

winVars == <<
  win_file, win_happened, win_selected, win_dispatcher, win_opened, win_socket_ev_, win_hev_,
  win_fWait_, win_wait, win_keys, win_left, win_event, win_calls>>
logVars == <<config, dir, is_open, max_file_size_, rotation_index_, current_bytes_written_,
             num_rotations_, pc, data_len, index, opens, allOpens, written, start, faults>>
allVars == <<subject, vars, winVars, logVars>>

MCInit ==
  /\ Init /\ W!Init /\ Log!Init
  /\ subject \in {"POSIX", "Windows", "files"}
  /\ subject # "POSIX" => epoll_fd_
  /\ subject # "files" => config = CHOOSE c \in Log!Configs : TRUE

Posix(A) == subject = "POSIX" /\ A /\ UNCHANGED <<subject, winVars, logVars>>
Windows(A) == subject = "Windows" /\ A /\ UNCHANGED <<subject, vars, logVars>>
Files(A) == subject = "files" /\ A /\ UNCHANGED <<subject, vars, winVars>>

MCSpec ==
  /\ MCInit /\ [][Posix(Next) \/ Windows(W!Next) \/ Files(Log!Next)]_allVars
  /\ WF_allVars(Posix(Loop)) /\ WF_allVars(Windows(W!Loop))

(* An event is only given to the socket it was seen on, on both systems.   *)
EventsOfTheSameSocket == EventsOfTheSameFile /\ W!EventsOfTheSameFile

(* What sockets wait for and have is told to them, the end of a connection *)
(* after its data, and WakeUp ends the wait, on both systems: the          *)
(* EventsAreDelivered of both at once, since the one that is not the       *)
(* subject stays idle and owes nothing.                                    *)
EventsAreTold ==
  /\ MustWake \/ W!MustWake ~> wait.pc = "idle" /\ win_wait.pc = "idle"
  /\ \A d \in Sockets : []<>(TellsIn(d) /\ W!TellsData(d)) /\ []<>(TellsOut(d) /\ W!TellsEnd(d))

(* The log reads back in the order of writing, whatever call on the file   *)
(* system fails and wherever the process ends (file_rotating_stream.cc).   *)
ReadsInOrder == Log!ReadsInOrder

(* The beginning and the end of the log survive its rotations, and it      *)
(* keeps to its size (file_rotating_stream.h:109-111).                     *)
LogIsKept == Log!LogIsKept
===============================================================================
