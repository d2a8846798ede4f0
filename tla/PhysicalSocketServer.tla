------------------------- MODULE PhysicalSocketServer -------------------------
(***************************************************************************)
(* The socket server of POSIX systems (rtc_base/physical_socket_server.cc):*)
(* its table of dispatchers, the loop that waits with select, or with epoll*)
(* and poll, the Signaler that ends the wait, and the sockets, whose slots *)
(* may use any socket while the loop is in the middle of a batch.          *)
(*                                                                         *)
(* Sockets belong to the thread that waits; other threads only call WakeUp.*)
(* A socket object that was closed may be opened again: it stands as well  *)
(* for one deleted and another allocated at its address, which only its    *)
(* own slots, whose object OnEvent goes on to use, may not do.             *)
(*                                                                         *)
(* The kernel is external: a file behind every descriptor, descriptors     *)
(* that are reused lowest first, and the set of interests of epoll.        *)
(***************************************************************************)
EXTENDS Integers, FiniteSets, FiniteSetsExt

CONSTANTS Sockets,      \* the SocketDispatcher objects: numbers
          Descriptors,  \* numbers of file descriptors for them
          MaxFiles,     \* bound: how many files are opened
          MaxCalls,     \* bound: how many calls the program and its peers make
          Types         \* of the sockets the program creates: "tcp", "udp"

ASSUME ServerAssumption ==
  /\ Sockets \subseteq Nat \ {0}
  /\ Descriptors \subseteq Nat \ {0}
  /\ MaxFiles \in Nat /\ MaxCalls \in Nat
  /\ Types \subseteq {"tcp", "udp"}

INVALID_SOCKET == 0
Flags == {"connect", "accept", "read", "write", "close"}
NoBatch == {"none"}      \* saved_enabled_events_ == -1
SignalerKey == 1

VARIABLES
  epoll_fd_,         \* whether the build has epoll and it could be created
  kernel,            \* the file of each descriptor; id 0 when closed
  files,             \* how many files were opened
  interest,          \* epoll's set: the events and the key of each descriptor
  socket,            \* s_, state_, enabled_events_, saved_enabled_events_, udp_, resolver_
  key_by_dispatcher_, \* 0 for a socket that is not added
  next_dispatcher_key_,
  fSignaled_, byte,  \* the Signaler, and whether its pipe holds a byte
  fWait_,
  wait,              \* the call of Wait: pc, process_io and whether it is forever
  batch,             \* events returned and not looked at yet
  calls,             \* how many calls were made
  event              \* the OnEvent under way: socket, flags left, the slot that runs

kernelVars == <<kernel, files>>
tableVars == <<key_by_dispatcher_, next_dispatcher_key_>>
signalVars == <<fSignaled_, byte>>
loopVars == <<fWait_, wait, batch, event>>
vars == <<epoll_fd_, kernelVars, interest, socket, tableVars, signalVars, loopVars, calls>>

NoFile == [id |-> 0, kind |-> "none", data |-> FALSE, eof |-> FALSE, room |-> FALSE,
           err |-> FALSE]
NoInterest == [events |-> {}, key |-> 0]
ClosedSocket == [s |-> INVALID_SOCKET, state |-> "closed", enabled |-> {},
                 saved |-> NoBatch, udp |-> FALSE, resolver |-> "none"]
NoWait == [pc |-> "idle", io |-> FALSE, forever |-> FALSE]
NoSocket == 0
NoEvent == [d |-> NoSocket, ff |-> {}, slot |-> "none"]

Init ==
  /\ epoll_fd_ \in BOOLEAN
  /\ kernel = [fd \in Descriptors |-> NoFile]
  /\ files = 0
  /\ interest = [fd \in Descriptors |-> NoInterest]
  /\ socket = [d \in Sockets |-> ClosedSocket]
  /\ key_by_dispatcher_ = [d \in Sockets |-> 0]
  /\ next_dispatcher_key_ = SignalerKey + 1
  /\ fSignaled_ = FALSE /\ byte = FALSE
  /\ fWait_ = FALSE
  /\ wait = NoWait
  /\ batch = {}
  /\ event = NoEvent
  /\ calls = 0

-----------------------------------------------------------------------------
(* The kernel *)

Readable(f) == f.data \/ f.eof
Writable(f) == f.room \/ f.err
FreeDescriptor == Min({fd \in Descriptors : kernel[fd].id = 0})
MayOpen == files < MaxFiles /\ \E fd \in Descriptors : kernel[fd].id = 0
OpenFile(kind, room) == [NoFile EXCEPT !.id = files + 1, !.kind = kind, !.room = room]

(* The peers: a connection is made or refused, data or a caller arrives,   *)
(* the peer shuts down or resets, buffers drain.                           *)
Network ==
  /\ calls < MaxCalls /\ calls' = calls + 1
  /\ \E fd \in Descriptors :
    LET f == kernel[fd] IN
    /\ \/ /\ f.kind = "connecting"
          /\ \/ kernel' = [kernel EXCEPT ![fd].kind = "connected", ![fd].room = TRUE]
             \/ kernel' = [kernel EXCEPT ![fd].kind = "fresh", ![fd].err = TRUE, ![fd].eof = TRUE]
       \/ /\ f.kind \in {"connected", "udp", "listening"} /\ ~f.eof /\ ~f.data
          /\ kernel' = [kernel EXCEPT ![fd].data = TRUE]
       \/ /\ f.kind = "connected" /\ ~f.eof
          /\ \E reset \in BOOLEAN :
               kernel' = [kernel EXCEPT ![fd].eof = TRUE, ![fd].err = reset]
       \/ /\ f.kind \in {"connected", "udp"} /\ ~f.room
          /\ kernel' = [kernel EXCEPT ![fd].room = TRUE]
    /\ UNCHANGED <<epoll_fd_, files, interest, socket, tableVars, signalVars, loopVars>>

-----------------------------------------------------------------------------
(* Events a socket asks for, and epoll's set of them *)

GetEpollEvents(ff) ==
  (IF ff \cap {"read", "accept"} # {} THEN {"in"} ELSE {})
    \cup (IF ff \cap {"write", "connect"} # {} THEN {"out"} ELSE {})

Interest(events, key) == IF events = {} THEN NoInterest ELSE [events |-> events, key |-> key]

(* Mutant: what has no interest yet is not added when it gets one. *)
UpdateEpoll_OnlyModifies(d, new) ==
  [interest EXCEPT ![new.s] = IF @ = NoInterest THEN @
                              ELSE Interest(GetEpollEvents(new.enabled), key_by_dispatcher_[d])]

UpdateEpoll(d, new) ==
  [interest EXCEPT ![new.s] = Interest(GetEpollEvents(new.enabled), key_by_dispatcher_[d])]

(* SetEnabledEvents, EnableEvents and DisableEvents all end here: epoll is *)
(* told at once, or at the end of the batch of updates.                    *)
MaybeUpdateDispatcher(d, old_events, new) ==
  IF /\ GetEpollEvents(new.enabled) # GetEpollEvents(old_events)
     /\ new.saved = NoBatch /\ epoll_fd_ /\ key_by_dispatcher_[d] # 0
  THEN UpdateEpoll(d, new) ELSE interest

Change(d, new) ==
  /\ socket' = [socket EXCEPT ![d] = new]
  /\ interest' = MaybeUpdateDispatcher(d, socket[d].enabled, new)
EnableEvents(d, events) == Change(d, [socket[d] EXCEPT !.enabled = @ \cup events])

(* A new descriptor for the socket: Initialize adds it under a new key,    *)
(* with the events it asks for by then; more may be enabled afterwards.    *)
Opened(d, fd, added, new) ==
  LET key == next_dispatcher_key_
      known == IF new.saved = NoBatch THEN new.enabled ELSE added
  IN  /\ socket' = [socket EXCEPT ![d] = [new EXCEPT !.s = fd]]
      /\ files' = files + 1
      /\ key_by_dispatcher_' = [key_by_dispatcher_ EXCEPT ![d] = key]
      /\ next_dispatcher_key_' = key + 1
      /\ interest' = IF epoll_fd_ THEN [interest EXCEPT ![fd] = Interest(GetEpollEvents(known), key)]
                     ELSE interest

-----------------------------------------------------------------------------
(* Calls of the program: between two waits, or from a slot *)

(* Bound: the objects are interchangeable and first used in order.         *)
Used(d) == \A e \in Sockets : e < d => key_by_dispatcher_[e] # 0 \/ files > 1
MayCall == wait.pc = "idle" \/ event.slot # "none"
InCall == UNCHANGED <<epoll_fd_, signalVars, loopVars>>
Open(d) == socket[d].s # INVALID_SOCKET

CreateSocket(d) ==
  /\ MayCall /\ MayOpen /\ socket[d] = ClosedSocket /\ d # event.d /\ Used(d)
  /\ \E type \in Types :
       LET events == IF type = "udp" THEN {"read", "write"} ELSE {}
           kind == IF type = "udp" THEN "udp" ELSE "fresh"
       IN  /\ kernel' = [kernel EXCEPT ![FreeDescriptor] = OpenFile(kind, type = "udp")]
           /\ Opened(d, FreeDescriptor, events,
                     [ClosedSocket EXCEPT !.udp = type = "udp", !.enabled = events])
  /\ InCall

(* connect() succeeds, is under way or fails; a closed socket is created   *)
(* first.                                                                  *)
DoConnect(d, resolver) ==
  LET events == {"read", "write"}
      failed == [socket[d] EXCEPT !.resolver = resolver, !.udp = @ /\ Open(d)]
      Started(state, more) == [failed EXCEPT !.state = state, !.enabled = @ \cup events \cup more]
  IN  \E outcome \in {<<"connected", Started("connected", {})>>,
                      <<"connecting", Started("connecting", {"connect"})>>,
                      <<"fresh", failed>>} :
        IF Open(d)
          THEN /\ kernel[socket[d].s].kind = "fresh"
               /\ kernel' = [kernel EXCEPT ![socket[d].s].kind = outcome[1],
                                           ![socket[d].s].room = outcome[1] = "connected"]
               /\ Change(d, outcome[2])
               /\ UNCHANGED <<files, tableVars>>
          ELSE /\ MayOpen
               /\ kernel' = [kernel EXCEPT ![FreeDescriptor] =
                               OpenFile(outcome[1], outcome[1] = "connected")]
               /\ Opened(d, FreeDescriptor, {}, outcome[2])

Connect(d) ==
  /\ MayCall /\ socket[d].state = "closed" /\ Used(d)
  /\ \/ DoConnect(d, socket[d].resolver)
     \/ /\ socket' = [socket EXCEPT ![d].resolver = "pending", ![d].state = "connecting"]
        /\ UNCHANGED <<kernelVars, interest, tableVars>>
  /\ InCall

(* Mutant: the old events are kept over the closing. *)
Removed_KeepsSaved(s) == s

(* SocketDispatcher::Close: nothing of the old descriptor is remembered,   *)
(* not even by a batch of updates under way.                               *)
Removed(s) == IF s.saved = NoBatch THEN s ELSE [s EXCEPT !.saved = {}]

CloseSocket(d) ==
  LET s == socket[d]
  IN  /\ kernel' = [kernel EXCEPT ![s.s] = NoFile]
      /\ interest' = [interest EXCEPT ![s.s] = NoInterest]
      /\ key_by_dispatcher_' = [key_by_dispatcher_ EXCEPT ![d] = 0]
      /\ socket' = [socket EXCEPT ![d] = [Removed(s) EXCEPT !.s = INVALID_SOCKET,
                      !.state = "closed", !.enabled = {}, !.resolver = "none"]]
      /\ UNCHANGED <<files, next_dispatcher_key_>>

Close(d) == MayCall /\ Open(d) /\ CloseSocket(d) /\ InCall

(* The result arrives as a task of the thread, between two waits.          *)
OnResolveResult(d) ==
  /\ wait.pc = "idle" /\ socket[d].resolver = "pending"
  /\ \/ DoConnect(d, "none")
     \/ /\ Open(d)
        /\ CloseSocket(d)
     \/ /\ ~Open(d)
        /\ socket' = [socket EXCEPT ![d].resolver = "none"]
        /\ UNCHANGED <<kernelVars, interest, tableVars>>
  /\ InCall

Listen(d) ==
  /\ MayCall /\ Open(d) /\ kernel[socket[d].s].kind = "fresh"
  /\ kernel' = [kernel EXCEPT ![socket[d].s].kind = "listening"]
  /\ Change(d, [socket[d] EXCEPT !.state = "connecting", !.enabled = @ \cup {"accept"}])
  /\ InCall /\ UNCHANGED <<files, tableVars>>

(* DE_ACCEPT is asked for again whether or not there is somebody to accept;*)
(* the new descriptor is wrapped by another socket.                        *)
Accept(d, e) ==
  LET fd == socket[d].s
      again == [socket[d] EXCEPT !.enabled = @ \cup {"accept"}]
      known == MaybeUpdateDispatcher(d, socket[d].enabled, again)
      key == next_dispatcher_key_
      wrapped == [ClosedSocket EXCEPT !.s = FreeDescriptor, !.state = "connected",
                                      !.enabled = {"read", "write"}]
  IN  /\ MayCall /\ d # e /\ Open(d) /\ kernel[fd].kind = "listening"
      /\ IF kernel[fd].data
           THEN /\ MayOpen /\ socket[e] = ClosedSocket /\ e # event.d
                /\ kernel' = [kernel EXCEPT ![fd].data = FALSE,
                                            ![FreeDescriptor] = OpenFile("connected", TRUE)]
                /\ files' = files + 1
                /\ socket' = [socket EXCEPT ![d] = again, ![e] = wrapped]
                /\ key_by_dispatcher_' = [key_by_dispatcher_ EXCEPT ![e] = key]
                /\ next_dispatcher_key_' = key + 1
                /\ interest' = IF epoll_fd_ THEN [known EXCEPT ![FreeDescriptor] =
                                                     Interest({"in", "out"}, key)]
                               ELSE known
           ELSE /\ Change(d, again)
                /\ UNCHANGED <<kernelVars, tableVars>>
      /\ InCall

(* What is sent fits, or fills the buffer and DE_WRITE is asked for.       *)
Send(d) ==
  /\ MayCall /\ Open(d) /\ kernel[socket[d].s].kind \in {"connected", "udp"}
  /\ kernel' = [kernel EXCEPT ![socket[d].s].room = FALSE]
  /\ EnableEvents(d, {"write"})
  /\ InCall /\ UNCHANGED <<files, tableVars>>

(* Data, the end of the stream and an empty buffer ask for DE_READ again;  *)
(* an error does so for datagrams only.                                    *)
Recv(d) ==
  LET fd == socket[d].s
      f == kernel[fd]
      failed == ~f.data /\ f.err
  IN  /\ MayCall /\ Open(d) /\ f.kind \in {"connected", "udp"}
      /\ kernel' = [kernel EXCEPT ![fd].data = FALSE, ![fd].err = @ /\ f.data]
      /\ IF failed /\ ~socket[d].udp THEN UNCHANGED <<socket, interest>>
                                     ELSE EnableEvents(d, {"read"})
      /\ InCall /\ UNCHANGED <<files, tableVars>>

-----------------------------------------------------------------------------
(* WakeUp, from any thread: one byte at most is in the Signaler's pipe. *)
Signal ==
  /\ fSignaled_' = TRUE
  /\ byte' = (byte \/ ~fSignaled_)
  /\ UNCHANGED <<epoll_fd_, calls, kernelVars, interest, socket, tableVars, loopVars>>

-----------------------------------------------------------------------------
(* The waiting loop *)

Wait(io, forever) ==
  /\ wait.pc = "idle"
  /\ wait' = [pc |-> "loop", io |-> io, forever |-> forever]
  /\ fWait_' = TRUE
  /\ UNCHANGED <<epoll_fd_, calls, kernelVars, interest, socket, tableVars, signalVars, batch, event>>

Waited == wait' = NoWait

(* What select, epoll_wait or poll returns: the descriptors with an event  *)
(* that is asked for, each with the key it is known under.                 *)
Wanted(d) == GetEpollEvents(socket[d].enabled)
Entry(key, r, w, e, fd) == [key |-> key, readable |-> r, writable |-> w, error |-> e, fd |-> fd,
                            file |-> IF fd = 0 THEN 0 ELSE kernel[fd].id]
Selected ==
  {Entry(key_by_dispatcher_[d],
         "in" \in Wanted(d) /\ Readable(kernel[socket[d].s]),
         "out" \in Wanted(d) /\ Writable(kernel[socket[d].s]), FALSE, socket[d].s) :
     d \in {d \in Sockets : key_by_dispatcher_[d] # 0}}
Polled ==
  {Entry(interest[fd].key,
         "in" \in interest[fd].events /\ Readable(kernel[fd]),
         "out" \in interest[fd].events /\ Writable(kernel[fd]), kernel[fd].err, fd) :
     fd \in {fd \in Descriptors : interest[fd] # NoInterest}}
Happened(e) == e.readable \/ e.writable \/ e.error
Ready ==
  {e \in (IF byte THEN {Entry(SignalerKey, TRUE, FALSE, FALSE, 0)} ELSE {})
         \cup (IF ~wait.io THEN {} ELSE IF epoll_fd_ THEN Polled ELSE Selected) : Happened(e)}

Unmoved == UNCHANGED <<epoll_fd_, calls, kernelVars, interest, socket, tableVars, signalVars, fWait_, event>>

Poll ==
  /\ wait.pc = "loop" /\ fWait_ /\ Ready # {}
  /\ batch' = Ready
  /\ wait' = [wait EXCEPT !.pc = "dispatch"]
  /\ Unmoved

TimeOut ==
  /\ wait.pc = "loop" /\ fWait_ /\ ~wait.forever /\ Ready = {}
  /\ Waited
  /\ Unmoved /\ UNCHANGED batch

(* The flag was cleared, or the time is over after a batch of epoll.       *)
LoopEnds ==
  /\ wait.pc = "loop" /\ ~fWait_
  /\ Waited
  /\ Unmoved /\ UNCHANGED batch
BatchEnds ==
  /\ wait.pc = "dispatch" /\ batch = {} /\ event = NoEvent
  /\ \/ wait' = [wait EXCEPT !.pc = "loop"]
     \/ epoll_fd_ /\ ~wait.forever /\ Waited
  /\ Unmoved /\ UNCHANGED batch

DispatcherOf(e) == {d \in Sockets : key_by_dispatcher_[d] = e.key}

(* ProcessEvents: the flags an entry amounts to, with the error of the     *)
(* descriptor taken when there may be one.                                 *)
IsDescriptorClosed(d) ==
  ~socket[d].udp /\ kernel[socket[d].s].eof /\ ~kernel[socket[d].s].data
CheckError(e) == IF epoll_fd_ THEN e.error ELSE Happened(e)
FlagsOf(e, d) ==
  LET requested == socket[d].enabled
      error == CheckError(e) /\ kernel[socket[d].s].err
  IN  (IF error THEN {"close"} ELSE {})
        \cup (IF ~e.readable THEN {}
              ELSE IF error \/ IsDescriptorClosed(d) THEN {"close"}
              ELSE IF "accept" \in requested THEN {"accept"} ELSE {"read"})
        \cup (IF ~e.writable THEN {}
              ELSE IF "connect" \notin requested THEN {"write"}
              ELSE IF error THEN {} ELSE {"connect"})

(* select's entries come in the order of the keys, epoll's in any.         *)
First(e) == epoll_fd_ \/ \A x \in batch : e.key <= x.key

SkipEntry(e) ==
  /\ e.key # SignalerKey
  /\ \/ DispatcherOf(e) = {} /\ UNCHANGED kernel
     \/ \E d \in DispatcherOf(e) : /\ FlagsOf(e, d) = {}
                                  /\ kernel' = [kernel EXCEPT ![socket[d].s].err = @ /\ ~CheckError(e)]
  /\ UNCHANGED <<socket, signalVars, fWait_, event>>

SignalerOnEvent(e) ==
  /\ e.key = SignalerKey
  /\ byte' = (byte /\ ~fSignaled_)
  /\ fSignaled_' = FALSE
  /\ fWait_' = FALSE
  /\ UNCHANGED <<kernel, socket, event>>

BeginOnEvent(e, d) ==
  LET ff == FlagsOf(e, d)
      state == IF "close" \in ff THEN "closed"
               ELSE IF "connect" \in ff THEN "connected" ELSE socket[d].state
  IN  /\ ff # {}
      /\ kernel' = [kernel EXCEPT ![socket[d].s].err = @ /\ ~CheckError(e)]
      /\ socket' = [socket EXCEPT ![d].state = state,
                                  ![d].saved = IF epoll_fd_ THEN socket[d].enabled ELSE @]
      /\ event' = [d |-> d, ff |-> ff, slot |-> "none"]
      /\ UNCHANGED <<signalVars, fWait_>>

ProcessEntry ==
  \E e \in batch :
    /\ wait.pc = "dispatch" /\ event = NoEvent /\ First(e)
    /\ batch' = batch \ {e}
    /\ \/ SkipEntry(e)
       \/ SignalerOnEvent(e)
       \/ \E d \in DispatcherOf(e) : BeginOnEvent(e, d)
    /\ UNCHANGED <<epoll_fd_, calls, files, interest, tableVars, wait>>

(* SocketDispatcher::OnEvent: one slot after the other, in this order; the *)
(* event is disabled first, so that the slot may ask for it again.         *)
Order == <<"connect", "accept", "read", "write", "close">>
NextFlag == Order[Min({i \in 1..5 : Order[i] \in event.ff})]

Deliver ==
  /\ event.ff # {} /\ event.slot = "none"
  /\ event' = [event EXCEPT !.ff = @ \ {NextFlag}, !.slot = NextFlag]
  /\ Change(event.d, [socket[event.d] EXCEPT
                        !.enabled = IF NextFlag = "close" THEN {} ELSE @ \ {NextFlag}])
  /\ UNCHANGED <<epoll_fd_, calls, kernelVars, tableVars, signalVars, fWait_, wait, batch>>

SlotReturns ==
  /\ event.slot # "none"
  /\ event' = [event EXCEPT !.slot = "none"]
  /\ UNCHANGED <<epoll_fd_, calls, kernelVars, interest, socket, tableVars, signalVars, fWait_, wait, batch>>

FinishBatchedEventUpdates ==
  /\ event.d # NoSocket /\ event.ff = {} /\ event.slot = "none"
  /\ LET d == event.d
         new == [socket[d] EXCEPT !.saved = NoBatch]
     IN  /\ socket' = [socket EXCEPT ![d] = new]
         /\ interest' = IF epoll_fd_ THEN MaybeUpdateDispatcher(d, socket[d].saved, new)
                        ELSE interest
  /\ event' = NoEvent
  /\ UNCHANGED <<epoll_fd_, calls, kernelVars, tableVars, signalVars, fWait_, wait, batch>>

-----------------------------------------------------------------------------

Program ==
  /\ calls < MaxCalls /\ calls' = calls + 1
  /\ \E d \in Sockets :
       \/ CreateSocket(d) \/ Connect(d) \/ OnResolveResult(d) \/ Close(d)
       \/ Listen(d) \/ (\E e \in Sockets : Accept(d, e)) \/ Send(d) \/ Recv(d)

Loop ==
  \/ Poll \/ TimeOut \/ LoopEnds \/ BatchEnds
  \/ ProcessEntry \/ Deliver \/ SlotReturns \/ FinishBatchedEventUpdates

Next ==
  \/ Network \/ Program \/ Signal \/ Loop
  \/ \E io, forever \in BOOLEAN : Wait(io, forever)

Spec == Init /\ [][Next]_vars

(* The loop runs on once it is in Wait, and slots return; nobody is bound  *)
(* to call anything.                                                       *)
FairSpec == Spec /\ WF_vars(Loop)

-----------------------------------------------------------------------------
(* Properties *)

(* The event of an entry is only begun for the socket whose file it was    *)
(* seen on: not for one that the slots of another entry of the batch have  *)
(* opened on the same descriptor.  Between the flags of one event nothing  *)
(* is checked: a socket that is closed and opened again in one of its own  *)
(* slots is told of what is left of the event.                             *)
EventsOfTheSameFile ==
  [][\A e \in batch \ batch' :
       event' # event => kernel[socket[event'.d].s].id = e.file]_vars

(* Outside of a batch of updates epoll watches exactly what the sockets    *)
(* have enabled, under their present keys, whatever was closed, reopened   *)
(* or enabled in the slots.                                                *)
EpollFollowsEnabled ==
  epoll_fd_ =>
    /\ \A d \in Sockets : key_by_dispatcher_[d] # 0 /\ socket[d].saved = NoBatch =>
         interest[socket[d].s] = Interest(GetEpollEvents(socket[d].enabled), key_by_dispatcher_[d])
    /\ \A fd \in Descriptors : interest[fd] # NoInterest =>
         \E d \in Sockets : socket[d].s = fd /\ key_by_dispatcher_[d] = interest[fd].key

(* What a socket waits for and its file has is told to it, unless the loop *)
(* ends or does no I/O; and WakeUp ends the wait under way, or the next if *)
(* it comes between two waits.                                             *)
Due(d, direction, has(_)) ==
  Open(d) /\ wait.pc # "idle" /\ wait.io /\ direction \in Wanted(d) /\ has(kernel[socket[d].s])
Told(d, slots) == event.d = d /\ event.slot \in slots
MustWake == fSignaled_ /\ wait.pc # "idle"
TellsIn(d) == Due(d, "in", Readable) => Told(d, {"read", "accept", "close"})
TellsOut(d) == Due(d, "out", Writable) => Told(d, {"write", "connect", "close"})
EventsAreDelivered ==
  /\ MustWake ~> wait.pc = "idle"
  /\ \A d \in Sockets : []<>TellsIn(d) /\ []<>TellsOut(d)
===============================================================================
