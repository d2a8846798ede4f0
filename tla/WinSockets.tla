------------------------------ MODULE WinSockets ------------------------------
(***************************************************************************)
(* The socket server on Windows (rtc_base/physical_socket_server.cc, the   *)
(* parts under WEBRTC_WIN): Wait takes a snapshot of the dispatchers' keys,*)
(* tells closes that are due, asks the system for the events of every      *)
(* socket on one event object, and after it is set looks at every key of   *)
(* the snapshot.  A connection that the peer closes is remembered until    *)
(* its data is read.                                                       *)
(*                                                                         *)
(* As in PhysicalSocketServer a socket may be closed and opened again, from*)
(* any slot.  The system is external: a file behind every handle, what     *)
(* happened to it and was not enumerated, and which events are selected.   *)
(***************************************************************************)
EXTENDS Naturals, FiniteSets, FiniteSetsExt

CONSTANTS Sockets,    \* the SocketDispatcher objects: numbers
          MaxFiles,   \* bound: how many handles are opened
          MaxCalls    \* bound: how many calls the program and its peers make

INVALID_SOCKET == 0
Files == 1..MaxFiles

VARIABLES
  file,               \* of each handle: its kind, data to read or a caller, its end;
                      \* history: whether it was accepted
  happened, selected, \* events that were not enumerated; those WSAEventSelect asked for
  dispatcher,         \* s_, id_, state_, enabled_events_, signal_close_ and its key
  opened,             \* handles opened; next_id_ and the keys count along
  socket_ev_, hev_,   \* the events of the sockets and of the Signaler
  fWait_,
  wait,               \* the call of Wait: pc, process_io, whether it is forever
  current_dispatcher_keys_, left, \* the snapshot, and its keys that are left in this pass
  event,              \* the OnEvent under way
  calls

winFiles == <<file, happened, selected>>
loop == <<fWait_, wait, current_dispatcher_keys_, left, event>>
vars == <<winFiles, dispatcher, opened, socket_ev_, hev_, loop, calls>>

NoFile == [kind |-> "none", data |-> FALSE, fin |-> FALSE, accepted |-> FALSE]
(* signal_close_ holds the file whose end was seen, 0 when it is FALSE.    *)
ClosedSocket == [s |-> INVALID_SOCKET, id |-> 0, state |-> "closed", enabled |-> {},
                 signal_close_ |-> 0, key |-> 0]
NoWait == [pc |-> "idle", io |-> FALSE, forever |-> FALSE]
NoEvent == [d |-> 0, ff |-> {}, cache_id |-> 0, file |-> 0, slot |-> "none"]

Init ==
  /\ file = [f \in Files |-> NoFile]
  /\ happened = [f \in Files |-> {}] /\ selected = [f \in Files |-> {}]
  /\ dispatcher = [d \in Sockets |-> ClosedSocket]
  /\ opened = 0
  /\ socket_ev_ = FALSE /\ hev_ = FALSE
  /\ fWait_ = FALSE
  /\ wait = NoWait
  /\ current_dispatcher_keys_ = {} /\ left = {}
  /\ event = NoEvent
  /\ calls = 0

-----------------------------------------------------------------------------
(* The system *)

Handles == {dispatcher[d].s : d \in Sockets} \ {INVALID_SOCKET}

(* Events that are asked for set the event object when they happen.        *)
Happen(f, new, events) ==
  /\ file' = [file EXCEPT ![f] = new]
  /\ happened' = [happened EXCEPT ![f] = @ \cup events]
  /\ socket_ev_' = (socket_ev_ \/ events \cap selected[f] # {})

Network ==
  /\ calls < MaxCalls /\ calls' = calls + 1
  /\ \E f \in Handles :
       LET x == file[f] IN
       \/ x.kind = "connecting" /\ Happen(f, [x EXCEPT !.kind = "connected"], {"connect", "write"})
       \/ x.kind = "connecting" /\ Happen(f, [x EXCEPT !.kind = "failed", !.fin = TRUE], {"connect"})
       \/ /\ x.kind = "connected" /\ ~x.fin /\ ~x.data
          /\ Happen(f, [x EXCEPT !.data = TRUE], {"read"})
       \/ x.kind = "connected" /\ ~x.fin /\ Happen(f, [x EXCEPT !.fin = TRUE], {"close"})
       \/ x.kind = "listening" /\ ~x.data /\ Happen(f, [x EXCEPT !.data = TRUE], {"accept"})
  /\ UNCHANGED <<selected, dispatcher, opened, hev_, loop>>

-----------------------------------------------------------------------------
(* Calls of the program: between two waits, or from a slot *)

MayCall == wait.pc = "idle" \/ event.slot # "none"
InCall == UNCHANGED <<socket_ev_, hev_, loop>>

(* Create and Connect, or Create and Listen: a new id and a new key.       *)
Open(d) ==
  /\ MayCall /\ dispatcher[d].s = INVALID_SOCKET /\ opened < MaxFiles
  /\ opened' = opened + 1
  /\ \E kind \in {"connecting", "listening"} :
       /\ file' = [file EXCEPT ![opened + 1] = [NoFile EXCEPT !.kind = kind]]
       /\ dispatcher' = [dispatcher EXCEPT ![d] =
            [@ EXCEPT !.s = opened + 1, !.id = opened + 1, !.key = opened + 1,
                      !.state = "connecting",
                      !.enabled = IF kind = "listening" THEN {"accept"}
                                  ELSE {"connect", "read", "write"}]]
  /\ InCall /\ UNCHANGED <<happened, selected>>

Closed(f) == [NoFile EXCEPT !.accepted = f.accepted]

(* Mutant: the end of the old connection is still to be told. *)
Close_KeepsSignal(d) ==
  /\ MayCall /\ dispatcher[d].s # INVALID_SOCKET
  /\ dispatcher' = [dispatcher EXCEPT ![d] = [ClosedSocket EXCEPT !.signal_close_ = dispatcher[d].signal_close_]]
  /\ file' = [file EXCEPT ![dispatcher[d].s] = Closed(@)]
  /\ happened' = [happened EXCEPT ![dispatcher[d].s] = {}]
  /\ InCall /\ UNCHANGED <<opened, selected>>

Close(d) ==
  /\ MayCall /\ dispatcher[d].s # INVALID_SOCKET
  /\ dispatcher' = [dispatcher EXCEPT ![d] = ClosedSocket]
  /\ file' = [file EXCEPT ![dispatcher[d].s] = Closed(@)]
  /\ happened' = [happened EXCEPT ![dispatcher[d].s] = {}]
  /\ InCall /\ UNCHANGED <<opened, selected>>

(* Recv asks for DE_READ again.                                            *)
Take(d) ==
  LET f == dispatcher[d].s
  IN  /\ MayCall /\ f # INVALID_SOCKET /\ file[f].kind = "connected"
      /\ file' = [file EXCEPT ![f].data = FALSE]
      /\ happened' = [happened EXCEPT ![f] = @ \ {"read"}]
      /\ dispatcher' = [dispatcher EXCEPT ![d].enabled = @ \cup {"read"}]
      /\ InCall /\ UNCHANGED <<selected, opened>>

(* Accept asks for DE_ACCEPT again, whether or not there is a caller, and  *)
(* wraps the new handle, which is selected for like the listener's: its    *)
(* socket gets a key but no id.  No object is deleted, and its address     *)
(* used again, in its own slot.                                            *)
Wrapped == [ClosedSocket EXCEPT !.s = opened + 1, !.key = opened + 1, !.state = "connected",
                                !.enabled = {"read", "write"}]

Accept(d, e) ==
  LET f == dispatcher[d].s
      again == [dispatcher EXCEPT ![d].enabled = @ \cup {"accept"}]
  IN  /\ MayCall /\ f # INVALID_SOCKET /\ file[f].kind = "listening"
      /\ IF file[f].data
           THEN /\ opened < MaxFiles /\ opened' = opened + 1
                /\ dispatcher[e].s = INVALID_SOCKET /\ e # event.d
                /\ dispatcher' = [again EXCEPT ![e] = Wrapped]
                /\ file' = [file EXCEPT ![f].data = FALSE,
                               ![opened + 1] = [NoFile EXCEPT !.kind = "connected", !.accepted = TRUE]]
                /\ happened' = [happened EXCEPT ![f] = @ \ {"accept"}, ![opened + 1] = {"write"}]
                /\ selected' = [selected EXCEPT ![opened + 1] = selected[f]]
           ELSE /\ dispatcher' = again
                /\ happened' = [happened EXCEPT ![f] = @ \ {"accept"}]
                /\ UNCHANGED <<file, selected, opened>>
      /\ InCall

Program ==
  /\ calls < MaxCalls /\ calls' = calls + 1
  /\ \E d \in Sockets : Open(d) \/ Close(d) \/ Take(d) \/ \E e \in Sockets : Accept(d, e)

(* WakeUp, from any thread. *)
Signal ==
  /\ hev_' = TRUE
  /\ UNCHANGED <<winFiles, dispatcher, opened, socket_ev_, loop, calls>>

-----------------------------------------------------------------------------
(* Wait *)

Keys == {dispatcher[d].key : d \in Sockets} \ {0}
Same == UNCHANGED <<file, opened, calls>>
Quiet == event = NoEvent

Snapshot(io) ==
  /\ current_dispatcher_keys_' = IF io THEN Keys ELSE {}
  /\ left' = current_dispatcher_keys_'

Wait(io, forever) ==
  /\ wait.pc = "idle"
  /\ wait' = [pc |-> "ask", io |-> io, forever |-> forever]
  /\ fWait_' = TRUE
  /\ Snapshot(io)
  /\ Same /\ UNCHANGED <<happened, selected, dispatcher, socket_ev_, hev_, event>>

(* The next key of the snapshot; its dispatcher may be gone.               *)
NextKey(pc, key) ==
  /\ wait.pc = pc /\ Quiet /\ left # {}
  /\ key = Min(left)
  /\ left' = left \ {key}
  /\ Same /\ UNCHANGED <<wait, fWait_, hev_, current_dispatcher_keys_>>

Gone ==
  /\ \E pc \in {"ask", "look"} : \E key \in left : key \notin Keys /\ NextKey(pc, key)
  /\ UNCHANGED <<happened, selected, dispatcher, socket_ev_, event>>

FlagsToEvents(ff) == ff \cup {"close"}
DueToTell(d) == dispatcher[d].signal_close_ # 0 /\ ~file[dispatcher[d].s].data

CheckSignalClose(d) ==
  /\ NextKey("ask", dispatcher[d].key) /\ DueToTell(d)
  /\ dispatcher' = [dispatcher EXCEPT ![d].state = "closed", ![d].signal_close_ = 0]
  /\ event' = [NoEvent EXCEPT !.d = d, !.slot = "close", !.file = dispatcher[d].signal_close_]
  /\ UNCHANGED <<happened, selected, socket_ev_>>

(* WSAEventSelect: what holds already counts as happened.                  *)
Select(d) ==
  LET f == dispatcher[d].s
      level == IF ~file[f].data THEN {} ELSE IF file[f].kind = "listening" THEN {"accept"} ELSE {"read"}
      events == FlagsToEvents(dispatcher[d].enabled)
  IN  /\ NextKey("ask", dispatcher[d].key) /\ ~DueToTell(d)
      /\ selected' = [selected EXCEPT ![f] = events]
      /\ happened' = [happened EXCEPT ![f] = @ \cup level]
      /\ socket_ev_' = (socket_ev_ \/ (happened[f] \cup level) \cap events # {})
      /\ UNCHANGED <<dispatcher, event>>

Asked ==
  /\ wait.pc = "ask" /\ Quiet /\ left = {}
  /\ wait' = [wait EXCEPT !.pc = "blocked"]
  /\ Same /\ UNCHANGED <<happened, selected, dispatcher, socket_ev_, hev_, fWait_, event, current_dispatcher_keys_, left>>

(* The sockets' event comes first among those that are set.  The keys      *)
(* looked at are those that were asked for.                                *)
Woken ==
  /\ wait.pc = "blocked"
  /\ IF socket_ev_
       THEN left' = current_dispatcher_keys_ /\ UNCHANGED <<hev_, fWait_>>
       ELSE hev_ /\ hev_' = FALSE /\ fWait_' = FALSE /\ UNCHANGED left
  /\ wait' = [wait EXCEPT !.pc = "look"]
  /\ Same /\ UNCHANGED <<happened, selected, dispatcher, socket_ev_, event, current_dispatcher_keys_>>

TimeOut ==
  /\ wait.pc = "blocked" /\ ~wait.forever /\ ~socket_ev_ /\ ~hev_
  /\ wait' = NoWait
  /\ Same /\ UNCHANGED <<happened, selected, dispatcher, socket_ev_, hev_, fWait_, event, current_dispatcher_keys_, left>>

(* WSAEnumNetworkEvents, and the flags its record amounts to: a connection *)
(* that failed is closed.                                                  *)
FlagsOf(f, seen) ==
  (seen \cap {"read", "write", "accept", "close"})
    \cup (IF "connect" \notin seen THEN {} ELSE IF file[f].fin /\ file[f].kind = "failed" THEN {"close"} ELSE {"connect"})

Look(d) ==
  LET f == dispatcher[d].s
      seen == happened[f] \cap selected[f]
      ff == FlagsOf(f, seen)
  IN  /\ NextKey("look", dispatcher[d].key)
      /\ happened' = [happened EXCEPT ![f] = @ \ seen]
      /\ socket_ev_' = FALSE
      /\ IF ff = {} THEN UNCHANGED <<dispatcher, event>>
         ELSE /\ event' = [d |-> d, ff |-> ff, cache_id |-> dispatcher[d].id, file |-> f, slot |-> "none"]
              /\ dispatcher' = [dispatcher EXCEPT ![d].state = IF "connect" \in ff THEN "connected" ELSE @]
      /\ UNCHANGED selected

(* OnEvent: the slots in this order, unless the socket was closed by one   *)
(* of them; that is not looked at before DE_READ.  The end is remembered.  *)
Order == <<"connect", "accept", "read", "write", "close">>
NextFlag == Order[Min({i \in 1..5 : Order[i] \in event.ff})]

StillThere == dispatcher[event.d].id = event.cache_id

OnEvent ==
  /\ event.ff # {} /\ event.slot = "none"
  /\ LET flag == NextFlag
         told == flag = "read" \/ StillThere
     IN  /\ event' = [event EXCEPT !.ff = @ \ {flag}, !.slot = IF told /\ flag # "close" THEN flag ELSE "none"]
         /\ dispatcher' = IF ~told THEN dispatcher
                          ELSE IF flag = "close" THEN [dispatcher EXCEPT ![event.d].signal_close_ = event.file]
                          ELSE [dispatcher EXCEPT ![event.d].enabled = @ \ {flag}]
  /\ Same /\ UNCHANGED <<happened, selected, socket_ev_, hev_, fWait_, wait, current_dispatcher_keys_, left>>

SlotReturns ==
  /\ event.d # 0 /\ (event.slot # "none" \/ event.ff = {})
  /\ event' = IF event.ff = {} THEN NoEvent ELSE [event EXCEPT !.slot = "none"]
  /\ Same /\ UNCHANGED <<happened, selected, dispatcher, socket_ev_, hev_, fWait_, wait, current_dispatcher_keys_, left>>

(* The event is reset at the end of the pass, and the wait ends when it is *)
(* woken up or its time is over.                                           *)
PassEnds ==
  /\ wait.pc = "look" /\ Quiet /\ left = {}
  /\ socket_ev_' = FALSE
  /\ \/ (~fWait_ \/ ~wait.forever) /\ wait' = NoWait /\ UNCHANGED <<current_dispatcher_keys_, left>>
     \/ /\ fWait_ /\ wait' = [wait EXCEPT !.pc = "ask"]
        /\ Snapshot(wait.io)
  /\ Same /\ UNCHANGED <<happened, selected, dispatcher, hev_, fWait_, event>>

Loop ==
  \/ Gone \/ Asked \/ Woken \/ TimeOut \/ OnEvent \/ SlotReturns \/ PassEnds
  \/ \E d \in Sockets : CheckSignalClose(d) \/ Select(d) \/ Look(d)

Next == Network \/ Program \/ Signal \/ Loop \/ \E io, forever \in BOOLEAN : Wait(io, forever)

Spec == Init /\ [][Next]_vars /\ WF_vars(Loop)

-----------------------------------------------------------------------------
(* Properties *)

(* A socket that was created is told, by the slots other than that of      *)
(* DE_READ, of no event of another connection than the one it happened to, *)
(* and of the end of no other.  The check does not protect a socket that   *)
(* was accepted, whose id is that of a closed one: closed in a slot, it is *)
(* still told of the rest of the event, and the end of its connection may  *)
(* be told to the one it is opened for next.                               *)
EventsOfTheSameFile ==
  [][event'.slot \notin {"none", "read"} /\ event' # event =>
       LET f == event'.file
           s == dispatcher[event'.d].s
       IN  s = f \/ (file[f].accepted /\ (event'.slot = "close" \/ s = INVALID_SOCKET))]_vars

(* A connection the peer ended is reported closed once its data is read,   *)
(* and data is reported, unless the wait ends or does no I/O; WakeUp ends  *)
(* the wait.  What the slot of a close, told while the sockets are asked,  *)
(* does to a socket that was asked already is only seen by the next pass.  *)
Waiting(d) == dispatcher[d].s # INVALID_SOCKET /\ wait.pc # "idle" /\ wait.io
Told(d, slot) == event.d = d /\ event.slot = slot
DataDue(d) ==
  /\ Waiting(d) /\ file[dispatcher[d].s].data
  /\ dispatcher[d].enabled \cap selected[dispatcher[d].s] \cap {"read", "accept"} # {}
EndDue(d) ==
  /\ Waiting(d) /\ file[dispatcher[d].s].fin /\ ~file[dispatcher[d].s].data
  /\ dispatcher[d].state # "closed" /\ selected[dispatcher[d].s] # {} /\ ~(wait.pc = "blocked" /\ DueToTell(d))
MustWake == hev_ /\ wait.pc # "idle"
TellsData(d) == DataDue(d) => Told(d, "read") \/ Told(d, "accept")
TellsEnd(d) == EndDue(d) => Told(d, "close")
EventsAreDelivered ==
  /\ MustWake ~> wait.pc = "idle"
  /\ \A d \in Sockets : []<>TellsData(d) /\ []<>TellsEnd(d)
===============================================================================
