----------------------------- MODULE ThreadManager -----------------------------
(***************************************************************************)
(* The registry of rtc::Threads and what is current where (rtc_base/       *)
(* thread.cc): threads that are started, wrapped around a thread of the    *)
(* program, or put on its stack (AutoThread, AutoSocketServerThread), the  *)
(* two "current" pointers of each system thread, and the flush of all      *)
(* queues.  The system thread of a started Thread bears its name.          *)
(***************************************************************************)
EXTENDS Integers, Sequences, FiniteSets, SequencesExt, FiniteSetsExt

CONSTANTS Mains,       \* the threads of the program
          Threads,     \* the rtc::Thread objects
          Null,
          MaxStack,    \* bound: objects on the stack of a thread
          MaxStarts,   \* bound: how often Start is called
          MaxMessages  \* bound: messages posted

VARIABLES
  current,         \* ThreadManager::CurrentThread, for each system thread
  taskQueue,       \* TaskQueueBase::Current, for each system thread
  registration,    \* task_queue_registration_: <<>> or <<the previous one>>
  kind,            \* of each object: "none", "Thread", "AutoThread",
                   \* "AutoSocketServerThread" or "deleted"
  thread_,         \* the system thread it runs on or wraps, or Null
  owned_, stop_, old_thread_,
  run,             \* of its own system thread: "off", "prerun", "loop",
                   \* "idle", "postrun", "ended"
  message_queues_, \* how often each object is registered
  stack,           \* the objects on the stack of each thread of the program
  joining,         \* which object each waits for, and whether it then deletes
  queue,           \* what is posted to each object: numbers, and Marker
  posted, starts,
  flush            \* the ProcessAllMessageQueuesInternal in progress

currentVars == <<current, taskQueue, registration>>
objectVars == <<kind, thread_, owned_, stop_, old_thread_, run, message_queues_>>
callVars == <<stack, joining>>
queueVars == <<queue, posted>>
vars == <<currentVars, objectVars, callVars, queueVars, starts, flush>>

SystemThreads == Mains \cup Threads
Marker == 0
NoFlush == [by |-> Null, left |-> {}, checked |-> Null, open |-> 0, admitted |-> FALSE,
            before |-> {}]

Init ==
  /\ current = [s \in SystemThreads |-> Null]
  /\ taskQueue = [s \in SystemThreads |-> Null]
  /\ registration = [t \in Threads |-> << >>]
  /\ kind = [t \in Threads |-> "none"]
  /\ thread_ = [t \in Threads |-> Null]
  /\ owned_ = [t \in Threads |-> TRUE]
  /\ stop_ = [t \in Threads |-> FALSE]
  /\ old_thread_ = [t \in Threads |-> Null]
  /\ run = [t \in Threads |-> "off"]
  /\ message_queues_ = [t \in Threads |-> 0]
  /\ stack = [m \in Mains |-> << >>]
  /\ joining = [m \in Mains |-> << >>]
  /\ queue = [t \in Threads |-> << >>]
  /\ posted = 0 /\ starts = 0
  /\ flush = NoFlush

-----------------------------------------------------------------------------
(* What is current *)

Where == [current |-> current, taskQueue |-> taskQueue, registration |-> registration]

(* CurrentTaskQueueSetter: the new one is made before the old one goes.    *)
EnsureIsCurrentTaskQueue(w, s, t) ==
  [w EXCEPT !.registration[t] = <<w.taskQueue[s]>>,
            !.taskQueue[s] = IF w.registration[t] = << >> THEN t ELSE w.registration[t][1]]

ClearCurrentTaskQueue(w, s, t) ==
  IF w.registration[t] = << >> THEN w
    ELSE [w EXCEPT !.registration[t] = << >>, !.taskQueue[s] = w.registration[t][1]]

SetCurrentThread(w, s, t) ==
  LET registered == IF t # Null THEN EnsureIsCurrentTaskQueue(w, s, t)
                    ELSE IF w.current[s] # Null THEN ClearCurrentTaskQueue(w, s, w.current[s])
                    ELSE w
  IN  [registered EXCEPT !.current[s] = t]

Becomes(w) ==
  current' = w.current /\ taskQueue' = w.taskQueue /\ registration' = w.registration

Registered(q, t) == [q EXCEPT ![t] = @ + 1]
Unregistered(q, t) == [q EXCEPT ![t] = IF @ > 0 THEN @ - 1 ELSE 0]

(* crit_: nobody adds or removes while the flush goes through the list.    *)
MayChangeList == flush.left = {} /\ flush.checked = Null

(* A thread of the program that is not in a call of the library.           *)
Unlocked(m) == joining[m] = << >> /\ flush.by # m
Depth(m) == Len(stack[m])

-----------------------------------------------------------------------------
(* Life of a Thread *)

Create(m, t) ==
  /\ Unlocked(m) /\ MayChangeList /\ kind[t] = "none"
  /\ kind' = [kind EXCEPT ![t] = "Thread"]
  /\ message_queues_' = Registered(message_queues_, t)
  /\ UNCHANGED <<currentVars, thread_, owned_, stop_, old_thread_, run, callVars, queueVars, starts, flush>>

Start(m, t) ==
  /\ Unlocked(m) /\ kind[t] = "Thread" /\ thread_[t] = Null /\ starts < MaxStarts
  /\ stop_' = [stop_ EXCEPT ![t] = FALSE]
  /\ owned_' = [owned_ EXCEPT ![t] = TRUE]
  /\ thread_' = [thread_ EXCEPT ![t] = t]
  /\ run' = [run EXCEPT ![t] = "prerun"]
  /\ starts' = starts + 1
  /\ UNCHANGED <<currentVars, kind, old_thread_, message_queues_, callVars, queueVars, flush>>

PreRun(t) ==
  /\ run[t] = "prerun"
  /\ Becomes(SetCurrentThread(Where, t, t))
  /\ run' = [run EXCEPT ![t] = "loop"]
  /\ UNCHANGED <<kind, thread_, owned_, stop_, old_thread_, message_queues_, callVars, queueVars, starts, flush>>

(* Get hands out what is ready, and looks at stop_ when nothing is, and    *)
(* waits; a marker alone may be due only after the time this scan has      *)
(* read.  Whoever quits after the scan may still be seen by that look.     *)
NothingReady(t) ==
  /\ \/ run[t] = "loop" /\ queue[t] \in {<< >>, <<Marker>>}
     \/ run[t] = "idle" /\ stop_[t]
  /\ run' = [run EXCEPT ![t] = IF stop_[t] THEN "postrun" ELSE "idle"]
  /\ UNCHANGED <<currentVars, kind, thread_, owned_, stop_, old_thread_, message_queues_, callVars,
                 queueVars, starts, flush>>

EndRun(t) ==
  /\ run[t] = "postrun"
  /\ run' = [run EXCEPT ![t] = "ended"]
  /\ Becomes(SetCurrentThread(Where, t, Null))
  /\ UNCHANGED <<kind, thread_, owned_, stop_, old_thread_, message_queues_, callVars, queueVars, starts, flush>>

(* Stop, and the destructor, which begins with it: Quit, then Join, which  *)
(* does not wait for a thread that does not run.                           *)
Stop(m, t, deletes) ==
  /\ Unlocked(m) /\ kind[t] = "Thread" /\ thread_[t] \in {Null, t}
  /\ \A n \in Mains : joining[n] # << >> => joining[n][1] # t
  /\ stop_' = [stop_ EXCEPT ![t] = TRUE]
  /\ joining' = [joining EXCEPT ![m] = <<t, deletes>>]
  /\ UNCHANGED <<currentVars, kind, thread_, owned_, old_thread_, run, message_queues_, stack,
                 queueVars, starts, flush>>

(* DoDestroy: the messages go, and with them the flush's markers.          *)
Destroyed(t) ==
  /\ MayChangeList
  /\ kind' = [kind EXCEPT ![t] = "deleted"]
  /\ queue' = [queue EXCEPT ![t] = << >>]
  /\ flush' = IF Contains(queue[t], Marker) THEN [flush EXCEPT !.open = @ - 1] ELSE flush

Join(m) ==
  /\ joining[m] # << >>
  /\ LET t == joining[m][1]
     IN  /\ thread_[t] = Null \/ run[t] = "ended"
         /\ thread_' = [thread_ EXCEPT ![t] = Null]
         /\ run' = [run EXCEPT ![t] = "off"]
         /\ joining' = [joining EXCEPT ![m] = << >>]
         /\ IF joining[m][2]
              THEN Destroyed(t) /\ message_queues_' = Unregistered(message_queues_, t)
              ELSE UNCHANGED <<kind, queue, flush, message_queues_>>
  /\ UNCHANGED <<currentVars, owned_, stop_, old_thread_, stack, posted, starts>>

-----------------------------------------------------------------------------
(* Threads of the program *)

WrapCurrentThread(m, t) ==
  /\ Unlocked(m) /\ MayChangeList /\ current[m] = Null /\ kind[t] = "none"
  /\ kind' = [kind EXCEPT ![t] = "Thread"]
  /\ message_queues_' = Registered(message_queues_, t)
  /\ thread_' = [thread_ EXCEPT ![t] = m]
  /\ owned_' = [owned_ EXCEPT ![t] = FALSE]
  /\ Becomes(SetCurrentThread(Where, m, t))
  /\ UNCHANGED <<stop_, old_thread_, run, callVars, queueVars, starts, flush>>

UnwrapCurrentThread(m) ==
  LET t == current[m]
  IN  /\ Unlocked(m) /\ t # Null /\ kind[t] = "Thread" /\ ~owned_[t]
      /\ Becomes(SetCurrentThread(Where, m, Null))
      /\ thread_' = [thread_ EXCEPT ![t] = Null]
      /\ stop_' = [stop_ EXCEPT ![t] = TRUE]
      /\ Destroyed(t)
      /\ message_queues_' = Unregistered(message_queues_, t)
      /\ UNCHANGED <<owned_, old_thread_, run, callVars, posted, starts>>

(* An AutoThread does nothing where there is a current thread.             *)
AutoThread(m, t) ==
  /\ Unlocked(m) /\ Depth(m) < MaxStack /\ MayChangeList /\ kind[t] = "none"
  /\ kind' = [kind EXCEPT ![t] = "AutoThread"]
  /\ stack' = [stack EXCEPT ![m] = Append(@, t)]
  /\ IF current[m] = Null
       THEN message_queues_' = Registered(message_queues_, t) /\ Becomes(SetCurrentThread(Where, m, t))
       ELSE UNCHANGED <<message_queues_, currentVars>>
  /\ UNCHANGED <<thread_, owned_, stop_, old_thread_, run, joining, queueVars, starts, flush>>

(* Mutant: the old thread is replaced in one go, back and forth. *)
Replace_AtOnce(s, t) == SetCurrentThread(Where, s, t)

(* AutoSocketServerThread sets nobody between the old and the new one.     *)
Replace(s, t) == SetCurrentThread(SetCurrentThread(Where, s, Null), s, t)

AutoSocketServerThread(m, t) ==
  LET old == current[m]
      added == Registered(message_queues_, t)
  IN  /\ Unlocked(m) /\ Depth(m) < MaxStack /\ MayChangeList /\ kind[t] = "none"
      /\ kind' = [kind EXCEPT ![t] = "AutoSocketServerThread"]
      /\ stack' = [stack EXCEPT ![m] = Append(@, t)]
      /\ old_thread_' = [old_thread_ EXCEPT ![t] = old]
      /\ Becomes(Replace(m, t))
      /\ message_queues_' = IF old = Null THEN added ELSE Unregistered(added, old)
      /\ UNCHANGED <<thread_, owned_, stop_, run, joining, queueVars, starts, flush>>

(* The end of the innermost scope.                                         *)
EndScope(m) ==
  LET t == Last(stack[m])
      old == old_thread_[t]
      removed == Unregistered(message_queues_, t)
  IN  /\ Unlocked(m) /\ stack[m] # << >> /\ Destroyed(t)
      /\ stack' = [stack EXCEPT ![m] = Front(@)]
      /\ stop_' = [stop_ EXCEPT ![t] = TRUE]
      /\ IF kind[t] = "AutoThread"
           THEN /\ message_queues_' = removed
                /\ IF current[m] = t THEN Becomes(SetCurrentThread(Where, m, Null))
                                     ELSE UNCHANGED currentVars
           ELSE /\ current[m] = t
                /\ Becomes(Replace(m, old))
                /\ message_queues_' = IF old = Null THEN removed ELSE Registered(removed, old)
      /\ UNCHANGED <<thread_, owned_, old_thread_, run, joining, posted, starts>>

-----------------------------------------------------------------------------
(* Messages, and the flush *)

Exists(t) == kind[t] \notin {"none", "deleted"}

(* A marker that still is among the delayed messages lets others past.     *)
Post(t) ==
  /\ Exists(t) /\ ~stop_[t] /\ posted < MaxMessages
  /\ posted' = posted + 1
  /\ \/ queue' = [queue EXCEPT ![t] = Append(@, posted')]
     \/ /\ queue[t] # << >> /\ Last(queue[t]) = Marker
        /\ queue' = [queue EXCEPT ![t] = Append(Append(Front(@), posted'), Marker)]
  /\ UNCHANGED <<currentVars, objectVars, callVars, starts, flush>>

(* A task, or any other thread, may ask a thread to end.                   *)
Quit(t) ==
  /\ Exists(t) /\ ~stop_[t]
  /\ stop_' = [stop_ EXCEPT ![t] = TRUE]
  /\ UNCHANGED <<currentVars, kind, thread_, owned_, old_thread_, run, message_queues_, callVars,
                 queueVars, starts, flush>>

(* A thread that runs, or one whose system thread processes messages.  One *)
(* that is to end still hands out what is ready.                           *)
Processes(t) ==
  \/ run[t] \in {"loop", "idle"}
  \/ \E m \in Mains : current[m] = t /\ (Unlocked(m) \/ (flush.by = m /\ MayChangeList))

Dispatch(t) ==
  /\ queue[t] # << >> /\ Processes(t)
  /\ run' = [run EXCEPT ![t] = IF @ = "idle" THEN "loop" ELSE @]
  /\ queue' = [queue EXCEPT ![t] = Tail(@)]
  /\ flush' = IF Head(queue[t]) = Marker THEN [flush EXCEPT !.open = @ - 1] ELSE flush
  /\ UNCHANGED <<currentVars, kind, thread_, owned_, stop_, old_thread_, message_queues_, callVars,
                 posted, starts>>

IsProcessingMessages(m, t) == (owned_[t] \/ current[m] = t) /\ ~stop_[t]

BeginFlush(m) ==
  /\ Unlocked(m) /\ flush = NoFlush
  /\ flush' = [flush EXCEPT !.by = m, !.left = {t \in Threads : message_queues_[t] > 0}]
  /\ UNCHANGED <<currentVars, objectVars, callVars, queueVars, starts>>

(* The queues are asked in their order, which makes no difference.         *)
CheckQueue ==
  /\ flush.left # {} /\ flush.checked = Null
  /\ LET t == CHOOSE t \in flush.left : TRUE
     IN  flush' = IF IsProcessingMessages(flush.by, t)
                    THEN [flush EXCEPT !.checked = t, !.open = @ + 1]
                    ELSE [flush EXCEPT !.left = @ \ {t}]
  /\ UNCHANGED <<currentVars, objectVars, callVars, queueVars, starts>>

(* Refused by a thread that quits, the marker is dropped, which counts as  *)
(* done.                                                                   *)
AdmitMarker ==
  /\ flush.checked # Null /\ ~flush.admitted
  /\ flush' = IF stop_[flush.checked]
                THEN [flush EXCEPT !.checked = Null, !.left = @ \ {flush.checked}, !.open = @ - 1]
                ELSE [flush EXCEPT !.admitted = TRUE]
  /\ UNCHANGED <<currentVars, objectVars, callVars, queueVars, starts>>

MarkerIsIn(t) ==
  flush' = [flush EXCEPT !.checked = Null, !.left = @ \ {t}, !.admitted = FALSE,
              !.before = @ \cup {<<t, n>> : n \in ToSet(queue[t])}]

(* Mutant: the marker overtakes the messages. *)
PostMarker_First ==
  /\ flush.admitted
  /\ MarkerIsIn(flush.checked)
  /\ queue' = [queue EXCEPT ![flush.checked] = <<Marker>> \o @]
  /\ UNCHANGED <<currentVars, objectVars, callVars, posted, starts>>

(* Once admitted it is pushed, though the thread may have ended since.  Its *)
(* delay is zero, so it comes after what is in the queue.                   *)
PostMarker ==
  /\ flush.admitted
  /\ MarkerIsIn(flush.checked)
  /\ queue' = [queue EXCEPT ![flush.checked] = Append(@, Marker)]
  /\ UNCHANGED <<currentVars, objectVars, callVars, posted, starts>>

EndFlush ==
  /\ flush.by # Null /\ MayChangeList /\ flush.open = 0
  /\ flush' = NoFlush
  /\ UNCHANGED <<currentVars, objectVars, callVars, queueVars, starts>>

-----------------------------------------------------------------------------

Next ==
  \/ \E m \in Mains, t \in Threads :
       \/ Create(m, t) \/ Start(m, t) \/ (\E d \in BOOLEAN : Stop(m, t, d))
       \/ WrapCurrentThread(m, t) \/ AutoThread(m, t) \/ AutoSocketServerThread(m, t)
  \/ \E m \in Mains : Join(m) \/ UnwrapCurrentThread(m) \/ EndScope(m) \/ BeginFlush(m)
  \/ \E t \in Threads : \/ PreRun(t) \/ NothingReady(t) \/ EndRun(t)
                       \/ Quit(t) \/ Post(t) \/ Dispatch(t)
  \/ CheckQueue \/ AdmitMarker \/ PostMarker \/ EndFlush

Spec == Init /\ [][Next]_vars

(* The flush goes on, and so do the threads that run.                      *)
IsServed(t) ==
  run[t] \in {"prerun", "loop", "idle"} \/ \E m \in Mains : flush.by = m /\ current[m] = t
FlushStep == CheckQueue \/ AdmitMarker \/ PostMarker \/ EndFlush
ThreadsStep == \E t \in Threads : PreRun(t) \/ (Dispatch(t) /\ IsServed(t))
Fairness == WF_vars(FlushStep) /\ WF_vars(ThreadsStep)

(* On every system thread the current rtc::Thread is the current task      *)
(* queue, it exists, and it is registered once; a thread that an           *)
(* AutoSocketServerThread hides is not, until that one goes.               *)
CurrentThreadsAgree ==
  /\ \A s \in SystemThreads :
       /\ taskQueue[s] = current[s]
       /\ current[s] # Null => Exists(current[s]) /\ message_queues_[current[s]] = 1
  /\ \A t \in Threads :
       Exists(t) /\ old_thread_[t] # Null =>
         Exists(old_thread_[t]) /\ message_queues_[old_thread_[t]] = 0

(* "All messages that came before it were also dispatched" when the flush  *)
(* returns (thread.cc:190), on the queues that took its marker; no marker  *)
(* stays behind.                                                           *)
EarlierMessagesDispatched ==
  [][flush.by # Null /\ flush'.by = Null =>
       \A t \in Threads : /\ ~Contains(queue[t], Marker)
                          /\ \A n \in ToSet(queue[t]) : <<t, n>> \notin flush.before]_vars

(* It returns, unless a marker stays for ever with a thread that nobody    *)
(* runs: one that is not started, one that ended after it was asked, one   *)
(* of another thread of the program.                                       *)
FlushReturns ==
  \/ []<>(flush.by = Null)
  \/ <>[](flush.by # Null /\ \E t \in Threads : Contains(queue[t], Marker) /\ ~IsServed(t))
===============================================================================
