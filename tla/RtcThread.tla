------------------------------ MODULE RtcThread ------------------------------
(***************************************************************************)
(* One rtc::Thread: its queue of messages, its delayed messages, its loop  *)
(* ProcessMessages/Get over a NullSocketServer, and its life: Start, Quit, *)
(* Join, Restart, destruction (rtc_base/thread.cc).                        *)
(*                                                                         *)
(* A critical section of mutex_, a load or store of stop_, a reading of    *)
(* the clock and a call on the socket server's event are one step each.    *)
(* One clock unit is one millisecond.                                      *)
(***************************************************************************)
EXTENDS Integers, Sequences, FiniteSets

CONSTANTS Tasks,      \* the closures the program may post
          Delays,     \* the delays of PostDelayedTask, in milliseconds
          Loops,      \* the arguments of ProcessMessages besides kForever
          Threads,    \* the other threads, which post
          Self,       \* the thread itself, which posts when a task does
          MaxStarts,  \* bound: how often Start is called
          MaxTime     \* bound: the clock stops here unless the loop sleeps

kForever == -1

ASSUME ThreadAssumption ==
  /\ Delays \subseteq Nat
  /\ Loops \subseteq Nat
  /\ Self \notin Threads
  /\ MaxStarts \in Nat
  /\ MaxTime \in Nat

VARIABLES
  messages_,          \* sequence of tasks
  delayed_messages_,  \* set of [run_time_ms, message_number, task]
  delayed_next_num_,
  stop_,
  event_,             \* the socket server's event
  now,                \* rtc::TimeMillis()
  wpc,                \* where the thread is in its loop
  cmsLoop, msEnd,     \* ProcessMessages: its argument, and when it ends
  cmsWait,            \* the argument of Get
  getEnd,             \* msStart + cmsWait: when Get gives up, or kForever
  msCurrent, cmsNext, \* locals of Get
  deadline,           \* when the Wait in progress times out
  run_task,           \* the task being dispatched, or NoTask
  ppc, call,          \* where each poster is, and the locals of its call
  opc,                \* the owner: "stopped", "running", "wake", "join", "destroyed"
  starts,             \* how often the thread was started
  fate,               \* history: what became of each task
  accepted,           \* history: the tasks pushed, as [task, delayed, at]
  readyAtQuit         \* history: the tasks ready when Quit stored stop_

queueVars == <<messages_, delayed_messages_, delayed_next_num_>>
getVars == <<cmsWait, getEnd, msCurrent, cmsNext, deadline>>
loopVars == <<wpc, cmsLoop, msEnd, getVars, run_task>>
posterVars == <<ppc, call>>
ownerVars == <<opc, starts, readyAtQuit>>
vars == <<queueVars, stop_, event_, now, loopVars, posterVars, ownerVars, fate,
          accepted>>

-----------------------------------------------------------------------------
Posters == Threads \cup {Self}
NoTask == "no task"
Message == [run_time_ms : Nat, message_number : Nat, task : Tasks]
Call == [task : Tasks, delayed : BOOLEAN, run_time_ms : Nat]
NoCall == [task |-> NoTask, delayed |-> FALSE, run_time_ms |-> 0]

(* Mutant: equal run times come out in reverse order.                      *)
Sooner_TiesReversed(m, n) ==
  \/ m.run_time_ms < n.run_time_ms
  \/ m.run_time_ms = n.run_time_ms /\ m.message_number > n.message_number

(* DelayedMessage::operator<: the top of the queue is the earliest, and    *)
(* the first posted among equals.                                          *)
Sooner(m, n) ==
  \/ m.run_time_ms < n.run_time_ms
  \/ m.run_time_ms = n.run_time_ms /\ m.message_number < n.message_number

Init ==
  /\ messages_ = << >>
  /\ delayed_messages_ = {}
  /\ delayed_next_num_ = 0
  /\ stop_ = FALSE
  /\ event_ = FALSE
  /\ now = 0
  /\ wpc = "exited"
  /\ cmsLoop = kForever
  /\ msEnd = 0
  /\ cmsWait = kForever
  /\ getEnd = kForever
  /\ msCurrent = 0
  /\ cmsNext = kForever
  /\ deadline = kForever
  /\ run_task = NoTask
  /\ ppc = [p \in Posters |-> "idle"]
  /\ call = [p \in Posters |-> NoCall]
  /\ opc = "stopped"
  /\ starts = 0
  /\ fate = [t \in Tasks |-> "new"]
  /\ accepted = << >>
  /\ readyAtQuit = {}

-----------------------------------------------------------------------------
(* Posting *)

(* Other threads may post while the object exists, stopped or not.         *)
MayPost(p) == IF p = Self THEN wpc = "run" ELSE opc # "destroyed"

BeginCall(p, t, isDelayed, d) ==
  /\ ppc[p] = "idle"
  /\ MayPost(p)
  /\ fate[t] = "new"
  /\ fate' = [fate EXCEPT ![t] = "calling"]
  /\ ppc' = [ppc EXCEPT ![p] = "check"]
  /\ call' = [call EXCEPT ![p] = [task |-> t, delayed |-> isDelayed, run_time_ms |-> d]]
  /\ UNCHANGED <<queueVars, stop_, event_, now, loopVars, ownerVars, accepted>>

PostTask(p, t) == BeginCall(p, t, FALSE, 0)
PostDelayedTask(p, t, d) == BeginCall(p, t, TRUE, d)

(* A thread that is quitting refuses the task, which is destroyed.         *)
Refuse(p) ==
  /\ ppc[p] = "check"
  /\ stop_
  /\ fate' = [fate EXCEPT ![call[p].task] = "refused"]
  /\ ppc' = [ppc EXCEPT ![p] = "idle"]
  /\ call' = [call EXCEPT ![p] = NoCall]
  /\ UNCHANGED <<queueVars, stop_, event_, now, loopVars, ownerVars, accepted>>

(* Otherwise the run time is computed, before the lock is taken.           *)
Admit(p) ==
  /\ ppc[p] = "check"
  /\ ~stop_
  /\ call' = [call EXCEPT ![p].run_time_ms = now + @]
  /\ ppc' = [ppc EXCEPT ![p] = "push"]
  /\ UNCHANGED <<queueVars, stop_, event_, now, loopVars, ownerVars,
                 fate, accepted>>

Push(p) ==
  /\ ppc[p] = "push"
  /\ LET c == call[p]
     IN  /\ IF c.delayed
              THEN /\ delayed_messages_' = delayed_messages_ \cup
                        {[run_time_ms |-> c.run_time_ms,
                          message_number |-> delayed_next_num_, task |-> c.task]}
                   /\ delayed_next_num_' = delayed_next_num_ + 1
                   /\ UNCHANGED messages_
              ELSE /\ messages_' = Append(messages_, c.task)
                   /\ UNCHANGED <<delayed_messages_, delayed_next_num_>>
         /\ fate' = [fate EXCEPT ![c.task] = "queued"]
         /\ accepted' = Append(accepted, [task |-> c.task, delayed |-> c.delayed,
                                          at |-> c.run_time_ms])
  /\ ppc' = [ppc EXCEPT ![p] = "wakeup"]
  /\ call' = [call EXCEPT ![p] = NoCall]
  /\ UNCHANGED <<stop_, event_, now, loopVars, ownerVars>>

WakeUp(p) ==
  /\ ppc[p] = "wakeup"
  /\ event_' = TRUE
  /\ ppc' = [ppc EXCEPT ![p] = "idle"]
  /\ UNCHANGED <<queueVars, stop_, now, loopVars, call, ownerVars,
                 fate, accepted>>

-----------------------------------------------------------------------------
(* The loop *)

(* ProcessMessages(l) begins.                                              *)
BeginLoop ==
  /\ wpc = "begin"
  /\ \E l \in Loops \cup {kForever} :
       /\ cmsLoop' = l
       /\ msEnd' = IF l = kForever THEN 0 ELSE now + l
       /\ cmsWait' = l
  /\ wpc' = "get"
  /\ UNCHANGED <<queueVars, stop_, event_, now, getEnd, msCurrent, cmsNext, deadline,
                 run_task, posterVars, ownerVars, fate, accepted>>

BeginGet ==
  /\ wpc = "get"
  /\ msCurrent' = now
  /\ getEnd' = IF cmsWait = kForever THEN kForever ELSE now + cmsWait
  /\ wpc' = "scan"
  /\ UNCHANGED <<queueVars, stop_, event_, now, cmsLoop, msEnd, cmsWait, cmsNext,
                 deadline, run_task, posterVars, ownerVars, fate, accepted>>

(* The locals of Get go out of scope.                                      *)
LeaveGet ==
  /\ cmsWait' = kForever
  /\ getEnd' = kForever
  /\ msCurrent' = 0
  /\ cmsNext' = kForever
  /\ deadline' = kForever

(* Under the lock the delayed messages that are due move behind the others *)
(* in the order of the priority queue; then the first message is taken.    *)
Triggered == {m \in delayed_messages_ : m.run_time_ms <= msCurrent}

(* The triggered messages as the priority queue gives them out.            *)
DueOrders ==
  {due \in [1 .. Cardinality(Triggered) -> Triggered] :
     /\ \A m \in Triggered : \E i \in DOMAIN due : due[i] = m
     /\ \A i, j \in DOMAIN due : i < j => Sooner(due[i], due[j])}

TakeMessage ==
  /\ wpc = "scan"
  /\ \E due \in DueOrders :
       LET released == messages_ \o [i \in DOMAIN due |-> due[i].task]
       IN  /\ released # << >>
           /\ messages_' = Tail(released)
           /\ run_task' = Head(released)
           /\ fate' = [fate EXCEPT ![Head(released)] = "running"]
  /\ delayed_messages_' = delayed_messages_ \ Triggered
  /\ wpc' = "run"
  /\ LeaveGet
  /\ UNCHANGED <<delayed_next_num_, stop_, event_, now, cmsLoop, msEnd, posterVars,
                 ownerVars, accepted>>

(* How long until the top of the priority queue is due.                    *)
IsTop(m) == m \in delayed_messages_ /\ \A n \in delayed_messages_ : n = m \/ Sooner(m, n)

DelayNext ==
  IF delayed_messages_ = {}
    THEN {kForever}
    ELSE {m.run_time_ms - msCurrent : m \in {n \in delayed_messages_ : IsTop(n)}}

NothingReady ==
  /\ wpc = "scan"
  /\ messages_ = << >> /\ Triggered = {}
  /\ cmsNext' \in DelayNext
  /\ wpc' = "check"
  /\ UNCHANGED <<queueVars, stop_, event_, now, cmsLoop, msEnd, cmsWait, getEnd,
                 msCurrent, deadline, run_task, posterVars, ownerVars, fate, accepted>>

CheckQuitting ==
  /\ wpc = "check"
  /\ stop_
  /\ wpc' = "null"
  /\ LeaveGet
  /\ UNCHANGED <<queueVars, stop_, event_, now, cmsLoop, msEnd, run_task,
                 posterVars, ownerVars, fate, accepted>>

(* Mutant: a Get with a timeout sleeps for all of it.                      *)
Shorter_AskedWait ==
  IF getEnd = kForever THEN cmsNext
  ELSE IF getEnd > msCurrent THEN getEnd - msCurrent ELSE 0

(* The shorter of the delay wait and the asked wait, from msCurrent on.    *)
Shorter ==
  IF getEnd = kForever THEN cmsNext
  ELSE LET left == IF getEnd > msCurrent THEN getEnd - msCurrent ELSE 0
       IN  IF cmsNext # kForever /\ cmsNext < left THEN cmsNext ELSE left

CheckNotQuitting ==
  /\ wpc = "check"
  /\ ~stop_
  /\ cmsNext' = Shorter
  /\ wpc' = "sleep"
  /\ UNCHANGED <<queueVars, stop_, event_, now, cmsLoop, msEnd, cmsWait, getEnd,
                 msCurrent, deadline, run_task, posterVars, ownerVars, fate, accepted>>

(* Mutant: a wait for the next delayed message never ends by itself.       *)
BeginWait_Forever ==
  /\ wpc = "sleep"
  /\ deadline' = kForever
  /\ wpc' = "wait"
  /\ UNCHANGED <<queueVars, stop_, event_, now, cmsLoop, msEnd, cmsWait, getEnd,
                 msCurrent, cmsNext, run_task, posterVars, ownerVars, fate, accepted>>

BeginWait ==
  /\ wpc = "sleep"
  /\ deadline' = IF cmsNext = kForever THEN kForever ELSE now + cmsNext
  /\ wpc' = "wait"
  /\ UNCHANGED <<queueVars, stop_, event_, now, cmsLoop, msEnd, cmsWait, getEnd,
                 msCurrent, cmsNext, run_task, posterVars, ownerVars, fate, accepted>>

TimedOut == deadline # kForever /\ now >= deadline

EndWait ==
  /\ wpc = "wait"
  /\ \/ event_ /\ event_' = FALSE
     \/ TimedOut /\ UNCHANGED event_
  /\ wpc' = "awake"
  /\ UNCHANGED <<queueVars, stop_, now, cmsLoop, msEnd, getVars, run_task,
                 posterVars, ownerVars, fate, accepted>>

(* The clock is read again; a Get with a timeout may be over.              *)
Awake ==
  /\ wpc = "awake"
  /\ IF getEnd # kForever /\ now >= getEnd
       THEN wpc' = "null" /\ LeaveGet
       ELSE /\ wpc' = "scan"
            /\ msCurrent' = now
            /\ UNCHANGED <<cmsWait, getEnd, cmsNext, deadline>>
  /\ UNCHANGED <<queueVars, stop_, event_, now, cmsLoop, msEnd, run_task,
                 posterVars, ownerVars, fate, accepted>>

(* Get returned no task: ProcessMessages returns !IsQuitting(), and the    *)
(* thread that runs it calls it again while that is true.                  *)
ReturnNull ==
  /\ wpc = "null"
  /\ wpc' = IF stop_ THEN "exited" ELSE "begin"
  /\ UNCHANGED <<queueVars, stop_, event_, now, cmsLoop, msEnd, getVars, run_task,
                 posterVars, ownerVars, fate, accepted>>

(* Dispatch returned: what is left of the loop's time is the next wait.    *)
FinishTask ==
  /\ wpc = "run"
  /\ ppc[Self] = "idle"
  /\ fate' = [fate EXCEPT ![run_task] = "run"]
  /\ run_task' = NoTask
  /\ IF cmsLoop = kForever
       THEN cmsWait' = kForever /\ wpc' = "get"
       ELSE IF msEnd < now
              THEN cmsWait' = kForever /\ wpc' = "begin"
              ELSE cmsWait' = msEnd - now /\ wpc' = "get"
  /\ UNCHANGED <<queueVars, stop_, event_, now, cmsLoop, msEnd, getEnd, msCurrent,
                 cmsNext, deadline, posterVars, ownerVars, accepted>>

-----------------------------------------------------------------------------
(* The owner *)

(* Start resets stop_ (Restart) before the new OS thread enters Run.       *)
Start ==
  /\ opc = "stopped"
  /\ starts < MaxStarts
  /\ starts' = starts + 1
  /\ stop_' = FALSE
  /\ readyAtQuit' = {}
  /\ wpc' = "begin"
  /\ opc' = "running"
  /\ UNCHANGED <<queueVars, event_, now, cmsLoop, msEnd, getVars, run_task,
                 posterVars, fate, accepted>>

Ready == {messages_[i] : i \in DOMAIN messages_} \cup
         {m.task : m \in {n \in delayed_messages_ : n.run_time_ms <= now}}

(* Stop is Quit and Join; Quit stores stop_ and wakes the loop.            *)
Quit ==
  /\ opc = "running"
  /\ stop_' = TRUE
  /\ readyAtQuit' = Ready
  /\ opc' = "wake"
  /\ UNCHANGED <<queueVars, event_, now, loopVars, posterVars, starts, fate, accepted>>

QuitWakeUp ==
  /\ opc = "wake"
  /\ event_' = TRUE
  /\ opc' = "join"
  /\ UNCHANGED <<queueVars, stop_, now, loopVars, posterVars, starts, readyAtQuit,
                 fate, accepted>>

Join ==
  /\ opc = "join"
  /\ wpc = "exited"
  /\ opc' = "stopped"
  /\ UNCHANGED <<queueVars, stop_, event_, now, loopVars, posterVars, starts,
                 readyAtQuit, fate, accepted>>

(* The destructor of a stopped thread, once nobody posts to it any more:   *)
(* Stop again, then DoDestroy clears the queues.                           *)
Destroy ==
  /\ opc = "stopped"
  /\ starts > 0
  /\ \A p \in Threads : ppc[p] = "idle"
  /\ opc' = "destroyed"
  /\ stop_' = TRUE
  /\ event_' = TRUE
  /\ messages_' = << >>
  /\ delayed_messages_' = {}
  /\ fate' = [t \in Tasks |-> IF fate[t] = "queued" THEN "destroyed" ELSE fate[t]]
  /\ UNCHANGED <<delayed_next_num_, now, loopVars, posterVars, starts, readyAtQuit,
                 accepted>>

-----------------------------------------------------------------------------
(* Time passes up to MaxTime, and beyond it only until the delayed         *)
(* messages are due.                                                       *)
Tick ==
  /\ now < MaxTime \/ (wpc = "wait" /\ delayed_messages_ # {} /\ now < deadline)
  /\ now' = now + 1
  /\ UNCHANGED <<queueVars, stop_, event_, loopVars, posterVars, ownerVars, fate,
                 accepted>>

Post == \E p \in Posters, t \in Tasks :
          PostTask(p, t) \/ \E d \in Delays : PostDelayedTask(p, t, d)

Poster(p) == Refuse(p) \/ Admit(p) \/ Push(p) \/ WakeUp(p)

Loop ==
  \/ BeginLoop
  \/ BeginGet
  \/ TakeMessage
  \/ NothingReady
  \/ CheckQuitting
  \/ CheckNotQuitting
  \/ BeginWait
  \/ EndWait
  \/ Awake
  \/ ReturnNull
  \/ FinishTask

Next ==
  \/ Post
  \/ \E p \in Posters : Poster(p)
  \/ Loop
  \/ Start
  \/ Quit
  \/ QuitWakeUp
  \/ Join
  \/ Destroy
  \/ Tick

Spec == Init /\ [][Next]_vars

(* Every thread that can run is scheduled, tasks return, time passes, and  *)
(* Stop runs to its end; nobody has to post, to start or to stop.          *)
Fairness ==
  /\ WF_vars(Loop)
  /\ \A p \in Posters : WF_vars(Poster(p))
  /\ WF_vars(QuitWakeUp)
  /\ WF_vars(Join)
  /\ WF_vars(Tick)

FairSpec == Spec /\ Fairness

-----------------------------------------------------------------------------
(* Properties *)

TypeOK ==
  /\ messages_ \in Seq(Tasks)
  /\ delayed_messages_ \subseteq Message
  /\ delayed_next_num_ \in Nat
  /\ stop_ \in BOOLEAN
  /\ event_ \in BOOLEAN
  /\ now \in Nat
  /\ wpc \in {"begin", "get", "scan", "check", "sleep", "wait", "awake", "null",
              "run", "exited"}
  /\ cmsLoop \in Nat \cup {kForever}
  /\ msEnd \in Nat
  /\ cmsWait \in Nat \cup {kForever}
  /\ getEnd \in Nat \cup {kForever}
  /\ msCurrent \in Nat
  /\ cmsNext \in Nat \cup {kForever}
  /\ deadline \in Nat \cup {kForever}
  /\ run_task \in Tasks \cup {NoTask}
  /\ wpc = "run" => run_task \in Tasks
  /\ ppc \in [Posters -> {"idle", "check", "push", "wakeup"}]
  /\ call \in [Posters -> Call \cup {NoCall}]
  /\ \A p \in Posters : ppc[p] \in {"check", "push"} => call[p] \in Call
  /\ opc \in {"stopped", "running", "wake", "join", "destroyed"}
  /\ starts \in 0 .. MaxStarts
  /\ fate \in [Tasks -> {"new", "calling", "refused", "queued", "running", "run",
                         "destroyed"}]
  /\ readyAtQuit \subseteq Tasks

(* The thread never waits on work nobody will wake it for: while it waits, *)
(* and unless the event is set or about to be set, no message is ready, it *)
(* was not told to quit, and the wait ends no later than the first delayed *)
(* message is due, counted from the clock reading of the last scan.        *)
WakeUpComing == opc = "wake" \/ \E p \in Posters : ppc[p] = "wakeup"

NoLostWakeUp ==
  wpc \in {"sleep", "wait"} /\ ~event_ /\ ~WakeUpComing =>
    /\ messages_ = << >>
    /\ ~stop_
    /\ \A m \in delayed_messages_ :
         cmsNext # kForever /\ msCurrent + cmsNext <= m.run_time_ms

(* A task that starts does so no earlier than asked for, and overtakes     *)
(* only what it may: an immediate task overtakes delayed ones, a delayed   *)
(* one overtakes delayed ones that are due later ("Messages with the same  *)
(* trigger time are processed in num_ (FIFO) order", thread.h:397-398).    *)
Starts(t) == fate[t] = "queued" /\ fate'[t] = "running"

MayOvertake(later, earlier) ==
  earlier.delayed /\ (later.delayed => earlier.at > later.at)

StartIsInOrder ==
  \A i \in DOMAIN accepted :
    Starts(accepted[i].task) =>
      /\ now >= accepted[i].at
      /\ \A j \in 1 .. i - 1 :
           fate[accepted[j].task] = "queued" => MayOvertake(accepted[i], accepted[j])

StartsInOrder == [][StartIsInOrder]_vars

(* A thread that is not told to quit runs what it accepted; what is left   *)
(* when it quits waits for a restart or is destroyed with the object; and  *)
(* Stop returns.                                                           *)
EveryTaskSettles ==
  /\ \A t \in Tasks : []<>(fate[t] # "queued" \/ opc # "running")
  /\ []<>(opc \notin {"wake", "join"})

(* What thread.h:252-257 says of Quit: "any pending Sends and *ready*      *)
(* Posts ... will be delivered before Get (or Peek) returns false".        *)
ReadyPostsDelivered ==
  wpc = "exited" => \A t \in readyAtQuit : fate[t] # "queued"
==============================================================================
