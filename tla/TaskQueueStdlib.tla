--------------------------- MODULE TaskQueueStdlib ---------------------------
(***************************************************************************)
(* The task queue of the Linux build: one worker thread, a FIFO of pending *)
(* tasks, an ordered map of delayed tasks, a mutex and an auto-reset event *)
(* (rtc_base/task_queue_stdlib.cc).                                        *)
(*                                                                         *)
(* A critical section of pending_lock_ is one step, as is a call on the    *)
(* event (module PosixEvent shows that it may be); reading the clock and   *)
(* sleeping are steps of their own, because the code does both outside the *)
(* lock.  One clock unit is one microsecond; UsPerMs of them make the unit *)
(* in which the worker can sleep.                                          *)
(***************************************************************************)
EXTENDS Integers, Sequences

CONSTANTS Tasks,      \* the closures the program may post
          Delays,     \* the delays given to PostDelayedTask
          Threads,    \* the threads outside of the queue that post to it
          Worker,     \* the queue's own thread, which posts when a task does
          UsPerMs,    \* clock units per unit of sleep
          MaxTime     \* bound: the clock stops here unless the worker sleeps

ASSUME TasksAssumption == Delays \subseteq Nat /\ Worker \notin Threads
ASSUME TimeAssumption == UsPerMs \in Nat \ {0} /\ MaxTime \in Nat

VARIABLES
  pending_queue_,         \* sequence of [order, task]
  delayed_queue_,         \* map from [next_fire_at_us, order] to a task
  thread_posting_order_,
  thread_should_quit_,
  flag_notify_,           \* the event's event_status_
  now,                    \* rtc::TimeMicros()
  wpc,                    \* where the worker is in ProcessTasks
  tick_us,                \* GetNextTask's reading of the clock
  sleep_time,             \* NextTask::sleep_time
  deadline,               \* when the Wait in progress times out
  run_task,               \* the task the worker holds, or NoTask
  ppc,                    \* where each poster is in its PostTask call
  call,                   \* the arguments and locals of that call
  dpc,                    \* how far the owner's Delete has come
  fate, kind, notBefore   \* history: see TaskQueueBase

queueVars == <<pending_queue_, delayed_queue_, thread_posting_order_,
               thread_should_quit_>>
workerVars == <<wpc, tick_us, sleep_time, deadline, run_task>>
posterVars == <<ppc, call>>
historyVars == <<fate, kind, notBefore>>
vars == <<queueVars, flag_notify_, now, workerVars, posterVars, dpc, historyVars>>

-----------------------------------------------------------------------------
Posters == Threads \cup {Worker}
NoTask == "no task"
EmptyMap == [k \in {} |-> NoTask]
kForever == -1

Entry == [order : Nat, task : Tasks]
Key == [next_fire_at_us : Nat, order : Nat]
Call == [task : Tasks, delayed : BOOLEAN, next_fire_at_us : Nat]
NoCall == [task |-> NoTask, delayed |-> FALSE, next_fire_at_us |-> 0]

DivideRoundUp(dividend, divisor) == (dividend + divisor - 1) \div divisor

(* map[k] = v of std::map: a key that is there already is overwritten.     *)
Put(map, k, v) == [l \in DOMAIN map \cup {k} |-> IF l = k THEN v ELSE map[l]]

(* DelayedEntryTimeout::operator<, the order of the map.                   *)
Earlier(k, l) ==
  \/ k.next_fire_at_us < l.next_fire_at_us
  \/ k.next_fire_at_us = l.next_fire_at_us /\ k.order < l.order

(* delayed_queue_.begin() *)
IsBegin(k) ==
  /\ k \in DOMAIN delayed_queue_
  /\ \A l \in DOMAIN delayed_queue_ : l = k \/ Earlier(k, l)

Init ==
  /\ pending_queue_ = << >>
  /\ delayed_queue_ = EmptyMap
  /\ thread_posting_order_ = 0
  /\ thread_should_quit_ = FALSE
  /\ flag_notify_ = FALSE
  /\ now = 0
  /\ wpc = "tick"
  /\ tick_us = 0
  /\ sleep_time = 0
  /\ deadline = 0
  /\ run_task = NoTask
  /\ ppc = [p \in Posters |-> "idle"]
  /\ call = [p \in Posters |-> NoCall]
  /\ dpc = "live"
  /\ fate = [t \in Tasks |-> "new"]
  /\ kind = [t \in Tasks |-> "none"]
  /\ notBefore = [t \in Tasks |-> 0]

-----------------------------------------------------------------------------
(* Posting *)

(* Who may call: a thread before the owner calls Delete, the worker only   *)
(* from inside a task (task_queue_base.h:44-47).                           *)
MayPost(p) == IF p = Worker THEN wpc = "run" ELSE dpc = "live"

BeginCall(p, t, k, d) ==
  /\ ppc[p] = "idle"
  /\ MayPost(p)
  /\ fate[t] = "new"
  /\ ppc' = [ppc EXCEPT ![p] = "push"]
  /\ call' = [call EXCEPT ![p] = [task |-> t, delayed |-> k = "delayed",
                                  next_fire_at_us |-> now + d]]
  /\ fate' = [fate EXCEPT ![t] = "calling"]
  /\ kind' = [kind EXCEPT ![t] = k]
  /\ notBefore' = [notBefore EXCEPT ![t] = now + d]
  /\ UNCHANGED <<queueVars, flag_notify_, now, workerVars, dpc>>

PostTask(p, t) == BeginCall(p, t, "immediate", 0)

(* The fire time is computed before the lock is taken.                     *)
PostDelayedTask(p, t, d) == BeginCall(p, t, "delayed", d)

PushPending(p) ==
  /\ ppc[p] = "push"
  /\ ~call[p].delayed
  /\ thread_posting_order_' = thread_posting_order_ + 1
  /\ pending_queue_' = Append(pending_queue_, [order |-> thread_posting_order_',
                                               task |-> call[p].task])
  /\ ppc' = [ppc EXCEPT ![p] = "notify"]
  /\ call' = [call EXCEPT ![p] = NoCall]
  /\ fate' = [fate EXCEPT ![call[p].task] = "queued"]
  /\ UNCHANGED <<delayed_queue_, thread_should_quit_, flag_notify_, now,
                 workerVars, dpc, kind, notBefore>>

PushDelayed(p) ==
  /\ ppc[p] = "push"
  /\ call[p].delayed
  /\ thread_posting_order_' = thread_posting_order_ + 1
  /\ delayed_queue_' = Put(delayed_queue_,
                           [next_fire_at_us |-> call[p].next_fire_at_us,
                            order |-> thread_posting_order_'],
                           call[p].task)
  /\ ppc' = [ppc EXCEPT ![p] = "notify"]
  /\ call' = [call EXCEPT ![p] = NoCall]
  /\ fate' = [fate EXCEPT ![call[p].task] = "queued"]
  /\ UNCHANGED <<pending_queue_, thread_should_quit_, flag_notify_, now,
                 workerVars, dpc, kind, notBefore>>

(* The NotifyWake that ends either call.                                   *)
NotifyPosted(p) ==
  /\ ppc[p] = "notify"
  /\ flag_notify_' = TRUE
  /\ ppc' = [ppc EXCEPT ![p] = "idle"]
  /\ UNCHANGED <<queueVars, now, workerVars, call, dpc, historyVars>>

-----------------------------------------------------------------------------
(* The worker: ProcessTasks and GetNextTask *)

ReadTick ==
  /\ wpc = "tick"
  /\ tick_us' = now
  /\ wpc' = "next"
  /\ UNCHANGED <<queueVars, flag_notify_, now, sleep_time, deadline, run_task,
                 posterVars, dpc, historyVars>>

TakeTask(t) ==
  /\ wpc' = "run"
  /\ run_task' = t
  /\ fate' = [fate EXCEPT ![t] = "running"]
  /\ UNCHANGED <<thread_posting_order_, thread_should_quit_, flag_notify_, now,
                 tick_us, sleep_time, deadline, posterVars, dpc, kind, notBefore>>

TakePending ==
  /\ pending_queue_ # << >>
  /\ TakeTask(Head(pending_queue_).task)
  /\ pending_queue_' = Tail(pending_queue_)
  /\ UNCHANGED delayed_queue_

TakeDelayed(k) ==
  /\ TakeTask(delayed_queue_[k])
  /\ delayed_queue_' = [l \in DOMAIN delayed_queue_ \ {k} |-> delayed_queue_[l]]
  /\ UNCHANGED pending_queue_

(* Mutant of Due: a task within one clock unit counts as due.              *)
Due_Early(k) == tick_us + 1 >= k.next_fire_at_us

Due(k) == tick_us >= k.next_fire_at_us

(* final_task: the loop is left, what is still queued never runs.          *)
NextIsFinal ==
  /\ wpc = "next"
  /\ thread_should_quit_
  /\ wpc' = "final"
  /\ UNCHANGED <<queueVars, flag_notify_, now, tick_us, sleep_time, deadline,
                 run_task, posterVars, dpc, historyVars>>

(* Mutant of NextIsDue: a due task does not look at the pending ones.      *)
NextIsDue_NoOrder ==
  /\ wpc = "next"
  /\ ~thread_should_quit_
  /\ \E k \in DOMAIN delayed_queue_ : IsBegin(k) /\ Due(k) /\ TakeDelayed(k)

(* The earliest delayed task is due: it runs, unless a pending task was    *)
(* posted before it.                                                       *)
NextIsDue ==
  /\ wpc = "next"
  /\ ~thread_should_quit_
  /\ \E k \in DOMAIN delayed_queue_ :
       /\ IsBegin(k)
       /\ Due(k)
       /\ IF pending_queue_ # << >> /\ Head(pending_queue_).order < k.order
            THEN TakePending
            ELSE TakeDelayed(k)

NoneDue == \A k \in DOMAIN delayed_queue_ : IsBegin(k) => ~Due(k)

NextIsPending ==
  /\ wpc = "next"
  /\ ~thread_should_quit_
  /\ NoneDue
  /\ TakePending

(* Nothing to run: how long GetNextTask lets the worker sleep.             *)
SleepTimes ==
  IF DOMAIN delayed_queue_ = {}
    THEN {kForever}
    ELSE {UsPerMs * DivideRoundUp(k.next_fire_at_us - tick_us, UsPerMs) :
            k \in {l \in DOMAIN delayed_queue_ : IsBegin(l)}}

NextIsSleep ==
  /\ wpc = "next"
  /\ ~thread_should_quit_
  /\ NoneDue
  /\ pending_queue_ = << >>
  /\ sleep_time' \in SleepTimes
  /\ wpc' = "sleep"
  /\ UNCHANGED <<queueVars, flag_notify_, now, tick_us, deadline, run_task,
                 posterVars, dpc, historyVars>>

(* The task returns; the worker goes on without sleeping.                  *)
FinishTask ==
  /\ wpc = "run"
  /\ ppc[Worker] = "idle"
  /\ fate' = [fate EXCEPT ![run_task] = "run"]
  /\ run_task' = NoTask
  /\ wpc' = "tick"
  /\ UNCHANGED <<queueVars, flag_notify_, now, tick_us, sleep_time, deadline,
                 posterVars, dpc, kind, notBefore>>

(* Mutant of BeginWait: the event is reset on the way into the wait.       *)
BeginWait_Resets ==
  /\ wpc = "sleep"
  /\ deadline' = IF sleep_time = kForever THEN kForever ELSE now + sleep_time
  /\ wpc' = "wait"
  /\ flag_notify_' = FALSE
  /\ UNCHANGED <<queueVars, now, tick_us, sleep_time, run_task, posterVars, dpc,
                 historyVars>>

(* Mutant of BeginWait: the clock reading is taken for the deadline.       *)
BeginWait_Forever ==
  /\ wpc = "sleep"
  /\ deadline' = kForever
  /\ wpc' = "wait"
  /\ UNCHANGED <<queueVars, flag_notify_, now, tick_us, sleep_time, run_task,
                 posterVars, dpc, historyVars>>

(* Event::Wait turns the duration into an instant before it blocks.        *)
BeginWait ==
  /\ wpc = "sleep"
  /\ deadline' = IF sleep_time = kForever THEN kForever ELSE now + sleep_time
  /\ wpc' = "wait"
  /\ UNCHANGED <<queueVars, flag_notify_, now, tick_us, sleep_time, run_task,
                 posterVars, dpc, historyVars>>

TimedOut == deadline # kForever /\ now >= deadline

(* Wait returns: signaled, which resets the event, or timed out, which     *)
(* leaves it alone.  ProcessTasks does not look at which.                  *)
EndWait ==
  /\ wpc = "wait"
  /\ \/ flag_notify_ /\ flag_notify_' = FALSE
     \/ TimedOut /\ UNCHANGED flag_notify_
  /\ wpc' = "tick"
  /\ UNCHANGED <<queueVars, now, tick_us, sleep_time, deadline, run_task,
                 posterVars, dpc, historyVars>>

-----------------------------------------------------------------------------
(* Delete, called by the owner once no thread outside posts any more *)

DeleteQuit ==
  /\ dpc = "live"
  /\ \A p \in Threads : ppc[p] = "idle"
  /\ thread_should_quit_' = TRUE
  /\ dpc' = "notify"
  /\ UNCHANGED <<pending_queue_, delayed_queue_, thread_posting_order_,
                 flag_notify_, now, workerVars, posterVars, historyVars>>

DeleteNotify ==
  /\ dpc = "notify"
  /\ flag_notify_' = TRUE
  /\ dpc' = "join"
  /\ UNCHANGED <<queueVars, now, workerVars, posterVars, historyVars>>

InPending(t) == \E i \in DOMAIN pending_queue_ : pending_queue_[i].task = t
InDelayed(t) == \E k \in DOMAIN delayed_queue_ : delayed_queue_[k] = t

(* delete this: thread_, the last member, is destroyed first and joins the *)
(* worker; then the queues go, and with them the tasks in them.            *)
DeleteJoin ==
  /\ dpc = "join"
  /\ wpc = "final"
  /\ dpc' = "deleted"
  /\ pending_queue_' = << >>
  /\ delayed_queue_' = EmptyMap
  /\ fate' = [t \in Tasks |->
               IF InPending(t) \/ InDelayed(t) THEN "destroyed" ELSE fate[t]]
  /\ UNCHANGED <<thread_posting_order_, thread_should_quit_, flag_notify_, now,
                 workerVars, posterVars, kind, notBefore>>

-----------------------------------------------------------------------------
(* Time passes up to MaxTime, and beyond it only to let the worker wake.   *)
Tick ==
  /\ now < MaxTime \/ (wpc = "wait" /\ now < deadline)
  /\ now' = now + 1
  /\ UNCHANGED <<queueVars, flag_notify_, workerVars, posterVars, dpc, historyVars>>

Post == \E p \in Posters, t \in Tasks :
          PostTask(p, t) \/ \E d \in Delays : PostDelayedTask(p, t, d)

Poster(p) == PushPending(p) \/ PushDelayed(p) \/ NotifyPosted(p)

WorkerStep ==
  \/ ReadTick
  \/ NextIsFinal
  \/ NextIsDue
  \/ NextIsPending
  \/ NextIsSleep
  \/ FinishTask
  \/ BeginWait
  \/ EndWait

Next ==
  \/ Post
  \/ \E p \in Posters : Poster(p)
  \/ WorkerStep
  \/ DeleteQuit
  \/ DeleteNotify
  \/ DeleteJoin
  \/ Tick

Spec == Init /\ [][Next]_vars

(* Every thread that can run is scheduled, tasks return, time passes, and  *)
(* Delete runs to its end once called; nobody has to post or to delete.    *)
Fairness ==
  /\ WF_vars(WorkerStep)
  /\ \A p \in Posters : WF_vars(Poster(p))
  /\ WF_vars(DeleteNotify)
  /\ WF_vars(DeleteJoin)
  /\ WF_vars(Tick)

FairSpec == Spec /\ Fairness

-----------------------------------------------------------------------------
(* Properties *)

TypeOK ==
  /\ pending_queue_ \in Seq(Entry)
  /\ DOMAIN delayed_queue_ \subseteq Key
  /\ \A k \in DOMAIN delayed_queue_ : delayed_queue_[k] \in Tasks
  /\ thread_posting_order_ \in Nat
  /\ thread_should_quit_ \in BOOLEAN
  /\ flag_notify_ \in BOOLEAN
  /\ now \in Nat
  /\ wpc \in {"tick", "next", "run", "sleep", "wait", "final"}
  /\ tick_us \in Nat
  /\ sleep_time \in Nat \cup {kForever}
  /\ deadline \in Nat \cup {kForever}
  /\ run_task \in Tasks \cup {NoTask}
  /\ wpc = "run" => run_task \in Tasks
  /\ ppc \in [Posters -> {"idle", "push", "notify"}]
  /\ call \in [Posters -> Call \cup {NoCall}]
  /\ \A p \in Posters : ppc[p] = "push" => call[p] \in Call
  /\ dpc \in {"live", "notify", "join", "deleted"}
  /\ fate \in [Tasks -> {"new", "calling", "queued", "running", "run", "destroyed"}]
  /\ kind \in [Tasks -> {"none", "immediate", "delayed"}]
  /\ notBefore \in [Tasks -> Nat]

NotifyComing == dpc = "notify" \/ \E p \in Posters : ppc[p] = "notify"

(* The worker never sleeps on work nobody will wake it for.  Once it has   *)
(* decided to sleep, and unless the event is set or about to be set, there *)
(* is no pending task, no request to quit, and the sleep ends less than    *)
(* one unit of sleep after the earliest delayed task is due, counted from  *)
(* the clock reading the decision was made on.  This is the race that      *)
(* NotifyWake's comment (task_queue_stdlib.cc:272-277) is about.           *)
NoLostWakeup ==
  wpc \in {"sleep", "wait"} /\ ~flag_notify_ /\ ~NotifyComing =>
    /\ pending_queue_ = << >>
    /\ ~thread_should_quit_
    /\ \A k \in DOMAIN delayed_queue_ :
         /\ sleep_time # kForever
         /\ tick_us + sleep_time < k.next_fire_at_us + UsPerMs

(* A task the queue has accepted is in exactly one place of one of the two *)
(* queues until it starts or is destroyed: no entry of the map overwrites  *)
(* another, nothing is run twice, nothing is forgotten.                    *)
QueuedOnce ==
  /\ \A t \in Tasks : fate[t] = "queued" <=> InPending(t) \/ InDelayed(t)
  /\ \A t \in Tasks : ~(InPending(t) /\ InDelayed(t))
  /\ \A i, j \in DOMAIN pending_queue_ :
       pending_queue_[i].task = pending_queue_[j].task => i = j
  /\ \A k, l \in DOMAIN delayed_queue_ :
       delayed_queue_[k] = delayed_queue_[l] => k = l

(* A delayed task never overtakes an immediate task that was posted before *)
(* it, nor does an immediate one: whatever starts has the smallest order   *)
(* among the pending tasks (task_queue_stdlib.cc:107-110, 204-214).        *)
Starts(t) == fate[t] = "queued" /\ fate'[t] = "running"

StartOvertakesNone ==
  \A i \in DOMAIN pending_queue_ :
    /\ \A j \in DOMAIN pending_queue_ :
         Starts(pending_queue_[j].task) =>
           pending_queue_[j].order <= pending_queue_[i].order
    /\ \A k \in DOMAIN delayed_queue_ :
         Starts(delayed_queue_[k]) => k.order < pending_queue_[i].order

NoOvertaking == [][StartOvertakesNone]_vars

(* The queue keeps the contract of TaskQueueBase: immediate tasks run in   *)
(* the order the queue accepted them, delayed ones not early, one at a     *)
(* time, and after Delete returned nothing runs.                           *)
Fifo == [i \in DOMAIN pending_queue_ |-> pending_queue_[i].task]

Deletion ==
  IF dpc = "live" THEN "live" ELSE IF dpc = "deleted" THEN "deleted" ELSE "deleting"

Contract == INSTANCE TaskQueueBase WITH fifo <- Fifo, deletion <- Deletion

ImplementsTaskQueueBase == Contract!Spec

(* Every accepted task runs in the end, unless Delete destroys it, and     *)
(* Delete returns: the worker notices that it has to quit.                 *)
EveryTaskSettles ==
  /\ \A t \in Tasks : fate[t] = "queued" ~> fate[t] \in {"run", "destroyed"}
  /\ (dpc # "live") ~> (dpc = "deleted")
==============================================================================
