-------------------------- MODULE TaskQueueLibevent --------------------------
(***************************************************************************)
(* The task queue built on libevent: a vector of pending tasks, a pipe     *)
(* through which a poster wakes the event loop, and one libevent timer per *)
(* delayed task (rtc_base/task_queue_libevent.cc).                         *)
(*                                                                         *)
(* libevent itself is not in the repository: the loop calls OnWakeup while *)
(* the pipe is readable and RunTimer when a timer is due, one callback at  *)
(* a time and in no particular order.                                      *)
(***************************************************************************)
EXTENDS Integers, Sequences, FiniteSets

CONSTANTS Tasks,         \* the closures the program may post
          Delays,        \* the delays given to PostDelayedTask
          Threads,       \* the threads outside of the queue that post to it
          Worker,        \* the queue's own thread
          PipeCapacity,  \* bytes the pipe holds
          MaxTime        \* bound: the clock stops here unless the loop sleeps

ASSUME TasksAssumption == Delays \subseteq Nat /\ Worker \notin Threads
ASSUME BoundsAssumption == PipeCapacity \in Nat \ {0, 1} /\ MaxTime \in Nat

VARIABLES
  pending_,        \* closures not yet taken by the loop
  pending_timers_, \* the TimerEvents alive, as [task, at]
  is_active_,
  pipe,            \* the bytes in the wakeup pipe
  now,
  wpc,             \* what the queue's thread is doing
  tasks,           \* OnWakeup's local vector: what is left of the batch
  run_task,        \* the task being run, or NoTask
  ppc, call,       \* where each poster is, and the arguments of its call
  dpc,             \* how far the owner's Delete has come
  fate, kind, notBefore  \* history: see TaskQueueBase

workerVars == <<is_active_, wpc, tasks, run_task>>
posterVars == <<ppc, call>>
historyVars == <<fate, kind, notBefore>>
vars == <<pending_, pending_timers_, pipe, now, workerVars, posterVars, dpc,
          historyVars>>

-----------------------------------------------------------------------------
Posters == Threads \cup {Worker}
NoTask == "no task"
NoCall == [task |-> NoTask, delay |-> 0, posted_us |-> 0]

(* A closure in pending_: the task itself or, for a delayed task of        *)
(* another thread, the lambda that will arm its timer.                     *)
Closure == [task : Tasks, delay : Nat, posted_us : Nat]
Timer == [task : Tasks, at : Nat]

Init ==
  /\ pending_ = << >>
  /\ pending_timers_ = {}
  /\ is_active_ = TRUE
  /\ pipe = << >>
  /\ now = 0
  /\ wpc = "loop"
  /\ tasks = << >>
  /\ run_task = NoTask
  /\ ppc = [p \in Posters |-> "idle"]
  /\ call = [p \in Posters |-> NoCall]
  /\ dpc = "live"
  /\ fate = [t \in Tasks |-> "new"]
  /\ kind = [t \in Tasks |-> "none"]
  /\ notBefore = [t \in Tasks |-> 0]

-----------------------------------------------------------------------------
(* Posting *)

MayPost(p) == IF p = Worker THEN wpc \in {"run", "timer"} ELSE dpc = "live"

BeginCall(p, t, k, d, step) ==
  /\ ppc[p] = "idle"
  /\ MayPost(p)
  /\ fate[t] = "new"
  /\ ppc' = [ppc EXCEPT ![p] = step]
  /\ call' = [call EXCEPT ![p] = [task |-> t, delay |-> d, posted_us |-> now]]
  /\ fate' = [fate EXCEPT ![t] = "calling"]
  /\ kind' = [kind EXCEPT ![t] = k]
  /\ notBefore' = [notBefore EXCEPT ![t] = now + d]
  /\ UNCHANGED <<pending_, pending_timers_, pipe, now, workerVars, dpc>>

PostTask(p, t) == BeginCall(p, t, "immediate", 0, "push")

(* On the queue the timer is armed at once, elsewhere through a closure.   *)
PostDelayedTask(p, t, d) ==
  BeginCall(p, t, "delayed", d, IF p = Worker THEN "arm" ELSE "push")

(* Mutant of Push: had_pending_tasks is read after the push_back.          *)
Push_ReadsAfter(p) ==
  /\ ppc[p] = "push"
  /\ pending_' = Append(pending_, call[p])
  /\ ppc' = [ppc EXCEPT ![p] = IF pending_' = << >> THEN "write" ELSE "idle"]
  /\ call' = [call EXCEPT ![p] = NoCall]
  /\ fate' = [fate EXCEPT ![call[p].task] = "queued"]
  /\ UNCHANGED <<pending_timers_, pipe, now, workerVars, dpc, kind, notBefore>>

(* PostTask's critical section: only the poster that finds pending_ empty  *)
(* goes on to write to the pipe.                                           *)
Push(p) ==
  /\ ppc[p] = "push"
  /\ pending_' = Append(pending_, call[p])
  /\ ppc' = [ppc EXCEPT ![p] = IF pending_ = << >> THEN "write" ELSE "idle"]
  /\ call' = [call EXCEPT ![p] = NoCall]
  /\ fate' = [fate EXCEPT ![call[p].task] = "queued"]
  /\ UNCHANGED <<pending_timers_, pipe, now, workerVars, dpc, kind, notBefore>>

Write(p) ==
  /\ ppc[p] = "write"
  /\ pipe' = Append(pipe, "kRunTasks")
  /\ ppc' = [ppc EXCEPT ![p] = "idle"]
  /\ UNCHANGED <<pending_, pending_timers_, now, workerVars, call, dpc, historyVars>>

(* PostDelayedTaskOnTaskQueue, called by a task.                           *)
ArmTimer(p) ==
  /\ ppc[p] = "arm"
  /\ pending_timers_' = pending_timers_ \cup
       {[task |-> call[p].task, at |-> now + call[p].delay]}
  /\ ppc' = [ppc EXCEPT ![p] = "idle"]
  /\ call' = [call EXCEPT ![p] = NoCall]
  /\ fate' = [fate EXCEPT ![call[p].task] = "queued"]
  /\ UNCHANGED <<pending_, pipe, now, workerVars, dpc, kind, notBefore>>

-----------------------------------------------------------------------------
(* The event loop's callbacks *)

(* OnWakeup reads one byte.                                                *)
OnWakeup ==
  /\ wpc = "loop"
  /\ pipe # << >>
  /\ pipe' = Tail(pipe)
  /\ IF Head(pipe) = "kQuit"
       THEN is_active_' = FALSE /\ wpc' = "exit"
       ELSE UNCHANGED is_active_ /\ wpc' = "swap"
  /\ UNCHANGED <<pending_, pending_timers_, now, tasks, run_task, posterVars,
                 dpc, historyVars>>

SwapPending ==
  /\ wpc = "swap"
  /\ tasks' = pending_
  /\ pending_' = << >>
  /\ wpc' = "batch"
  /\ UNCHANGED <<pending_timers_, is_active_, pipe, now, run_task, posterVars,
                 dpc, historyVars>>

(* A closure that posts a delayed task: what has already passed of the     *)
(* delay is taken off.                                                     *)
Remaining(c) ==
  LET post_time == now - c.posted_us
  IN  IF c.delay > post_time THEN c.delay - post_time ELSE 0

RunClosure ==
  /\ wpc = "batch"
  /\ tasks # << >>
  /\ LET c == Head(tasks)
     IN  IF kind[c.task] = "delayed"
           THEN /\ pending_timers_' = pending_timers_ \cup
                     {[task |-> c.task, at |-> now + Remaining(c)]}
                /\ UNCHANGED <<wpc, run_task, fate>>
           ELSE /\ wpc' = "run"
                /\ run_task' = c.task
                /\ fate' = [fate EXCEPT ![c.task] = "running"]
                /\ UNCHANGED pending_timers_
  /\ tasks' = Tail(tasks)
  /\ UNCHANGED <<pending_, is_active_, pipe, now, posterVars, dpc, kind, notBefore>>

EndBatch ==
  /\ wpc = "batch"
  /\ tasks = << >>
  /\ wpc' = "loop"
  /\ UNCHANGED <<pending_, pending_timers_, is_active_, pipe, now, tasks,
                 run_task, posterVars, dpc, historyVars>>

Finish(step) ==
  /\ ppc[Worker] = "idle"
  /\ fate' = [fate EXCEPT ![run_task] = "run"]
  /\ run_task' = NoTask
  /\ wpc' = step
  /\ UNCHANGED <<pending_, is_active_, pipe, now, tasks, posterVars, dpc, kind,
                 notBefore>>

FinishTask == wpc = "run" /\ Finish("batch") /\ UNCHANGED pending_timers_

(* Mutant of RunTimer: the timer fires one clock unit early.               *)
RunTimer_Early ==
  /\ wpc = "loop"
  /\ \E timer \in pending_timers_ :
       /\ now + 1 >= timer.at
       /\ run_task' = timer.task
       /\ fate' = [fate EXCEPT ![timer.task] = "running"]
  /\ wpc' = "timer"
  /\ UNCHANGED <<pending_, pending_timers_, is_active_, pipe, now, tasks,
                 posterVars, dpc, kind, notBefore>>

(* RunTimer: the TimerEvent stays in pending_timers_ while its task runs.  *)
RunTimer ==
  /\ wpc = "loop"
  /\ \E timer \in pending_timers_ :
       /\ now >= timer.at
       /\ run_task' = timer.task
       /\ fate' = [fate EXCEPT ![timer.task] = "running"]
  /\ wpc' = "timer"
  /\ UNCHANGED <<pending_, pending_timers_, is_active_, pipe, now, tasks,
                 posterVars, dpc, kind, notBefore>>

FinishTimer ==
  /\ wpc = "timer"
  /\ Finish("loop")
  /\ pending_timers_' = {timer \in pending_timers_ : timer.task # run_task}

(* event_base_loop returned and is_active_ is off: the timers are deleted. *)
ExitLoop ==
  /\ wpc = "exit"
  /\ wpc' = "exited"
  /\ pending_timers_' = {}
  /\ fate' = [t \in Tasks |-> IF \E timer \in pending_timers_ : timer.task = t
                                THEN "destroyed" ELSE fate[t]]
  /\ UNCHANGED <<pending_, is_active_, pipe, now, tasks, run_task, posterVars,
                 dpc, kind, notBefore>>

-----------------------------------------------------------------------------
(* Delete, called by the owner once no thread outside posts any more *)

(* The write is retried while the pipe is full.                            *)
DeleteQuit ==
  /\ dpc = "live"
  /\ \A p \in Threads : ppc[p] = "idle"
  /\ Len(pipe) < PipeCapacity
  /\ pipe' = Append(pipe, "kQuit")
  /\ dpc' = "join"
  /\ UNCHANGED <<pending_, pending_timers_, now, workerVars, posterVars, historyVars>>

DeleteJoin ==
  /\ dpc = "join"
  /\ wpc = "exited"
  /\ dpc' = "deleted"
  /\ pending_' = << >>
  /\ pipe' = << >>
  /\ fate' = [t \in Tasks |-> IF \E i \in DOMAIN pending_ : pending_[i].task = t
                                THEN "destroyed" ELSE fate[t]]
  /\ UNCHANGED <<pending_timers_, now, workerVars, posterVars, kind, notBefore>>

-----------------------------------------------------------------------------
Asleep == wpc = "loop" /\ pipe = << >> /\ \A timer \in pending_timers_ : now < timer.at

(* Time passes up to MaxTime, and beyond it only for a loop that sleeps.   *)
Tick ==
  /\ now < MaxTime \/ (Asleep /\ pending_timers_ # {})
  /\ now' = now + 1
  /\ UNCHANGED <<pending_, pending_timers_, pipe, workerVars, posterVars, dpc,
                 historyVars>>

Post == \E p \in Posters, t \in Tasks :
          PostTask(p, t) \/ \E d \in Delays : PostDelayedTask(p, t, d)

Poster(p) == Push(p) \/ Write(p) \/ ArmTimer(p)

WorkerStep ==
  \/ OnWakeup
  \/ SwapPending
  \/ RunClosure
  \/ EndBatch
  \/ FinishTask
  \/ RunTimer
  \/ FinishTimer
  \/ ExitLoop

Next ==
  \/ Post
  \/ \E p \in Posters : Poster(p)
  \/ WorkerStep
  \/ DeleteQuit
  \/ DeleteJoin
  \/ Tick

Spec == Init /\ [][Next]_vars

(* Every thread that can run is scheduled, tasks return, time passes, and  *)
(* Delete runs to its end once called; nobody has to post or to delete.    *)
Fairness ==
  /\ WF_vars(WorkerStep)
  /\ \A p \in Posters : WF_vars(Poster(p))
  /\ WF_vars(DeleteJoin)
  /\ WF_vars(Tick)

FairSpec == Spec /\ Fairness

-----------------------------------------------------------------------------
(* Properties *)

TypeOK ==
  /\ pending_ \in Seq(Closure)
  /\ pending_timers_ \subseteq Timer
  /\ is_active_ \in BOOLEAN
  /\ pipe \in Seq({"kRunTasks", "kQuit"})
  /\ now \in Nat
  /\ wpc \in {"loop", "swap", "batch", "run", "timer", "exit", "exited"}
  /\ tasks \in Seq(Closure)
  /\ run_task \in Tasks \cup {NoTask}
  /\ wpc \in {"run", "timer"} => run_task \in Tasks
  /\ ppc \in [Posters -> {"idle", "push", "arm", "write"}]
  /\ call \in [Posters -> Closure \cup {NoCall}]
  /\ \A p \in Posters : ppc[p] \in {"push", "arm"} => call[p] \in Closure
  /\ dpc \in {"live", "join", "deleted"}
  /\ fate \in [Tasks -> {"new", "calling", "queued", "running", "run", "destroyed"}]
  /\ kind \in [Tasks -> {"none", "immediate", "delayed"}]
  /\ notBefore \in [Tasks -> Nat]

(* The places where the duty to wake the loop can be: a byte in the pipe,  *)
(* a poster that is about to write it, the loop that has read it and has   *)
(* not yet taken the tasks.                                                *)
RunBytes == {i \in DOMAIN pipe : pipe[i] = "kRunTasks"}
Writers == {p \in Posters : ppc[p] = "write"}

(* While tasks are pending exactly one of them holds, so that the loop     *)
(* will take the tasks; while none is pending there is none, so that the   *)
(* loop never takes an empty vector (RTC_DCHECK of line 283) and that      *)
(* "there will only ever be 1 byte pending" (lines 220-221).               *)
OneWakeByte ==
  /\ \A i, j \in RunBytes : i = j
  /\ \A p, q \in Writers : p = q
  /\ RunBytes # {} => Writers = {} /\ wpc # "swap"
  /\ Writers # {} => wpc # "swap"
  /\ pending_ # << >> <=> RunBytes # {} \/ Writers # {} \/ wpc = "swap"

(* The write in PostTask never meets a full pipe, which RTC_CHECK_EQ would *)
(* turn into a crash (lines 222-224): a pipe that holds two bytes is enough.*)
WriteSucceeds == Writers # {} => Len(pipe) < PipeCapacity

(* No TimerEvent is deleted twice, nor its task run again: a timer in the  *)
(* list is waiting, or is the one whose task is running.                   *)
TimersAlive ==
  \A timer \in pending_timers_ :
    \/ fate[timer.task] = "queued"
    \/ wpc = "timer" /\ run_task = timer.task

(* What a queue keeps when only the members of S are looked at, in order:   *)
(* the k-th one is that of rank k.                                         *)
Only(queue, S) ==
  LET kept == {i \in DOMAIN queue : queue[i] \in S}
      Rank(i) == Cardinality({j \in kept : j <= i})
  IN  [k \in 1 .. Cardinality(kept) |-> queue[CHOOSE i \in kept : Rank(i) = k]]

(* The queue keeps the contract of TaskQueueBase.  A delayed task of       *)
(* another thread passes through pending_, but only the immediate tasks    *)
(* in it are in FIFO order with each other.                                *)
Waiting == [i \in DOMAIN (tasks \o pending_) |-> (tasks \o pending_)[i].task]
ImmediateTasks == Only(Waiting, {t \in Tasks : kind[t] = "immediate"})

Deletion == IF dpc = "join" THEN "deleting" ELSE dpc

Contract == INSTANCE TaskQueueBase WITH fifo <- ImmediateTasks, deletion <- Deletion

ImplementsTaskQueueBase == Contract!Spec

(* Every accepted task runs in the end, unless Delete destroys it, and     *)
(* Delete returns: the loop reads kQuit and its thread is joined.          *)
EveryTaskSettles ==
  /\ \A t \in Tasks : fate[t] = "queued" ~> fate[t] \in {"run", "destroyed"}
  /\ (dpc # "live") ~> (dpc = "deleted")
==============================================================================
