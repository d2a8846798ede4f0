----------------------------- MODULE TaskQueueWin -----------------------------
(***************************************************************************)
(* The task queue of Windows (rtc_base/task_queue_win.cc).  Its thread     *)
(* waits for three things: a timer's event, the event in_queue_ that       *)
(* immediate tasks set, and thread messages, which carry the delayed tasks,*)
(* WM_TIMER of the fallback timer and WM_QUIT.                             *)
(*                                                                         *)
(* Windows is not in the repository.  Of the objects that are signaled the *)
(* wait returns the first one; it returns for messages only when one came  *)
(* since the thread last looked at its message queue; WM_TIMER comes when  *)
(* no posted message is there.                                             *)
(***************************************************************************)
EXTENDS Integers, Sequences, FiniteSetsExt

CONSTANTS Tasks, Delays, Threads, Worker,
          Quota,         \* how many messages a thread's queue takes
          MaxTime        \* bound: the clock stops here unless the thread sleeps

VARIABLES
  pending_, in_queue_,   \* the immediate tasks and their manual-reset event
  timer_tasks_,          \* the delayed tasks, as [task, due_time]
  timer_, timerEvent,    \* when the multimedia timer fires, and its event
  timer_id_,             \* when the fallback timer fires
  messages, news,        \* the thread's messages; has one come since it looked
  now,
  wpc, back, result,     \* what the thread does, where RunDueTasks returns
                         \* to, and what the wait returned
  dueBy,                 \* the clock as RunDueTasks read it
  run_task,
  ppc, call, dpc,
  fate, kind, notBefore  \* history: see TaskQueueBase

pendingVars == <<pending_, in_queue_>>
timerVars == <<timer_, timerEvent, timer_id_>>
messageVars == <<messages, news>>
threadVars == <<wpc, back, result, dueBy, run_task>>
posterVars == <<ppc, call, dpc>>
historyVars == <<kind, notBefore>>
vars == <<pendingVars, timer_tasks_, timerVars, messageVars, now, threadVars,
          posterVars, fate, historyVars>>

Posters == Threads \cup {Worker}
NoTask == "no task"
Never == -1
Quit == [task |-> "WM_QUIT", due_time |-> 0]

Init ==
  /\ pending_ = << >> /\ in_queue_ = FALSE
  /\ timer_tasks_ = {}
  /\ timer_ = Never /\ timerEvent = FALSE /\ timer_id_ = Never
  /\ messages = << >> /\ news = FALSE
  /\ now = 0
  /\ wpc = "wait" /\ back = "wait" /\ result = 0 /\ dueBy = 0 /\ run_task = NoTask
  /\ ppc = [p \in Posters |-> "idle"]
  /\ call = [p \in Posters |-> [task |-> NoTask, due_time |-> 0]]
  /\ dpc = "live"
  /\ fate = [t \in Tasks |-> "new"]
  /\ kind = [t \in Tasks |-> "none"]
  /\ notBefore = [t \in Tasks |-> 0]

-----------------------------------------------------------------------------
(* Posting *)

MayPost(p) == IF p = Worker THEN wpc \in {"run", "runDue"} ELSE dpc = "live"

(* A delay of zero or less makes an immediate task; else the clock is read.*)
BeginCall(p, t, d) ==
  /\ MayPost(p) /\ ppc[p] = "idle" /\ fate[t] = "new"
  /\ ppc' = [ppc EXCEPT ![p] = IF d <= 0 THEN "push" ELSE "send"]
  /\ call' = [call EXCEPT ![p] = [task |-> t, due_time |-> now + d]]
  /\ fate' = [fate EXCEPT ![t] = "calling"]
  /\ kind' = [kind EXCEPT ![t] = IF d <= 0 THEN "immediate" ELSE "delayed"]
  /\ notBefore' = [notBefore EXCEPT ![t] = IF d <= 0 THEN now ELSE now + d]
  /\ UNCHANGED <<pendingVars, timer_tasks_, timerVars, messageVars, now, threadVars, dpc>>

PostTask(p) ==
  /\ ppc[p] = "push"
  /\ pending_' = Append(pending_, call[p].task)
  /\ in_queue_' = TRUE
  /\ ppc' = [ppc EXCEPT ![p] = "idle"]
  /\ fate' = [fate EXCEPT ![call[p].task] = "queued"]
  /\ UNCHANGED <<timer_tasks_, timerVars, messageVars, now, threadVars, call, dpc, historyVars>>

PostThreadMessage(m) == messages' = Append(messages, m) /\ news' = TRUE

(* The task is destroyed when the queue of messages is full.               *)
PostDelayedTask(p) ==
  /\ ppc[p] = "send"
  /\ IF Len(messages) < Quota
       THEN PostThreadMessage(call[p]) /\ fate' = [fate EXCEPT ![call[p].task] = "queued"]
       ELSE fate' = [fate EXCEPT ![call[p].task] = "destroyed"] /\ UNCHANGED messageVars
  /\ ppc' = [ppc EXCEPT ![p] = "idle"]
  /\ UNCHANGED <<pendingVars, timer_tasks_, timerVars, now, threadVars, call, dpc, historyVars>>

(* Delete posts WM_QUIT, again and again while there is no room.           *)
DeleteQuit ==
  /\ dpc = "live" /\ \A p \in Threads : ppc[p] = "idle"
  /\ Len(messages) < Quota
  /\ PostThreadMessage(Quit)
  /\ dpc' = "join"
  /\ UNCHANGED <<pendingVars, timer_tasks_, timerVars, now, threadVars, ppc, call, fate, historyVars>>

(* The thread is joined, and the members destroyed with the tasks in them. *)
DeleteJoin ==
  /\ dpc = "join" /\ wpc = "exited"
  /\ dpc' = "deleted"
  /\ pending_' = << >> /\ timer_tasks_' = {}
  /\ fate' = [t \in Tasks |->
       IF (\E i \in DOMAIN pending_ : pending_[i] = t) \/ (\E d \in timer_tasks_ : d.task = t)
         THEN "destroyed" ELSE fate[t]]
  /\ UNCHANGED <<in_queue_, timerVars, messageVars, now, threadVars, ppc, call, historyVars>>

-----------------------------------------------------------------------------
(* Timers *)

(* CancelTimers, then ScheduleNextTimer for the tasks S: the multimedia    *)
(* timer or, when it cannot be had, the other one.                         *)
Reschedule(S) ==
  /\ timerEvent' = FALSE
  /\ IF S = {}
       THEN timer_' = Never /\ timer_id_' = Never
       ELSE LET at == Max({now, Min({d.due_time : d \in S})})
            IN  \/ timer_' = at /\ timer_id_' = Never
                \/ timer_' = Never /\ timer_id_' = at

TimerFires ==
  /\ timer_ # Never /\ timer_ <= now
  /\ timer_' = Never /\ timerEvent' = TRUE
  /\ UNCHANGED <<pendingVars, timer_tasks_, timer_id_, messageVars, now, threadVars,
                 posterVars, fate, historyVars>>

TimerMessage == messages = << >> /\ timer_id_ # Never /\ timer_id_ <= now

-----------------------------------------------------------------------------
(* The thread *)

Signaled == (IF timerEvent THEN {0} ELSE {}) \cup (IF in_queue_ THEN {1} ELSE {})
              \cup (IF news \/ TimerMessage THEN {2} ELSE {})

MsgWait ==
  /\ wpc = "wait" /\ Signaled # {}
  /\ result' = Min(Signaled)
  /\ wpc' = IF result' = 2 THEN "messages" ELSE "timer"
  /\ UNCHANGED <<pendingVars, timer_tasks_, timerVars, messageVars, now, back, dueBy,
                 run_task, posterVars, fate, historyVars>>

(* Mutant: the timers are rescheduled only when there was none.            *)
QueueDelayed_OnlyFirst(info) ==
  /\ timer_tasks_' = timer_tasks_ \cup {info}
  /\ IF timer_tasks_ = {} THEN Reschedule(timer_tasks_') ELSE UNCHANGED timerVars

QueueDelayed(info) ==
  /\ timer_tasks_' = timer_tasks_ \cup {info}
  /\ IF \A d \in timer_tasks_ : d.due_time > info.due_time
       THEN Reschedule(timer_tasks_')
       ELSE UNCHANGED timerVars

(* ProcessQueuedMessages: one message.  After it the loop goes on, or ends *)
(* because it took more than kMaxTaskProcessingTime.                       *)
ProcessMessage ==
  /\ wpc = "messages" /\ messages # << >>
  /\ messages' = Tail(messages) /\ news' = FALSE
  /\ IF Head(messages) = Quit
       THEN wpc' = "exited" /\ UNCHANGED <<timer_tasks_, timerVars>>
       ELSE QueueDelayed(Head(messages)) /\ wpc' \in {"messages", "timer"}
  /\ UNCHANGED <<pendingVars, now, back, result, dueBy, run_task, posterVars, fate, historyVars>>

ProcessTimerMessage ==
  /\ wpc = "messages" /\ TimerMessage
  /\ timer_id_' = Never /\ news' = FALSE
  /\ wpc' = "due" /\ dueBy' = now /\ back' \in {"messages", "timer"}
  /\ UNCHANGED <<pendingVars, timer_tasks_, timer_, timerEvent, messages, now, result,
                 run_task, posterVars, fate, historyVars>>

NoMessage ==
  /\ wpc = "messages" /\ messages = << >> /\ ~TimerMessage
  /\ news' = FALSE
  /\ wpc' = "timer"
  /\ UNCHANGED <<pendingVars, timer_tasks_, timerVars, messages, now, back, result, dueBy,
                 run_task, posterVars, fate, historyVars>>

(* The timer's event counts whatever the wait returned.                    *)
CheckTimer ==
  /\ wpc = "timer"
  /\ IF result = 0 \/ (timer_tasks_ # {} /\ timerEvent)
       THEN /\ timer_' = Never /\ timerEvent' = FALSE
            /\ wpc' = "due" /\ dueBy' = now /\ back' = "queue"
       ELSE wpc' = "queue" /\ UNCHANGED <<timer_, timerEvent, dueBy, back>>
  /\ UNCHANGED <<pendingVars, timer_tasks_, timer_id_, messageVars, now, result, run_task,
                 posterVars, fate, historyVars>>

(* RunDueTasks runs what is due, earliest first, then the next timer is    *)
(* set.                                                                    *)
RunDueTask ==
  /\ wpc = "due"
  /\ \E d \in timer_tasks_ :
       /\ d.due_time <= dueBy /\ \A e \in timer_tasks_ : d.due_time <= e.due_time
       /\ run_task' = d.task
       /\ fate' = [fate EXCEPT ![d.task] = "running"]
  /\ wpc' = "runDue"
  /\ UNCHANGED <<pendingVars, timer_tasks_, timerVars, messageVars, now, back, result, dueBy,
                 posterVars, historyVars>>

FinishDueTask ==
  /\ wpc = "runDue" /\ ppc[Worker] = "idle"
  /\ timer_tasks_' = {d \in timer_tasks_ : d.task # run_task}
  /\ fate' = [fate EXCEPT ![run_task] = "run"]
  /\ wpc' = "due" /\ run_task' = NoTask
  /\ UNCHANGED <<pendingVars, timerVars, messageVars, now, back, result, dueBy, posterVars, historyVars>>

NoneDue ==
  /\ wpc = "due" /\ \A d \in timer_tasks_ : d.due_time > dueBy
  /\ Reschedule(timer_tasks_)
  /\ wpc' = back
  /\ UNCHANGED <<pendingVars, timer_tasks_, messageVars, now, back, result, dueBy, run_task,
                 posterVars, fate, historyVars>>

CheckQueue ==
  /\ wpc = "queue"
  /\ IF result = 1 THEN in_queue_' = FALSE /\ wpc' = "pending"
                   ELSE wpc' = "wait" /\ UNCHANGED in_queue_
  /\ UNCHANGED <<pending_, timer_tasks_, timerVars, messageVars, now, back, result, dueBy,
                 run_task, posterVars, fate, historyVars>>

(* RunPendingTasks, until there is none.                                   *)
RunPendingTask ==
  /\ wpc = "pending" /\ pending_ # << >>
  /\ pending_' = Tail(pending_)
  /\ run_task' = Head(pending_)
  /\ fate' = [fate EXCEPT ![Head(pending_)] = "running"]
  /\ wpc' = "run"
  /\ UNCHANGED <<in_queue_, timer_tasks_, timerVars, messageVars, now, back, result, dueBy,
                 posterVars, historyVars>>

FinishTask ==
  /\ wpc = "run" /\ ppc[Worker] = "idle"
  /\ fate' = [fate EXCEPT ![run_task] = "run"]
  /\ wpc' = "pending" /\ run_task' = NoTask
  /\ UNCHANGED <<pendingVars, timer_tasks_, timerVars, messageVars, now, back, result, dueBy,
                 posterVars, historyVars>>

NonePending ==
  /\ wpc = "pending" /\ pending_ = << >>
  /\ wpc' = "wait"
  /\ UNCHANGED <<pendingVars, timer_tasks_, timerVars, messageVars, now, back, result, dueBy,
                 run_task, posterVars, fate, historyVars>>

Tick ==
  /\ now < MaxTime \/ (wpc = "wait" /\ Signaled = {} /\ now < Max({timer_, timer_id_}))
  /\ now' = now + 1
  /\ UNCHANGED <<pendingVars, timer_tasks_, timerVars, messageVars, threadVars, posterVars,
                 fate, historyVars>>

-----------------------------------------------------------------------------

Next ==
  \/ \E p \in Posters :
       \/ \E t \in Tasks, d \in Delays : BeginCall(p, t, d)
       \/ PostTask(p) \/ PostDelayedTask(p)
  \/ DeleteQuit \/ DeleteJoin
  \/ TimerFires \/ MsgWait
  \/ ProcessMessage \/ ProcessTimerMessage \/ NoMessage
  \/ CheckTimer \/ RunDueTask \/ FinishDueTask \/ NoneDue
  \/ CheckQueue \/ RunPendingTask \/ FinishTask \/ NonePending
  \/ Tick

Spec == Init /\ [][Next]_vars

(* The contract of TaskQueueBase.                                          *)
Contract == INSTANCE TaskQueueBase WITH
  fifo <- pending_,
  deletion <- IF dpc = "join" THEN "deleting" ELSE dpc

ImplementsTaskQueueBase == Contract!Spec

(* While the thread waits, immediate tasks have their event set, and the   *)
(* earliest delayed one that has reached the thread a timer that is set    *)
(* for it or has fired.                                                    *)
NeverSleepsPastWork ==
  wpc = "wait" =>
    /\ pending_ # << >> => in_queue_
    /\ \A d \in timer_tasks_ :
         \/ timerEvent
         \/ timer_ # Never /\ timer_ <= Max({d.due_time, now})
         \/ timer_id_ # Never /\ timer_id_ <= Max({d.due_time, now})

(* "When a TaskQueue is deleted, pending tasks will not be executed but    *)
(* they will be deleted" (task_queue_base.h:53-54).                        *)
PendingTasksDeleted == dpc = "deleted" => \A t \in Tasks : fate[t] # "queued"
===============================================================================
