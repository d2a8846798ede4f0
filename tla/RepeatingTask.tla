----------------------------- MODULE RepeatingTask -----------------------------
(***************************************************************************)
(* Tasks that outlive the object they serve.  A PendingTaskSafetyFlag      *)
(* (api/task_queue/pending_task_safety_flag.h) is shared by an object and  *)
(* its posted tasks: SafeTask looks at it before it runs its task, and a   *)
(* RepeatingTask (rtc_base/task_utils/repeating_task.cc) before and after  *)
(* each call of its closure.  A repeating task may be started from any     *)
(* thread; all else happens on the task queue.                             *)
(***************************************************************************)
EXTENDS Integers, FiniteSets, FiniteSetsExt

CONSTANTS Tasks,     \* the repeating tasks
          Safe,      \* the tasks wrapped in SafeTask
          Flags,     \* the flags of these, one after another
          Delays,    \* the finite delays a closure may return or a start ask for
          MaxTime,   \* bound: the clock stops here
          Nobody

VARIABLES
  now,               \* what the clock says
  running,           \* the task the queue runs, or Nobody
  start,             \* where the start of a repeating task is:
                     \* "new", "post" (it is constructed), "started"
  repeating_task_,   \* the tasks whose handle still refers to the flag
  pc,                \* of a RepeatingTask: "away", "queued", "closure",
                     \* "returned", "repost"
  next_run_time_,
  delay,             \* what the closure returned, then what is posted
  due,               \* when the queue may run it
  alive_,            \* the flags that are alive
  flag_,             \* the flag of the ScopedTaskSafety, Nobody once it is gone
  given,             \* the flag each task holds
  queuedSafe,        \* the safe tasks in the queue
  plan, read,        \* history: start time and all the delays, the clock as
                     \* last read, and how long the posting took after that
  slip,
  disowned           \* history: the flags made not alive, not revived since

repeatVars == <<start, repeating_task_, pc, next_run_time_, delay, due, plan, read, slip>>
safeVars == <<flag_, given, queuedSafe>>
flagVars == <<alive_, disowned>>
vars == <<now, running, repeatVars, safeVars, flagVars>>

Infinite == -1       \* TimeDelta::PlusInfinity()

Init ==
  /\ now = 0 /\ running = Nobody
  /\ start = [t \in Tasks |-> "new"]
  /\ repeating_task_ = {}
  /\ pc = [t \in Tasks |-> "away"]
  /\ next_run_time_ = [t \in Tasks |-> 0]
  /\ delay = [t \in Tasks |-> 0]
  /\ due = [t \in Tasks |-> 0]
  /\ flag_ = (CHOOSE f \in Flags : TRUE) /\ alive_ = {flag_}
  /\ disowned = {}
  /\ given = [s \in Safe |-> Nobody]
  /\ queuedSafe = {}
  /\ plan = [t \in Tasks |-> 0] /\ read = [t \in Tasks |-> 0]
  /\ slip = [t \in Tasks |-> 0]

-----------------------------------------------------------------------------
(* Flags.  That of a repeating task bears the task's name.                 *)

Create(f) == alive_' = alive_ \cup {f} /\ UNCHANGED disowned
SetNotAlive(f) == alive_' = alive_ \ {f} /\ disowned' = disowned \cup {f}
SetAlive(f) == alive_' = alive_ \cup {f} /\ disowned' = disowned \ {f}

(* ScopedTaskSafety: reset marks the flag and takes a fresh one.           *)
Reset(f) ==
  /\ flag_ # Nobody /\ flag_' = f
  /\ f \in Flags \ ({flag_} \cup alive_ \cup disowned)
  /\ alive_' = (alive_ \ {flag_}) \cup {f}
  /\ disowned' = disowned \cup {flag_}
  /\ UNCHANGED given

EndScope ==
  /\ flag_ # Nobody /\ flag_' = Nobody
  /\ SetNotAlive(flag_)
  /\ UNCHANGED given

(* SafeTask takes the flag of the moment; it may be posted by any thread.  *)
PostSafe(s) ==
  /\ flag_ # Nobody /\ given[s] = Nobody
  /\ given' = [given EXCEPT ![s] = flag_]
  /\ queuedSafe' = queuedSafe \cup {s}
  /\ UNCHANGED <<now, running, repeatVars, flagVars, flag_>>

RunSafe(s) ==
  /\ running = Nobody /\ s \in queuedSafe
  /\ queuedSafe' = queuedSafe \ {s}
  /\ running' = IF given[s] \in alive_ THEN s ELSE Nobody
  /\ UNCHANGED <<now, repeatVars, flagVars, flag_, given>>

SafeReturns ==
  /\ running \in Safe /\ running' = Nobody
  /\ UNCHANGED <<now, repeatVars, safeVars, flagVars>>

(* Code of the application on the queue: another task, a safe one, or a    *)
(* closure.                                                                *)
InATask == running \in Tasks => pc[running] = "closure"

(* What a task of the queue does with the scope it owns.                   *)
Scope ==
  /\ InATask
  /\ \/ \E f \in Flags : Reset(f)
     \/ EndScope
     \/ flag_ \in Flags /\ (SetNotAlive(flag_) \/ SetAlive(flag_)) /\ UNCHANGED <<flag_, given>>
  /\ UNCHANGED <<now, running, repeatVars, queuedSafe>>

-----------------------------------------------------------------------------
(* A repeating task *)

(* Start and DelayedStart: the constructor reads the clock, then the task  *)
(* is posted.                                                              *)
Construct(t, first) ==
  /\ start[t] = "new"
  /\ start' = [start EXCEPT ![t] = "post"]
  /\ next_run_time_' = [next_run_time_ EXCEPT ![t] = now + first]
  /\ delay' = [delay EXCEPT ![t] = first]
  /\ plan' = [plan EXCEPT ![t] = now + first]
  /\ read' = [read EXCEPT ![t] = now]
  /\ Create(t)
  /\ UNCHANGED <<now, running, repeating_task_, pc, due, slip, safeVars>>

Enqueue(t) ==
  /\ pc' = [pc EXCEPT ![t] = "queued"]
  /\ due' = [due EXCEPT ![t] = now + delay[t]]
  /\ slip' = [slip EXCEPT ![t] = now - read[t]]

Start(t) ==
  /\ start[t] = "post"
  /\ start' = [start EXCEPT ![t] = "started"]
  /\ repeating_task_' = repeating_task_ \cup {t}
  /\ Enqueue(t)
  /\ UNCHANGED <<now, running, next_run_time_, delay, plan, read, safeVars, flagVars>>

Run(t) ==
  /\ running = Nobody /\ pc[t] = "queued" /\ due[t] <= now
  /\ IF t \in alive_
       THEN running' = t /\ pc' = [pc EXCEPT ![t] = "closure"]
       ELSE pc' = [pc EXCEPT ![t] = "away"] /\ UNCHANGED running
  /\ UNCHANGED <<now, start, repeating_task_, next_run_time_, delay, due, plan, read, slip, safeVars, flagVars>>

(* Mutant: the flag is looked at only before the call. *)
ClosureReturns_Goes(t, d) ==
  /\ running = t /\ pc[t] = "closure"
  /\ IF d = Infinite
       THEN running' = Nobody /\ pc' = [pc EXCEPT ![t] = "away"] /\ UNCHANGED delay
       ELSE /\ pc' = [pc EXCEPT ![t] = "returned"]
            /\ delay' = [delay EXCEPT ![t] = d]
            /\ UNCHANGED running
  /\ UNCHANGED <<now, start, repeating_task_, next_run_time_, due, plan, read, slip, safeVars, flagVars>>

ClosureReturns(t, d) ==
  /\ running = t /\ pc[t] = "closure"
  /\ IF d = Infinite \/ t \notin alive_
       THEN running' = Nobody /\ pc' = [pc EXCEPT ![t] = "away"] /\ UNCHANGED delay
       ELSE /\ pc' = [pc EXCEPT ![t] = "returned"]
            /\ delay' = [delay EXCEPT ![t] = d]
            /\ UNCHANGED running
  /\ UNCHANGED <<now, start, repeating_task_, next_run_time_, due, plan, read, slip, safeVars, flagVars>>

(* The next run is due a delay after this one was: what was lost to the    *)
(* queue and to the closure is taken off the delay.                        *)
Adjust(t) ==
  LET lost_time == now - next_run_time_[t]
  IN  /\ next_run_time_' = [next_run_time_ EXCEPT ![t] = @ + delay[t]]
      /\ delay' = [delay EXCEPT ![t] = Max({@ - lost_time, 0})]

Reschedule(t) ==
  /\ running = t /\ pc[t] = "returned"
  /\ pc' = [pc EXCEPT ![t] = "repost"]
  /\ plan' = [plan EXCEPT ![t] = @ + delay[t]]
  /\ read' = [read EXCEPT ![t] = now]
  /\ Adjust(t)
  /\ UNCHANGED <<now, running, start, repeating_task_, due, slip, safeVars, flagVars>>

Repost(t) ==
  /\ running = t /\ pc[t] = "repost"
  /\ running' = Nobody
  /\ Enqueue(t)
  /\ UNCHANGED <<now, start, repeating_task_, next_run_time_, delay, plan, read, safeVars, flagVars>>

(* Stop, on the queue: in another task, or in the closure itself.  The     *)
(* handle forgets the flag.                                                *)
Stop(t) ==
  /\ InATask
  /\ t \in repeating_task_
  /\ SetNotAlive(t)
  /\ repeating_task_' = repeating_task_ \ {t}
  /\ UNCHANGED <<now, running, start, pc, next_run_time_, delay, due, plan, read, slip, safeVars>>

Running(t) == t \in repeating_task_

Tick == now < MaxTime /\ now' = now + 1
        /\ UNCHANGED <<running, repeatVars, safeVars, flagVars>>

-----------------------------------------------------------------------------

Next ==
  \/ Tick
  \/ \E s \in Safe : PostSafe(s) \/ RunSafe(s)
  \/ SafeReturns \/ Scope
  \/ \E t \in Tasks :
       \/ \E d \in Delays : Construct(t, d)
       \/ \E d \in Delays \cup {Infinite} : ClosureReturns(t, d)
       \/ Start(t) \/ Run(t) \/ Reschedule(t) \/ Repost(t) \/ Stop(t)

Spec == Init /\ [][Next]_vars

(* A task in the queue is due when the start and the delays returned so    *)
(* far say: never before, and, however late the runs were, no later than   *)
(* that or the moment it was rescheduled, but for the time the posting     *)
(* took.                                                                   *)
OnSchedule ==
  \A t \in Tasks : pc[t] = "queued" =>
    /\ plan[t] <= due[t]
    /\ due[t] <= Max({plan[t], read[t]}) + slip[t]

(* Once it is stopped, by another task or by its own closure, a repeating *)
(* task neither calls its closure again nor posts itself; and a safe task  *)
(* does not begin once its scope ended, was reset or was marked, unless it *)
(* is marked alive again.                                                  *)
NothingAfterStop ==
  [][/\ \A t \in Tasks \cap disowned : pc'[t] \in {pc[t], "away"}
     /\ \A s \in Safe : running' = s => running = s \/ given[s] \notin disowned]_vars
===============================================================================
