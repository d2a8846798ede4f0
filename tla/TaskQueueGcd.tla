----------------------------- MODULE TaskQueueGcd -----------------------------
(***************************************************************************)
(* The task queue of Apple's systems (rtc_base/task_queue_gcd.cc): a       *)
(* serial queue of libdispatch, which also counts the references to it.    *)
(* libdispatch is not in the repository: it runs the blocks submitted to   *)
(* the queue in their order, one at a time, submits a delayed block when   *)
(* its time has come, and calls the finalizer when the creator and every   *)
(* block have released the queue.                                          *)
(***************************************************************************)
EXTENDS Integers, Sequences

CONSTANTS Tasks, Delays, Threads, Worker,
          MaxTime        \* bound: the clock stops here

VARIABLES
  is_active_,
  blocks,          \* submitted to the queue, oldest first: tasks and Sync
  after,           \* submitted with dispatch_after_f, as [task, at]
  block,           \* what the queue runs: a task, Sync or Nothing
  freed,           \* the finalizer has run
  now,
  ppc, call,       \* where each poster is, and the arguments of its call
  dpc,             \* how far Delete has come: "live", "sync", "deleted"
  fate, kind, notBefore  \* history: see TaskQueueBase

queueVars == <<blocks, after, block>>
historyVars == <<kind, notBefore>>
vars == <<is_active_, queueVars, freed, now, ppc, call, dpc, fate, historyVars>>

Sync == "SetNotActive"
Nothing == "nothing"
Posters == Threads \cup {Worker}
NoCall == [task |-> Nothing, delay |-> 0]

Init ==
  /\ is_active_ = TRUE
  /\ blocks = << >> /\ after = {} /\ block = Nothing
  /\ freed = FALSE
  /\ now = 0
  /\ ppc = [p \in Posters |-> "idle"]
  /\ call = [p \in Posters |-> NoCall]
  /\ dpc = "live"
  /\ fate = [t \in Tasks |-> "new"]
  /\ kind = [t \in Tasks |-> "none"]
  /\ notBefore = [t \in Tasks |-> 0]

-----------------------------------------------------------------------------

MayPost(p) == IF p = Worker THEN block \in Tasks ELSE dpc = "live"

BeginCall(p, t, k, d) ==
  /\ MayPost(p) /\ ppc[p] = "idle" /\ fate[t] = "new"
  /\ ppc' = [ppc EXCEPT ![p] = k]
  /\ call' = [call EXCEPT ![p] = [task |-> t, delay |-> d]]
  /\ fate' = [fate EXCEPT ![t] = "calling"]
  /\ kind' = [kind EXCEPT ![t] = k]
  /\ notBefore' = [notBefore EXCEPT ![t] = now + d]
  /\ UNCHANGED <<is_active_, queueVars, freed, now, dpc>>

Submitted(p) ==
  /\ ppc' = [ppc EXCEPT ![p] = "idle"]
  /\ call' = [call EXCEPT ![p] = NoCall]
  /\ fate' = [fate EXCEPT ![call[p].task] = "queued"]
  /\ UNCHANGED <<is_active_, block, freed, now, dpc, historyVars>>

PostTask(p) ==
  /\ ppc[p] = "immediate"
  /\ blocks' = Append(blocks, call[p].task)
  /\ Submitted(p) /\ UNCHANGED after

PostDelayedTask(p) ==
  /\ ppc[p] = "delayed"
  /\ after' = after \cup {[task |-> call[p].task, at |-> now + call[p].delay]}
  /\ Submitted(p) /\ UNCHANGED blocks

-----------------------------------------------------------------------------
(* libdispatch *)

TimeComes ==
  /\ \E a \in after : a.at <= now /\ after' = after \ {a} /\ blocks' = Append(blocks, a.task)
  /\ UNCHANGED <<is_active_, block, freed, now, ppc, call, dpc, fate, historyVars>>

(* Mutant: the flag is not looked at. *)
RunTask_Always ==
  /\ block = Nothing /\ blocks # << >> /\ Head(blocks) \in Tasks
  /\ blocks' = Tail(blocks)
  /\ block' = Head(blocks) /\ fate' = [fate EXCEPT ![Head(blocks)] = "running"]
  /\ UNCHANGED <<is_active_, after, freed, now, ppc, call, dpc, historyVars>>

(* A task that comes after Delete is dropped.                              *)
RunTask ==
  /\ block = Nothing /\ blocks # << >> /\ Head(blocks) \in Tasks
  /\ blocks' = Tail(blocks)
  /\ IF is_active_
       THEN block' = Head(blocks) /\ fate' = [fate EXCEPT ![Head(blocks)] = "running"]
       ELSE fate' = [fate EXCEPT ![Head(blocks)] = "destroyed"] /\ UNCHANGED block
  /\ UNCHANGED <<is_active_, after, freed, now, ppc, call, dpc, historyVars>>

FinishTask ==
  /\ block \in Tasks /\ ppc[Worker] = "idle"
  /\ block' = Nothing
  /\ fate' = [fate EXCEPT ![block] = "run"]
  /\ UNCHANGED <<is_active_, blocks, after, freed, now, ppc, call, dpc, historyVars>>

(* dispatch_sync_f: Delete waits until the queue comes to its block.       *)
Delete ==
  /\ dpc = "live" /\ \A p \in Threads : ppc[p] = "idle"
  /\ dpc' = "sync"
  /\ blocks' = Append(blocks, Sync)
  /\ UNCHANGED <<is_active_, after, block, freed, now, ppc, call, fate, historyVars>>

SetNotActive ==
  /\ block = Nothing /\ blocks # << >> /\ Head(blocks) = Sync
  /\ blocks' = Tail(blocks)
  /\ is_active_' = FALSE
  /\ dpc' = "deleted"
  /\ UNCHANGED <<after, block, freed, now, ppc, call, fate, historyVars>>

(* The finalizer: nothing holds the queue any more.                        *)
DeleteQueue ==
  /\ dpc = "deleted" /\ ~freed
  /\ blocks = << >> /\ after = {} /\ block = Nothing
  /\ freed' = TRUE
  /\ UNCHANGED <<is_active_, queueVars, now, ppc, call, dpc, fate, historyVars>>

Tick ==
  /\ now < MaxTime /\ now' = now + 1
  /\ UNCHANGED <<is_active_, queueVars, freed, ppc, call, dpc, fate, historyVars>>

-----------------------------------------------------------------------------

Next ==
  \/ \E p \in Posters :
       \/ \E t \in Tasks :
            \/ BeginCall(p, t, "immediate", 0)
            \/ \E d \in Delays : BeginCall(p, t, "delayed", d)
       \/ PostTask(p) \/ PostDelayedTask(p)
  \/ TimeComes \/ RunTask \/ FinishTask
  \/ Delete \/ SetNotActive \/ DeleteQueue
  \/ Tick

Spec == Init /\ [][Next]_vars
===============================================================================
