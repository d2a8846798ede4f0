---------------------------- MODULE TaskQueueBase ----------------------------
(***************************************************************************)
(* What a webrtc::TaskQueueBase promises to the code that posts to it      *)
(* (api/task_queue/task_queue_base.h): the abstract specification that     *)
(* every task queue of the repository is shown to implement.               *)
(*                                                                         *)
(* A task is one closure object: it is handed to one PostTask or           *)
(* PostDelayedTask call, and then either runs once or is destroyed.        *)
(***************************************************************************)
EXTENDS Naturals, Sequences

CONSTANTS Tasks,    \* the closures the program may post
          Delays    \* the delays, in clock units, of PostDelayedTask, naturals

VARIABLES now,        \* the clock
          fate,       \* what became of each task
          kind,       \* how each task was posted
          fifo,       \* the immediate tasks not yet started, oldest first
          notBefore,  \* the instant before which a task must not start
          deletion    \* how far TaskQueueBase::Delete has come

vars == <<now, fate, kind, fifo, notBefore, deletion>>

Init ==
  /\ now = 0
  /\ fate = [t \in Tasks |-> "new"]
  /\ kind = [t \in Tasks |-> "none"]
  /\ fifo = << >>
  /\ notBefore = [t \in Tasks |-> 0]
  /\ deletion = "live"

Busy == \E t \in Tasks : fate[t] = "running"

(* A call begins.  Once Delete was called only code that runs on the queue *)
(* may still post.                                                         *)
Call(t, k, d) ==
  /\ fate[t] = "new"
  /\ deletion = "live" \/ (deletion = "deleting" /\ Busy)
  /\ fate' = [fate EXCEPT ![t] = "calling"]
  /\ kind' = [kind EXCEPT ![t] = k]
  /\ notBefore' = [notBefore EXCEPT ![t] = now + d]
  /\ UNCHANGED <<now, fifo, deletion>>

(* The queue takes the task over: from here on it is run or destroyed.     *)
Accept(t) ==
  /\ fate[t] = "calling"
  /\ fate' = [fate EXCEPT ![t] = "queued"]
  /\ fifo' = IF kind[t] = "immediate" THEN Append(fifo, t) ELSE fifo
  /\ UNCHANGED <<now, kind, notBefore, deletion>>

(* Tasks run one at a time, immediate ones in FIFO order, delayed ones no  *)
(* earlier than asked for, and none once Delete has returned.              *)
Start(t) ==
  /\ fate[t] = "queued"
  /\ ~Busy
  /\ deletion # "deleted"
  /\ now >= notBefore[t]
  /\ IF kind[t] = "immediate"
       THEN fifo # << >> /\ t = Head(fifo) /\ fifo' = Tail(fifo)
       ELSE UNCHANGED fifo
  /\ fate' = [fate EXCEPT ![t] = "running"]
  /\ UNCHANGED <<now, kind, notBefore, deletion>>

Finish(t) ==
  /\ fate[t] = "running"
  /\ fate' = [fate EXCEPT ![t] = "run"]
  /\ UNCHANGED <<now, kind, fifo, notBefore, deletion>>

DeleteCalled ==
  /\ deletion = "live"
  /\ deletion' = "deleting"
  /\ UNCHANGED <<now, fate, kind, fifo, notBefore>>

(* What is left of a queue without the members of S, in the same order.    *)
IsRest(rest, queue, S) ==
  /\ {rest[i] : i \in DOMAIN rest} = {queue[i] : i \in DOMAIN queue} \ S
  /\ \A i, j \in DOMAIN rest : i < j =>
       \E k, l \in DOMAIN queue : k < l /\ queue[k] = rest[i] /\ queue[l] = rest[j]

(* Pending tasks are destroyed unexecuted, in any portions, while Delete   *)
(* runs or after it.                                                       *)
Destroyed(S) ==
  /\ S \subseteq {t \in Tasks : fate[t] = "queued"}
  /\ fate' = [t \in Tasks |-> IF t \in S THEN "destroyed" ELSE fate[t]]
  /\ fifo' \in Seq(Tasks) /\ IsRest(fifo', fifo, S)

Destroy(S) ==
  /\ deletion # "live"
  /\ Destroyed(S)
  /\ UNCHANGED <<now, kind, notBefore, deletion>>

(* Delete returns: nothing runs and nothing will start.                    *)
DeleteReturns(S) ==
  /\ deletion = "deleting"
  /\ \A t \in Tasks : fate[t] \notin {"running", "calling"}
  /\ Destroyed(S)
  /\ deletion' = "deleted"
  /\ UNCHANGED <<now, kind, notBefore>>

Tick ==
  /\ now' = now + 1
  /\ UNCHANGED <<fate, kind, fifo, notBefore, deletion>>

Next ==
  \/ \E t \in Tasks :
       \/ Call(t, "immediate", 0)
       \/ \E d \in Delays : Call(t, "delayed", d)
       \/ Accept(t)
       \/ Start(t)
       \/ Finish(t)
  \/ DeleteCalled
  \/ \E S \in SUBSET Tasks : Destroy(S) \/ DeleteReturns(S)
  \/ Tick

Spec == Init /\ [][Next]_vars
==============================================================================
