----------------------- MODULE RecursiveCriticalSection -----------------------
(***************************************************************************)
(* The recursive lock of the Mac (rtc_base/deprecated/                     *)
(* recursive_critical_section.cc), made of an atomic counter, a plain word *)
(* that names the owner, and a semaphore.  Enter spins for a while and     *)
(* then joins the queue of the semaphore, which libdispatch serves in      *)
(* order.  A load, a store and an atomic operation are one step each.      *)
(***************************************************************************)
EXTENDS Integers, Sequences

CONSTANTS Threads,
          Free,        \* no owner: 0 in the code
          MaxEnters    \* bound: how often a thread enters before it is out again

VARIABLES
  lock_queue_,         \* holds of the owner and threads that wait
  owning_thread_, recursion_,
  semaphore_, sleepers,\* its count, and who waits for it
  pc,                  \* where each thread is
  depth, enters        \* history: how deep each thread is inside, and how
                       \* often it entered since it was out

lockVars == <<lock_queue_, owning_thread_, recursion_>>
historyVars == <<depth, enters>>
vars == <<lockVars, semaphore_, sleepers, pc, historyVars>>

Init ==
  /\ lock_queue_ = 0 /\ owning_thread_ = Free /\ recursion_ = 0
  /\ semaphore_ = 0 /\ sleepers = << >>
  /\ pc = [t \in Threads |-> "out"]
  /\ depth = [t \in Threads |-> 0] /\ enters = [t \in Threads |-> 0]

Goto(t, place) == pc' = [pc EXCEPT ![t] = place]

-----------------------------------------------------------------------------

Enter(t) ==
  /\ pc[t] = "out" /\ enters[t] < MaxEnters
  /\ Goto(t, "spin")
  /\ UNCHANGED <<lockVars, semaphore_, sleepers, historyVars>>

(* One turn of the loop: the owner enters again at once, others try only   *)
(* when the counter reads zero.                                            *)
Spin(t) ==
  /\ pc[t] = "spin"
  /\ IF owning_thread_ = t THEN Goto(t, "again")
     ELSE lock_queue_ = 0 /\ Goto(t, "swap")
  /\ UNCHANGED <<lockVars, semaphore_, sleepers, historyVars>>

Again(t) ==
  /\ pc[t] = "again"
  /\ lock_queue_' = lock_queue_ + 1
  /\ Goto(t, "own")
  /\ UNCHANGED <<owning_thread_, recursion_, semaphore_, sleepers, historyVars>>

CompareAndSwap(t) ==
  /\ pc[t] = "swap"
  /\ IF lock_queue_ = 0
       THEN lock_queue_' = 1 /\ Goto(t, "own")
       ELSE Goto(t, "spin") /\ UNCHANGED lock_queue_
  /\ UNCHANGED <<owning_thread_, recursion_, semaphore_, sleepers, historyVars>>

(* After the last turn the thread joins the queue, or finds it empty.      *)
GiveUpSpinning(t) ==
  /\ pc[t] = "spin" /\ owning_thread_ # t
  /\ lock_queue_' = lock_queue_ + 1
  /\ Goto(t, IF lock_queue_' > 1 THEN "sleep" ELSE "own")
  /\ UNCHANGED <<owning_thread_, recursion_, semaphore_, sleepers, historyVars>>

Sleep(t) ==
  /\ pc[t] = "sleep"
  /\ IF semaphore_ > 0
       THEN semaphore_' = semaphore_ - 1 /\ Goto(t, "own") /\ UNCHANGED sleepers
       ELSE sleepers' = Append(sleepers, t) /\ Goto(t, "asleep") /\ UNCHANGED semaphore_
  /\ UNCHANGED <<lockVars, historyVars>>

Own(t) ==
  /\ pc[t] = "own"
  /\ owning_thread_' = t
  /\ Goto(t, "count")
  /\ UNCHANGED <<lock_queue_, recursion_, semaphore_, sleepers, historyVars>>

Count(t) ==
  /\ pc[t] = "count"
  /\ recursion_' = recursion_ + 1
  /\ depth' = [depth EXCEPT ![t] = @ + 1]
  /\ enters' = [enters EXCEPT ![t] = @ + 1]
  /\ Goto(t, "out")
  /\ UNCHANGED <<lock_queue_, owning_thread_, semaphore_, sleepers>>

(* TryEnter never waits.                                                   *)
TryEnter(t) ==
  /\ pc[t] = "out" /\ enters[t] < MaxEnters
  /\ IF owning_thread_ = t THEN Goto(t, "again") ELSE Goto(t, "try")
  /\ UNCHANGED <<lockVars, semaphore_, sleepers, historyVars>>

TrySwap(t) ==
  /\ pc[t] = "try"
  /\ IF lock_queue_ = 0
       THEN lock_queue_' = 1 /\ Goto(t, "own")
       ELSE Goto(t, "out") /\ UNCHANGED lock_queue_
  /\ UNCHANGED <<owning_thread_, recursion_, semaphore_, sleepers, historyVars>>

-----------------------------------------------------------------------------

Leave(t) ==
  /\ pc[t] = "out" /\ depth[t] > 0
  /\ depth' = [depth EXCEPT ![t] = @ - 1]
  /\ enters' = [enters EXCEPT ![t] = IF depth[t] = 1 THEN 0 ELSE @]
  /\ recursion_' = recursion_ - 1
  /\ Goto(t, IF recursion_' = 0 THEN "disown" ELSE "release")
  /\ UNCHANGED <<lock_queue_, owning_thread_, semaphore_, sleepers>>

Disown(t) ==
  /\ pc[t] = "disown"
  /\ owning_thread_' = Free
  /\ Goto(t, "release")
  /\ UNCHANGED <<lock_queue_, recursion_, semaphore_, sleepers, historyVars>>

Release(t) ==
  /\ pc[t] = "release"
  /\ lock_queue_' = lock_queue_ - 1
  /\ Goto(t, IF lock_queue_' > 0 THEN "test" ELSE "out")
  /\ UNCHANGED <<owning_thread_, recursion_, semaphore_, sleepers, historyVars>>

(* Mutant: an inner Leave lets a waiter in.                                *)
Test_AnyLeave(t) ==
  /\ pc[t] = "test"
  /\ Goto(t, "signal")
  /\ UNCHANGED <<lockVars, semaphore_, sleepers, historyVars>>

(* recursion_ is read after the decrement.                                 *)
Test(t) ==
  /\ pc[t] = "test"
  /\ Goto(t, IF recursion_ = 0 THEN "signal" ELSE "out")
  /\ UNCHANGED <<lockVars, semaphore_, sleepers, historyVars>>

Signal(t) ==
  /\ pc[t] = "signal"
  /\ IF sleepers = << >>
       THEN semaphore_' = semaphore_ + 1 /\ Goto(t, "out") /\ UNCHANGED sleepers
       ELSE /\ sleepers' = Tail(sleepers)
            /\ pc' = [pc EXCEPT ![t] = "out", ![Head(sleepers)] = "own"]
            /\ UNCHANGED semaphore_
  /\ UNCHANGED <<lockVars, historyVars>>

-----------------------------------------------------------------------------

Next ==
  \E t \in Threads :
    \/ Enter(t) \/ TryEnter(t) \/ Spin(t) \/ Again(t) \/ CompareAndSwap(t) \/ GiveUpSpinning(t)
    \/ Sleep(t) \/ Own(t) \/ Count(t) \/ TrySwap(t)
    \/ Leave(t) \/ Disown(t) \/ Release(t) \/ Test(t) \/ Signal(t)

Spec == Init /\ [][Next]_vars

Inside(t) == depth[t] > 0 \/ pc[t] \in {"own", "count", "disown"}
Leaving(t) == pc[t] \in {"release", "test", "signal"}

(* One thread at a time is inside, and its holds are counted.              *)
Exclusive ==
  /\ \A t, u \in Threads : Inside(t) /\ Inside(u) => t = u
  /\ \A t \in Threads : depth[t] > 0 => depth[t] = recursion_ /\ owning_thread_ = t

(* A thread that waits with nothing to take has somebody who will let it   *)
(* in: one that is inside, or the last one out on its way to the signal.   *)
NobodyForgotten ==
  (\E t \in Threads : pc[t] = "asleep" \/ (pc[t] = "sleep" /\ semaphore_ = 0)) =>
    \E u \in Threads : Inside(u) \/ Leaving(u)

(* The lock excludes, and the exit of the last hold is never lost on a     *)
(* thread that goes to sleep meanwhile.                                    *)
LockIsExclusive == Exclusive /\ NobodyForgotten
===============================================================================
