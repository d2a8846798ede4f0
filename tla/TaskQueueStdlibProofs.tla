------------------------ MODULE TaskQueueStdlibProofs ------------------------
(***************************************************************************)
(* Theorems about TaskQueueStdlib, for every set of tasks and threads,     *)
(* every set of delays and every unit of sleep.                            *)
(***************************************************************************)
EXTENDS TaskQueueStdlib, SequenceTheorems, TLAPS

-----------------------------------------------------------------------------
(* The head of pending_queue_ is a task, and taking it leaves a well typed *)
(* state.                                                                  *)
LEMMA PendingTaken == TypeOK /\ TakePending => TypeOK'
<1> SUFFICES ASSUME TypeOK, TakePending PROVE TypeOK'
  OBVIOUS
<1>1. Head(pending_queue_) \in Entry /\ Tail(pending_queue_) \in Seq(Entry)
  BY DEF TypeOK, TakePending
<1>2. Head(pending_queue_).task \in Tasks
  BY <1>1 DEF Entry
<1> QED
  BY <1>1, <1>2 DEF TypeOK, TakePending, TakeTask, posterVars

(* Rounding up to a multiple of u adds less than u.                        *)
LEMMA RoundUp ==
  ASSUME NEW a \in Nat, NEW u \in Nat \ {0}
  PROVE  /\ u * DivideRoundUp(a, u) \in Nat
         /\ a <= u * DivideRoundUp(a, u)
         /\ u * DivideRoundUp(a, u) < a + u
<1> DEFINE x == a + u - 1
           q == x \div u
           r == x % u
<1>1. x \in Nat
  OBVIOUS
<1> HIDE DEF x
<1>2. q \in Int /\ r \in 0 .. u - 1 /\ x = u * q + r
  BY <1>1
<1>3. q >= 0
  BY <1>1, <1>2
<1> HIDE DEF q, r
<1>4. u * q \in Int
  BY <1>2
<1> DEFINE y == u * q
<1>5. y \in Int /\ x = y + r
  BY <1>2, <1>4
<1> HIDE DEF y
<1>6. y < a + u /\ a <= y
  BY <1>2, <1>5 DEF x
<1> QED
  BY <1>1, <1>2, <1>5, <1>6 DEF DivideRoundUp, x, q, y

(* GetNextTask never lets the worker sleep one unit of sleep or more past  *)
(* the time the earliest delayed task is due.                              *)
LEMMA SleepIsBounded ==
  ASSUME TypeOK, NextIsSleep, DOMAIN delayed_queue_ # {}
  PROVE  /\ sleep_time' \in Nat
         /\ \A k \in DOMAIN delayed_queue_ :
              tick_us + sleep_time' < k.next_fire_at_us + UsPerMs
<1>1. PICK first \in DOMAIN delayed_queue_ :
        /\ IsBegin(first)
        /\ sleep_time' = UsPerMs * DivideRoundUp(first.next_fire_at_us - tick_us, UsPerMs)
  BY DEF NextIsSleep, SleepTimes
<1>2. first.next_fire_at_us \in Nat /\ tick_us \in Nat
  BY DEF TypeOK, Key
<1>3. first.next_fire_at_us - tick_us \in Nat
  BY <1>1, <1>2 DEF NextIsSleep, NoneDue, Due
<1>4. /\ sleep_time' \in Nat
      /\ sleep_time' < first.next_fire_at_us - tick_us + UsPerMs
  BY <1>1, <1>3, RoundUp, TimeAssumption
<1>5. ASSUME NEW k \in DOMAIN delayed_queue_
      PROVE  first.next_fire_at_us <= k.next_fire_at_us /\ k.next_fire_at_us \in Nat
  BY <1>1, <1>2 DEF IsBegin, Earlier, TypeOK, Key
<1> QED
  BY <1>2, <1>4, <1>5, TimeAssumption

-----------------------------------------------------------------------------
(* Every reachable state is well typed: the worker holds a task whenever   *)
(* it runs one, and a poster has the arguments of its call.                *)
THEOREM TypeCorrect == Spec => []TypeOK
<1>1. Init => TypeOK
  <2> SUFFICES ASSUME Init PROVE TypeOK
    OBVIOUS
  <2>1. DOMAIN delayed_queue_ = {}
    BY DEF Init, EmptyMap
  <2>2. pending_queue_ \in Seq(Entry)
    BY DEF Init
  <2>3. call \in [Posters -> Call \cup {NoCall}]
    BY DEF Init
  <2> QED
    BY <2>1, <2>2, <2>3 DEF Init, TypeOK, NoTask
<1>2. TypeOK /\ [Next]_vars => TypeOK'
  <2> SUFFICES ASSUME TypeOK, [Next]_vars PROVE TypeOK'
    OBVIOUS
  <2> USE TasksAssumption, TimeAssumption DEF TypeOK
  <2>1. ASSUME NEW p \in Posters, NEW t \in Tasks, PostTask(p, t) PROVE TypeOK'
    <3> call' \in [Posters -> Call \cup {NoCall}]
      BY <2>1 DEF PostTask, BeginCall, Call
    <3> QED
      BY <2>1 DEF PostTask, BeginCall, Call, queueVars, workerVars
  <2>2. ASSUME NEW p \in Posters, NEW t \in Tasks, NEW d \in Delays,
               PostDelayedTask(p, t, d)
        PROVE TypeOK'
    BY <2>2 DEF PostDelayedTask, BeginCall, Call, queueVars, workerVars
  <2>3. ASSUME NEW p \in Posters, PushPending(p) PROVE TypeOK'
    BY <2>3 DEF PushPending, Entry, Call, workerVars
  <2>4. ASSUME NEW p \in Posters, PushDelayed(p) PROVE TypeOK'
    <3> DEFINE key == [next_fire_at_us |-> call[p].next_fire_at_us,
                       order |-> thread_posting_order_']
    <3>1. call[p] \in Call /\ key \in Key
      BY <2>4 DEF PushDelayed, Call, Key
    <3>2. /\ DOMAIN delayed_queue_' = DOMAIN delayed_queue_ \cup {key}
          /\ \A k \in DOMAIN delayed_queue_' :
               delayed_queue_'[k] = IF k = key THEN call[p].task ELSE delayed_queue_[k]
      BY <2>4 DEF PushDelayed, Put
    <3> HIDE DEF key
    <3>3. DOMAIN delayed_queue_' \subseteq Key
          /\ \A k \in DOMAIN delayed_queue_' : delayed_queue_'[k] \in Tasks
      BY <3>1, <3>2 DEF Call
    <3> QED
      <4>1. /\ thread_posting_order_' \in Nat
            /\ ppc' \in [Posters -> {"idle", "push", "notify"}]
            /\ call' \in [Posters -> Call \cup {NoCall}]
            /\ \A q \in Posters : ppc'[q] = "push" => call'[q] \in Call
        BY <2>4 DEF PushDelayed
      <4>2. fate' \in [Tasks -> {"new", "calling", "queued", "running", "run",
                                "destroyed"}]
        BY <2>4 DEF PushDelayed
      <4> QED
        BY <2>4, <3>3, <4>1, <4>2 DEF PushDelayed, workerVars
  <2>5. ASSUME NEW p \in Posters, NotifyPosted(p) PROVE TypeOK'
    BY <2>5 DEF NotifyPosted, queueVars, workerVars, historyVars
  <2>6. CASE ReadTick
    BY <2>6 DEF ReadTick, queueVars, posterVars, historyVars
  <2>7. CASE NextIsFinal
    BY <2>7 DEF NextIsFinal, queueVars, posterVars, historyVars
  <2>8. CASE NextIsDue
    <3>1. CASE TakePending
      BY <3>1, PendingTaken
    <3>2. ASSUME NEW k \in DOMAIN delayed_queue_, TakeDelayed(k) PROVE TypeOK'
      BY <3>2 DEF TakeDelayed, TakeTask, posterVars
    <3> QED
      BY <2>8, <3>1, <3>2 DEF NextIsDue
  <2>9. CASE NextIsPending
    BY <2>9, PendingTaken DEF NextIsPending
  <2>10. CASE NextIsSleep
    <3>1. sleep_time' \in Nat \cup {kForever}
      <4>1. CASE DOMAIN delayed_queue_ = {}
        BY <2>10, <4>1 DEF NextIsSleep, SleepTimes
      <4>2. CASE DOMAIN delayed_queue_ # {}
        BY <2>10, <4>2, SleepIsBounded
      <4> QED
        BY <4>1, <4>2
    <3> QED
      BY <2>10, <3>1 DEF NextIsSleep, queueVars, posterVars, historyVars
  <2>11. CASE FinishTask
    BY <2>11 DEF FinishTask, queueVars, posterVars
  <2>12. CASE BeginWait
    BY <2>12 DEF BeginWait, queueVars, posterVars, historyVars, kForever
  <2>13. CASE EndWait
    BY <2>13 DEF EndWait, queueVars, posterVars, historyVars
  <2>14. CASE DeleteQuit
    BY <2>14 DEF DeleteQuit, workerVars, posterVars, historyVars
  <2>15. CASE DeleteNotify
    BY <2>15 DEF DeleteNotify, queueVars, workerVars, posterVars, historyVars
  <2>16. CASE DeleteJoin
    BY <2>16 DEF DeleteJoin, EmptyMap, workerVars, posterVars
  <2>17. CASE Tick
    BY <2>17 DEF Tick, queueVars, workerVars, posterVars, historyVars
  <2>18. CASE UNCHANGED vars
    BY <2>18 DEF vars, queueVars, workerVars, posterVars, historyVars
  <2> QED
    BY <2>1, <2>2, <2>3, <2>4, <2>5, <2>6, <2>7, <2>8, <2>9, <2>10, <2>11,
       <2>12, <2>13, <2>14, <2>15, <2>16, <2>17, <2>18
    DEF Next, Post, Poster, WorkerStep
<1> QED
  BY <1>1, <1>2, PTL DEF Spec

-----------------------------------------------------------------------------
(* The worker never sleeps on work that nobody will wake it for, however   *)
(* many threads post and whenever Delete is called: whoever adds work sets *)
(* the event afterwards, and the worker decides to sleep only after it has *)
(* seen all that was there.                                                *)
THEOREM WakeupNotLost == Spec => []NoLostWakeup
<1>1. Init => NoLostWakeup
  BY DEF Init, NoLostWakeup
<1>2. TypeOK /\ NoLostWakeup /\ [Next]_vars => NoLostWakeup'
  <2> SUFFICES ASSUME TypeOK, NoLostWakeup, [Next]_vars PROVE NoLostWakeup'
    OBVIOUS
  <2> USE DEF NoLostWakeup, NotifyComing
  <2>1. ASSUME NEW p \in Posters, NEW t \in Tasks, NEW k, NEW d,
               BeginCall(p, t, k, d)
        PROVE  NoLostWakeup'
    BY <2>1 DEF BeginCall, queueVars, workerVars, TypeOK
  <2>2. ASSUME NEW p \in Posters, PushPending(p) PROVE NoLostWakeup'
    BY <2>2 DEF PushPending, TypeOK
  <2>3. ASSUME NEW p \in Posters, PushDelayed(p) PROVE NoLostWakeup'
    BY <2>3 DEF PushDelayed, TypeOK
  <2>4. ASSUME NEW p \in Posters, NotifyPosted(p) PROVE NoLostWakeup'
    BY <2>4 DEF NotifyPosted
  <2>5. CASE ReadTick
    BY <2>5 DEF ReadTick
  <2>6. CASE NextIsFinal
    BY <2>6 DEF NextIsFinal
  <2>7. CASE NextIsDue
    BY <2>7 DEF NextIsDue, TakePending, TakeDelayed, TakeTask
  <2>8. CASE NextIsPending
    BY <2>8 DEF NextIsPending, TakePending, TakeTask
  <2>9. CASE NextIsSleep
    <3>1. pending_queue_' = << >> /\ ~thread_should_quit_'
      BY <2>9 DEF NextIsSleep, queueVars
    <3>2. ASSUME NEW k \in DOMAIN delayed_queue_
          PROVE  /\ sleep_time' # kForever
                 /\ tick_us + sleep_time' < k.next_fire_at_us + UsPerMs
      BY <2>9, <3>2, SleepIsBounded DEF kForever
    <3> QED
      BY <2>9, <3>1, <3>2 DEF NextIsSleep, queueVars
  <2>10. CASE FinishTask
    BY <2>10 DEF FinishTask
  <2>11. CASE BeginWait
    BY <2>11 DEF BeginWait, queueVars, posterVars
  <2>12. CASE EndWait
    BY <2>12 DEF EndWait
  <2>13. CASE DeleteQuit
    BY <2>13 DEF DeleteQuit
  <2>14. CASE DeleteNotify
    BY <2>14 DEF DeleteNotify
  <2>15. CASE DeleteJoin
    BY <2>15 DEF DeleteJoin, workerVars
  <2>16. CASE Tick
    BY <2>16 DEF Tick, queueVars, workerVars, posterVars
  <2>17. CASE UNCHANGED vars
    BY <2>17 DEF vars, queueVars, workerVars, posterVars
  <2> QED
    BY <2>1, <2>2, <2>3, <2>4, <2>5, <2>6, <2>7, <2>8, <2>9, <2>10, <2>11,
       <2>12, <2>13, <2>14, <2>15, <2>16, <2>17
    DEF Next, Post, Poster, WorkerStep, PostTask, PostDelayedTask
<1> QED
  BY <1>1, <1>2, TypeCorrect, PTL DEF Spec

-----------------------------------------------------------------------------
(* The inductive invariant of the queue, in parts *)

(* A task is in one call at a time, and the call knows how it was posted.  *)
CallsHoldTasks ==
  /\ \A p \in Posters : ppc[p] = "push" =>
       /\ fate[call[p].task] = "calling"
       /\ kind[call[p].task] = IF call[p].delayed THEN "delayed" ELSE "immediate"
       /\ notBefore[call[p].task] = call[p].next_fire_at_us
  /\ \A p, q \in Posters :
       ppc[p] = "push" /\ ppc[q] = "push" /\ call[p].task = call[q].task => p = q
  /\ \A t \in Tasks : fate[t] = "calling" =>
       \E p \in Posters : ppc[p] = "push" /\ call[p].task = t

(* Both queues are in the order of posting, which counts every entry once. *)
OrdersDiffer ==
  /\ \A i \in DOMAIN pending_queue_ : pending_queue_[i].order <= thread_posting_order_
  /\ \A k \in DOMAIN delayed_queue_ : k.order <= thread_posting_order_
  /\ \A i, j \in DOMAIN pending_queue_ :
       i < j => pending_queue_[i].order < pending_queue_[j].order
  /\ \A i \in DOMAIN pending_queue_ : \A k \in DOMAIN delayed_queue_ :
       pending_queue_[i].order # k.order

(* The queues hold tasks of their kind, and the times the program asked    *)
(* for; an immediate task may start at once.                               *)
KindsAgree ==
  /\ \A i \in DOMAIN pending_queue_ : kind[pending_queue_[i].task] = "immediate"
  /\ \A k \in DOMAIN delayed_queue_ :
       kind[delayed_queue_[k]] = "delayed" /\ notBefore[delayed_queue_[k]] = k.next_fire_at_us
  /\ \A t \in Tasks : kind[t] = "immediate" => notBefore[t] <= now
  /\ tick_us <= now

(* Only the worker runs a task, the one it holds.                          *)
WorkerRuns ==
  /\ \A t \in Tasks : fate[t] = "running" <=> wpc = "run" /\ run_task = t
  /\ wpc # "run" => ppc[Worker] # "push"

(* Once Delete was called nobody outside posts, and when the worker has    *)
(* left its loop Delete was called.                                        *)
DeletionAgrees ==
  /\ thread_should_quit_ <=> dpc # "live"
  /\ wpc = "final" => thread_should_quit_
  /\ dpc = "deleted" => wpc = "final"
  /\ dpc # "live" => \A p \in Threads : ppc[p] # "push"

QueueInv ==
  /\ QueuedOnce
  /\ CallsHoldTasks
  /\ OrdersDiffer
  /\ KindsAgree
  /\ WorkerRuns
  /\ DeletionAgrees

LEMMA QueueInvInit == Init => QueueInv
<1> SUFFICES ASSUME Init PROVE QueueInv
  OBVIOUS
<1>1. DOMAIN pending_queue_ = {} /\ DOMAIN delayed_queue_ = {}
  BY DEF Init, EmptyMap
<1> QED
  BY <1>1 DEF Init, QueueInv, QueuedOnce, InPending, InDelayed, CallsHoldTasks, OrdersDiffer,
     KindsAgree, WorkerRuns, DeletionAgrees, Posters

LEMMA EntriesTyped ==
  ASSUME TypeOK, NEW i \in DOMAIN pending_queue_
  PROVE  pending_queue_[i].task \in Tasks /\ pending_queue_[i].order \in Nat
<1>1. pending_queue_[i] \in Entry
  BY DEF TypeOK
<1> QED
  BY <1>1 DEF Entry

(* A call begins.                                                          *)
LEMMA QueueInvBeginCall ==
  ASSUME TypeOK, QueueInv,
         NEW p \in Posters, NEW t \in Tasks, NEW k \in {"immediate", "delayed"}, NEW d \in Nat,
         k = "immediate" => d = 0,
         BeginCall(p, t, k, d)
  PROVE  QueueInv'
<1> USE DEF QueueInv
<1>1. fate[t] = "new" /\ fate' = [fate EXCEPT ![t] = "calling"]
  BY DEF BeginCall
<1>2. UNCHANGED <<pending_queue_, delayed_queue_, thread_posting_order_, thread_should_quit_,
                  now, wpc, tick_us, run_task, dpc>>
  BY DEF BeginCall, queueVars, workerVars
<1>3. \A i \in DOMAIN pending_queue_ : pending_queue_[i].task \in Tasks /\ pending_queue_[i].task # t
  BY <1>1, EntriesTyped DEF QueuedOnce, InPending
<1>4. \A l \in DOMAIN delayed_queue_ : delayed_queue_[l] \in Tasks /\ delayed_queue_[l] # t
  BY <1>1 DEF QueuedOnce, InDelayed, TypeOK
<1>5. QueuedOnce'
  BY <1>1, <1>2 DEF QueuedOnce, InPending, InDelayed, TypeOK
<1>6. CallsHoldTasks'
  <2>1. /\ ppc[p] = "idle" /\ ppc' = [ppc EXCEPT ![p] = "push"]
        /\ call' = [call EXCEPT ![p] = [task |-> t, delayed |-> k = "delayed",
                                        next_fire_at_us |-> now + d]]
        /\ kind' = [kind EXCEPT ![t] = k]
        /\ notBefore' = [notBefore EXCEPT ![t] = now + d]
    BY DEF BeginCall
  <2>2. \A q \in Posters : q # p => ppc'[q] = ppc[q] /\ call'[q] = call[q]
    BY <2>1 DEF TypeOK
  <2>3. ppc'[p] = "push" /\ call'[p].task = t /\ call'[p].next_fire_at_us = now + d
        /\ call'[p].delayed = (k = "delayed")
    BY <2>1 DEF TypeOK
  <2>4. \A q \in Posters : ppc[q] = "push" => call[q].task # t /\ call[q].task \in Tasks
    BY <1>1 DEF CallsHoldTasks, TypeOK, Call
  <2>5. fate'[t] = "calling" /\ kind'[t] = k /\ notBefore'[t] = now + d
    BY <1>1, <2>1 DEF TypeOK
  <2>6. \A u \in Tasks : u # t => fate'[u] = fate[u] /\ kind'[u] = kind[u] /\ notBefore'[u] = notBefore[u]
    BY <1>1, <2>1 DEF TypeOK
  <2>7. ASSUME NEW q \in Posters, ppc'[q] = "push"
        PROVE  /\ fate'[call'[q].task] = "calling"
               /\ kind'[call'[q].task] = IF call'[q].delayed THEN "delayed" ELSE "immediate"
               /\ notBefore'[call'[q].task] = call'[q].next_fire_at_us
    <3>1. CASE q = p
      BY <3>1, <2>3, <2>5
    <3>2. CASE q # p
      BY <3>2, <2>7, <2>2, <2>4, <2>6 DEF CallsHoldTasks
    <3> QED
      BY <3>1, <3>2
  <2>8. \A q, r \in Posters :
          ppc'[q] = "push" /\ ppc'[r] = "push" /\ call'[q].task = call'[r].task => q = r
    BY <2>2, <2>3, <2>4 DEF CallsHoldTasks
  <2>9. \A u \in Tasks : fate'[u] = "calling" =>
          \E q \in Posters : ppc'[q] = "push" /\ call'[q].task = u
    BY <2>2, <2>3, <2>6, <2>1 DEF CallsHoldTasks
  <2> QED
    BY <2>7, <2>8, <2>9 DEF CallsHoldTasks
<1>7. OrdersDiffer'
  BY <1>2 DEF OrdersDiffer
<1>8. KindsAgree'
  <2>1. /\ kind' = [kind EXCEPT ![t] = k]
        /\ notBefore' = [notBefore EXCEPT ![t] = now + d]
    BY DEF BeginCall
  <2> QED
    BY <1>2, <1>3, <1>4, <2>1 DEF KindsAgree, TypeOK
<1>9. WorkerRuns'
  <2>1. \A u \in Tasks : fate'[u] = "running" <=> fate[u] = "running"
    BY <1>1 DEF TypeOK
  <2>2. wpc # "run" => ppc'[Worker] = ppc[Worker]
    BY DEF BeginCall, MayPost, TypeOK
  <2> QED
    BY <1>2, <2>1, <2>2 DEF WorkerRuns
<1>10. DeletionAgrees'
  <2>1. dpc # "live" => \A q \in Threads : ppc'[q] = ppc[q]
    BY TasksAssumption DEF BeginCall, MayPost, TypeOK, Posters
  <2> QED
    BY <1>2, <2>1 DEF DeletionAgrees
<1> QED
  BY <1>5, <1>6, <1>7, <1>8, <1>9, <1>10

(* What a push does to the calls and to the history: its task is queued.   *)
LEMMA PushedTask ==
  ASSUME TypeOK, QueueInv, NEW p \in Posters,
         ppc[p] = "push",
         ppc' = [ppc EXCEPT ![p] = "notify"],
         call' = [call EXCEPT ![p] = NoCall],
         fate' = [fate EXCEPT ![call[p].task] = "queued"],
         UNCHANGED <<wpc, run_task, dpc, thread_should_quit_, kind, notBefore>>
  PROVE  /\ call[p].task \in Tasks /\ fate[call[p].task] = "calling"
         /\ \A t \in Tasks : fate'[t] = IF t = call[p].task THEN "queued" ELSE fate[t]
         /\ CallsHoldTasks' /\ WorkerRuns' /\ DeletionAgrees'
<1> USE DEF QueueInv
<1> DEFINE t == call[p].task
<1>1. call[p] \in Call /\ t \in Tasks /\ fate[t] = "calling"
  BY DEF TypeOK, Call, CallsHoldTasks
<1>2. \A u \in Tasks : fate'[u] = IF u = t THEN "queued" ELSE fate[u]
  BY <1>1 DEF TypeOK
<1>3. \A q \in Posters : ppc'[q] = IF q = p THEN "notify" ELSE ppc[q]
  BY DEF TypeOK
<1>4. \A q \in Posters : q # p => call'[q] = call[q]
  BY DEF TypeOK
<1>5. \A q \in Posters : ppc[q] = "push" => call[q].task \in Tasks
  BY DEF TypeOK, Call
<1>6. CallsHoldTasks'
  <2>1. ASSUME NEW q \in Posters, ppc'[q] = "push"
        PROVE  q # p /\ ppc[q] = "push" /\ call'[q] = call[q] /\ call[q].task # t /\ call[q].task \in Tasks
    BY <2>1, <1>3, <1>4, <1>5 DEF CallsHoldTasks
  <2>2. \A u \in Tasks : fate'[u] = "calling" =>
          \E q \in Posters : ppc'[q] = "push" /\ call'[q].task = u
    <3> SUFFICES ASSUME NEW u \in Tasks, fate'[u] = "calling"
                 PROVE  \E q \in Posters : ppc'[q] = "push" /\ call'[q].task = u
      OBVIOUS
    <3>1. u # t /\ fate[u] = "calling"
      BY <1>2
    <3>2. PICK q \in Posters : ppc[q] = "push" /\ call[q].task = u
      BY <3>1 DEF CallsHoldTasks
    <3> QED
      BY <3>1, <3>2, <1>3, <1>4
  <2> HIDE DEF t
  <2>3. \A q \in Posters : ppc'[q] = "push" =>
          /\ fate'[call'[q].task] = "calling"
          /\ kind'[call'[q].task] = IF call'[q].delayed THEN "delayed" ELSE "immediate"
          /\ notBefore'[call'[q].task] = call'[q].next_fire_at_us
    BY <2>1, <1>2 DEF CallsHoldTasks
  <2>4. \A q, r \in Posters :
          ppc'[q] = "push" /\ ppc'[r] = "push" /\ call'[q].task = call'[r].task => q = r
    BY <2>1 DEF CallsHoldTasks
  <2> QED
    BY <2>2, <2>3, <2>4 DEF CallsHoldTasks
<1>7. WorkerRuns'
  BY <1>1, <1>2, <1>3 DEF WorkerRuns, Posters
<1>8. DeletionAgrees'
  BY <1>3 DEF DeletionAgrees, Posters
<1> QED
  BY <1>1, <1>2, <1>6, <1>7, <1>8

LEMMA QueueInvPushPending ==
  ASSUME TypeOK, QueueInv, NEW p \in Posters, PushPending(p)
  PROVE  QueueInv'
<1> USE DEF QueueInv
<1> DEFINE t == call[p].task
           n == thread_posting_order_ + 1
           last == Len(pending_queue_) + 1
<1>1. /\ ppc[p] = "push" /\ ~call[p].delayed /\ thread_posting_order_' = n
      /\ pending_queue_' = Append(pending_queue_, [order |-> n, task |-> t])
      /\ UNCHANGED <<delayed_queue_, now, tick_us, kind, notBefore>>
  BY DEF PushPending, workerVars
<1>2. /\ t \in Tasks /\ fate[t] = "calling"
      /\ \A u \in Tasks : fate'[u] = IF u = t THEN "queued" ELSE fate[u]
      /\ CallsHoldTasks' /\ WorkerRuns' /\ DeletionAgrees'
  BY PushedTask DEF PushPending, workerVars
<1>3. kind[t] = "immediate"
  BY <1>1 DEF CallsHoldTasks
<1>4. pending_queue_ \in Seq(Entry) /\ thread_posting_order_ \in Nat
  BY DEF TypeOK
<1>5. /\ DOMAIN pending_queue_' = 1 .. last /\ last \in Nat \ {0}
      /\ DOMAIN pending_queue_ = 1 .. last - 1
      /\ pending_queue_'[last] = [order |-> n, task |-> t]
      /\ \A i \in 1 .. last - 1 : pending_queue_'[i] = pending_queue_[i]
  BY <1>1, <1>4
<1>6. \A i \in 1 .. last - 1 : /\ pending_queue_[i].task \in Tasks /\ pending_queue_[i].task # t
                               /\ pending_queue_[i].order \in Nat
                               /\ pending_queue_[i].order <= thread_posting_order_
  BY <1>2, <1>5, EntriesTyped DEF QueuedOnce, InPending, OrdersDiffer
<1>7. \A k \in DOMAIN delayed_queue_ : /\ delayed_queue_[k] \in Tasks /\ delayed_queue_[k] # t
                                       /\ k.order \in Nat /\ k.order <= thread_posting_order_
  BY <1>2 DEF QueuedOnce, InDelayed, TypeOK, Key, OrdersDiffer
<1> HIDE DEF t, n, last
<1>8. pending_queue_'[last].task = t /\ pending_queue_'[last].order = n
  BY <1>5
<1>9. QueuedOnce'
  <2>1. \A u \in Tasks : InPending(u)' <=> InPending(u) \/ u = t
    <3>1. \A u : InPending(u) <=> \E i \in 1 .. last - 1 : pending_queue_[i].task = u
      BY <1>5 DEF InPending
    <3>2. \A u : InPending(u)' <=> \E i \in 1 .. last : pending_queue_'[i].task = u
      BY <1>5 DEF InPending
    <3>3. \A i \in 1 .. last - 1 : i \in 1 .. last /\ pending_queue_'[i].task = pending_queue_[i].task
      BY <1>5
    <3>4. \A i \in 1 .. last : i \in 1 .. last - 1 \/ i = last
      BY <1>5
    <3>5. last \in 1 .. last
      BY <1>5
    <3> QED
      BY <3>1, <3>2, <3>3, <3>4, <3>5, <1>8
  <2>2. \A u \in Tasks : InDelayed(u)' <=> InDelayed(u)
    BY <1>1 DEF InDelayed
  <2>3. ~InDelayed(t)
    BY <1>7 DEF InDelayed
  <2>4. \A i, j \in DOMAIN pending_queue_' :
          pending_queue_'[i].task = pending_queue_'[j].task => i = j
    BY <1>5, <1>6, <1>8 DEF QueuedOnce
  <2> QED
    BY <1>1, <1>2, <2>1, <2>2, <2>3, <2>4 DEF QueuedOnce
<1>10. OrdersDiffer'
  <2>1. n \in Nat /\ n > thread_posting_order_ /\ thread_posting_order_' = n
    BY <1>1, <1>4 DEF n
  <2>2. \A i \in DOMAIN pending_queue_' : pending_queue_'[i].order <= n
    BY <1>4, <1>5, <1>6, <1>8, <2>1
  <2>3. \A i, j \in DOMAIN pending_queue_' : i < j => pending_queue_'[i].order < pending_queue_'[j].order
    <3> SUFFICES ASSUME NEW i \in 1 .. last, NEW j \in 1 .. last, i < j
                 PROVE  pending_queue_'[i].order < pending_queue_'[j].order
      BY <1>5
    <3>1. CASE j = last
      BY <3>1, <1>4, <1>5, <1>6, <1>8, <2>1
    <3>2. CASE j # last
      BY <3>2, <1>5 DEF OrdersDiffer
    <3> QED
      BY <3>1, <3>2
  <2>4. \A i \in DOMAIN pending_queue_' : \A k \in DOMAIN delayed_queue_ :
          pending_queue_'[i].order # k.order
    BY <1>4, <1>5, <1>7, <1>8, <2>1 DEF OrdersDiffer
  <2> QED
    BY <1>1, <1>4, <1>7, <2>1, <2>2, <2>3, <2>4 DEF OrdersDiffer
<1>11. KindsAgree'
  BY <1>1, <1>3, <1>5, <1>8 DEF KindsAgree
<1> QED
  BY <1>2, <1>9, <1>10, <1>11

LEMMA QueueInvPushDelayed ==
  ASSUME TypeOK, QueueInv, NEW p \in Posters, PushDelayed(p)
  PROVE  QueueInv'
<1> USE DEF QueueInv
<1> DEFINE t == call[p].task
           n == thread_posting_order_ + 1
           key == [next_fire_at_us |-> call[p].next_fire_at_us, order |-> n]
<1>1. /\ ppc[p] = "push" /\ call[p].delayed /\ thread_posting_order_' = n
      /\ delayed_queue_' = Put(delayed_queue_, key, t)
      /\ UNCHANGED <<pending_queue_, now, tick_us, kind, notBefore>>
  BY DEF PushDelayed, workerVars
<1>2. /\ t \in Tasks /\ fate[t] = "calling"
      /\ \A u \in Tasks : fate'[u] = IF u = t THEN "queued" ELSE fate[u]
      /\ CallsHoldTasks' /\ WorkerRuns' /\ DeletionAgrees'
  BY PushedTask DEF PushDelayed, workerVars
<1>3. kind[t] = "delayed" /\ notBefore[t] = key.next_fire_at_us /\ key.order = n
  BY <1>1 DEF CallsHoldTasks
<1>4. n \in Nat /\ n > thread_posting_order_ /\ thread_posting_order_ \in Nat
  BY DEF TypeOK
<1>5. \A i \in DOMAIN pending_queue_ :
        /\ pending_queue_[i].task \in Tasks /\ pending_queue_[i].task # t
        /\ pending_queue_[i].order \in Nat
        /\ pending_queue_[i].order <= thread_posting_order_
  BY <1>2, EntriesTyped DEF QueuedOnce, InPending, OrdersDiffer
<1>6. \A k \in DOMAIN delayed_queue_ :
        /\ delayed_queue_[k] \in Tasks /\ delayed_queue_[k] # t
        /\ k.order \in Nat /\ k.order <= thread_posting_order_
  BY <1>2 DEF QueuedOnce, InDelayed, TypeOK, Key, OrdersDiffer
<1>7. key \notin DOMAIN delayed_queue_
  BY <1>3, <1>4, <1>6
<1>8. /\ DOMAIN delayed_queue_' = DOMAIN delayed_queue_ \cup {key}
      /\ delayed_queue_'[key] = t
      /\ \A k \in DOMAIN delayed_queue_ : delayed_queue_'[k] = delayed_queue_[k]
  BY <1>1, <1>7 DEF Put
<1> HIDE DEF t, n, key
<1>9. QueuedOnce'
  <2>1. \A u \in Tasks : InPending(u)' <=> InPending(u)
    BY <1>1 DEF InPending
  <2>2. \A u \in Tasks : InDelayed(u)' <=> InDelayed(u) \/ u = t
    BY <1>8 DEF InDelayed
  <2>3. ~InPending(t)
    BY <1>5 DEF InPending
  <2>4. \A k, l \in DOMAIN delayed_queue_' : delayed_queue_'[k] = delayed_queue_'[l] => k = l
    BY <1>6, <1>8 DEF QueuedOnce
  <2> QED
    BY <1>1, <1>2, <2>1, <2>2, <2>3, <2>4 DEF QueuedOnce
<1>10. OrdersDiffer'
  <2>1. \A i \in DOMAIN pending_queue_' : pending_queue_'[i].order <= thread_posting_order_'
    BY <1>1, <1>4, <1>5
  <2>2. \A k \in DOMAIN delayed_queue_' : k.order <= thread_posting_order_'
    BY <1>1, <1>3, <1>4, <1>6, <1>8
  <2>3. \A i \in DOMAIN pending_queue_' : \A k \in DOMAIN delayed_queue_' :
          pending_queue_'[i].order # k.order
    BY <1>1, <1>3, <1>4, <1>5, <1>8 DEF OrdersDiffer
  <2> QED
    BY <1>1, <2>1, <2>2, <2>3 DEF OrdersDiffer
<1>11. KindsAgree'
  BY <1>1, <1>3, <1>8 DEF KindsAgree
<1> QED
  BY <1>2, <1>9, <1>10, <1>11

(* Steps that move no task keep the invariant.                             *)
LEMMA QueueInvRest ==
  ASSUME TypeOK, QueueInv,
         UNCHANGED <<pending_queue_, delayed_queue_, thread_posting_order_, call,
                     historyVars, run_task>>,
         \A p \in Posters : ppc'[p] = "push" <=> ppc[p] = "push",
         now' \in Nat, now <= now', tick_us' <= now',
         wpc' = "run" <=> wpc = "run",
         thread_should_quit_' <=> dpc' # "live",
         wpc' = "final" => thread_should_quit_',
         dpc' = "deleted" => wpc' = "final",
         dpc' # "live" => \A p \in Threads : ppc[p] # "push"
  PROVE  QueueInv'
<1> USE DEF QueueInv, historyVars
<1>1. QueuedOnce'
  BY DEF QueuedOnce, InPending, InDelayed
<1>2. CallsHoldTasks'
  BY DEF CallsHoldTasks
<1>3. OrdersDiffer'
  BY DEF OrdersDiffer
<1>4. KindsAgree'
  <2>1. \A t \in Tasks : kind'[t] = "immediate" => notBefore'[t] <= now'
    BY DEF KindsAgree, TypeOK
  <2> QED
    BY <2>1 DEF KindsAgree
<1>5. WorkerRuns'
  BY DEF WorkerRuns, Posters
<1>6. DeletionAgrees'
  BY DEF DeletionAgrees, Posters
<1> QED
  BY <1>1, <1>2, <1>3, <1>4, <1>5, <1>6

(* The worker takes a task: what it does to calls and history.             *)
LEMMA TakenTask ==
  ASSUME TypeOK, QueueInv, wpc = "next", ~thread_should_quit_,
         NEW t \in Tasks, fate[t] = "queued", TakeTask(t)
  PROVE  /\ \A u \in Tasks : fate'[u] = IF u = t THEN "running" ELSE fate[u]
         /\ CallsHoldTasks' /\ WorkerRuns' /\ DeletionAgrees'
<1> USE DEF QueueInv
<1>1. \A u \in Tasks : fate'[u] = IF u = t THEN "running" ELSE fate[u]
  BY DEF TakeTask, TypeOK
<1>2. UNCHANGED <<ppc, call, dpc, kind, notBefore, thread_should_quit_>>
      /\ wpc' = "run" /\ run_task' = t
  BY DEF TakeTask, posterVars
<1>3. \A q \in Posters : ppc[q] = "push" => call[q].task \in Tasks /\ call[q].task # t
  BY DEF TypeOK, Call, CallsHoldTasks
<1>4. CallsHoldTasks'
  <2>1. \A q \in Posters : ppc'[q] = "push" =>
          /\ fate'[call'[q].task] = "calling"
          /\ kind'[call'[q].task] = IF call'[q].delayed THEN "delayed" ELSE "immediate"
          /\ notBefore'[call'[q].task] = call'[q].next_fire_at_us
    BY <1>1, <1>2, <1>3 DEF CallsHoldTasks
  <2>2. \A u \in Tasks : fate'[u] = "calling" =>
          \E q \in Posters : ppc'[q] = "push" /\ call'[q].task = u
    BY <1>1, <1>2 DEF CallsHoldTasks
  <2> QED
    BY <1>2, <2>1, <2>2 DEF CallsHoldTasks
<1>5. WorkerRuns'
  BY <1>1, <1>2 DEF WorkerRuns
<1>6. DeletionAgrees'
  BY <1>2 DEF DeletionAgrees
<1> QED
  BY <1>1, <1>4, <1>5, <1>6

LEMMA QueueInvTakePending ==
  ASSUME TypeOK, QueueInv, wpc = "next", ~thread_should_quit_, TakePending
  PROVE  QueueInv'
<1> USE DEF QueueInv
<1> DEFINE t == Head(pending_queue_).task
           last == Len(pending_queue_) - 1
<1>1. /\ pending_queue_ # << >> /\ TakeTask(t) /\ pending_queue_' = Tail(pending_queue_)
      /\ UNCHANGED <<delayed_queue_, thread_posting_order_, now, tick_us, kind, notBefore>>
  BY DEF TakePending, TakeTask
<1>2. pending_queue_ \in Seq(Entry)
  BY DEF TypeOK
<1>3. /\ last \in Nat /\ DOMAIN pending_queue_ = 1 .. last + 1 /\ DOMAIN pending_queue_' = 1 .. last
      /\ t = pending_queue_[1].task
      /\ \A i \in 1 .. last : i + 1 \in 1 .. last + 1 /\ pending_queue_'[i] = pending_queue_[i + 1]
  BY <1>1, <1>2
<1> HIDE DEF last
<1>4. 1 \in DOMAIN pending_queue_ /\ t \in Tasks /\ fate[t] = "queued"
  BY <1>3, EntriesTyped DEF QueuedOnce, InPending
<1>5. /\ \A u \in Tasks : fate'[u] = IF u = t THEN "running" ELSE fate[u]
      /\ CallsHoldTasks' /\ WorkerRuns' /\ DeletionAgrees'
  BY <1>1, <1>4, TakenTask
<1>6. \A i \in 1 .. last : pending_queue_[i + 1].task # t
  BY <1>3, <1>4 DEF QueuedOnce
<1>7. ~InDelayed(t)
  BY <1>3, <1>4 DEF QueuedOnce, InPending
<1> HIDE DEF t
<1>8. QueuedOnce'
  <2>1. ASSUME NEW u \in Tasks PROVE InPending(u)' <=> InPending(u) /\ u # t
    <3>1. ASSUME InPending(u)' PROVE InPending(u) /\ u # t
      <4>1. PICK i \in 1 .. last : pending_queue_'[i].task = u
        BY <3>1, <1>3 DEF InPending
      <4> QED
        BY <4>1, <1>3, <1>6 DEF InPending
    <3>2. ASSUME InPending(u), u # t PROVE InPending(u)'
      <4>1. PICK i \in 1 .. last + 1 : pending_queue_[i].task = u
        BY <3>2, <1>3 DEF InPending
      <4>2. i - 1 \in 1 .. last /\ (i - 1) + 1 = i
        BY <4>1, <3>2, <1>3
      <4>3. pending_queue_'[i - 1] = pending_queue_[i]
        BY <4>2, <1>3
      <4> QED
        BY <4>1, <4>2, <4>3, <1>3 DEF InPending
    <3> QED
      BY <3>1, <3>2
  <2>2. \A u \in Tasks : InDelayed(u)' <=> InDelayed(u)
    BY <1>1 DEF InDelayed
  <2>3. \A i, j \in DOMAIN pending_queue_' :
          pending_queue_'[i].task = pending_queue_'[j].task => i = j
    <3> SUFFICES ASSUME NEW i \in 1 .. last, NEW j \in 1 .. last,
                        pending_queue_[i + 1].task = pending_queue_[j + 1].task
                 PROVE  i = j
      BY <1>3
    <3>1. i + 1 = j + 1
      BY <1>3 DEF QueuedOnce
    <3> QED
      BY <3>1
  <2>4. \A u \in Tasks : fate'[u] = "queued" <=> InPending(u)' \/ InDelayed(u)'
    BY <1>5, <1>7, <2>1, <2>2 DEF QueuedOnce
  <2> QED
    BY <1>1, <2>1, <2>2, <2>3, <2>4 DEF QueuedOnce
<1>9. OrdersDiffer'
  <2>1. \A i, j \in DOMAIN pending_queue_' :
          i < j => pending_queue_'[i].order < pending_queue_'[j].order
    <3> SUFFICES ASSUME NEW i \in 1 .. last, NEW j \in 1 .. last, i < j
                 PROVE  pending_queue_[i + 1].order < pending_queue_[j + 1].order
      BY <1>3
    <3>1. i + 1 < j + 1 /\ i + 1 \in DOMAIN pending_queue_ /\ j + 1 \in DOMAIN pending_queue_
      BY <1>3
    <3> QED
      BY <3>1 DEF OrdersDiffer
  <2> QED
    BY <1>1, <1>3, <2>1 DEF OrdersDiffer
<1>10. KindsAgree'
  BY <1>1, <1>3 DEF KindsAgree
<1> QED
  BY <1>5, <1>8, <1>9, <1>10

LEMMA QueueInvTakeDelayed ==
  ASSUME TypeOK, QueueInv, wpc = "next", ~thread_should_quit_,
         NEW k \in DOMAIN delayed_queue_, TakeDelayed(k)
  PROVE  QueueInv'
<1> USE DEF QueueInv
<1> DEFINE t == delayed_queue_[k]
<1>1. /\ TakeTask(t)
      /\ DOMAIN delayed_queue_' = DOMAIN delayed_queue_ \ {k}
      /\ \A l \in DOMAIN delayed_queue_' : delayed_queue_'[l] = delayed_queue_[l]
      /\ UNCHANGED <<pending_queue_, thread_posting_order_, now, tick_us, kind, notBefore>>
  BY DEF TakeDelayed, TakeTask
<1>2. t \in Tasks /\ fate[t] = "queued"
  BY DEF QueuedOnce, InDelayed, TypeOK
<1>3. /\ \A u \in Tasks : fate'[u] = IF u = t THEN "running" ELSE fate[u]
      /\ CallsHoldTasks' /\ WorkerRuns' /\ DeletionAgrees'
  BY <1>1, <1>2, TakenTask
<1>4. \A l \in DOMAIN delayed_queue_ : l # k => delayed_queue_[l] # t
  BY DEF QueuedOnce
<1>5. ~InPending(t)
  BY <1>2 DEF QueuedOnce, InDelayed
<1>6. QueuedOnce'
  <2>1. \A u \in Tasks : InDelayed(u)' <=> InDelayed(u) /\ u # t
    BY <1>1, <1>4 DEF InDelayed
  <2>2. \A u \in Tasks : InPending(u)' <=> InPending(u)
    BY <1>1 DEF InPending
  <2>3. \A l, m \in DOMAIN delayed_queue_' : delayed_queue_'[l] = delayed_queue_'[m] => l = m
    BY <1>1 DEF QueuedOnce
  <2> HIDE DEF t
  <2>4. \A u \in Tasks : fate'[u] = "queued" <=> InPending(u)' \/ InDelayed(u)'
    BY <1>3, <1>5, <2>1, <2>2 DEF QueuedOnce
  <2> QED
    BY <1>1, <2>1, <2>2, <2>3, <2>4 DEF QueuedOnce
<1>7. OrdersDiffer'
  BY <1>1 DEF OrdersDiffer
<1>8. KindsAgree'
  BY <1>1 DEF KindsAgree
<1> QED
  BY <1>3, <1>6, <1>7, <1>8

LEMMA QueueInvFinishTask ==
  ASSUME TypeOK, QueueInv, FinishTask
  PROVE  QueueInv'
<1> USE DEF QueueInv
<1>1. /\ wpc = "run" /\ run_task \in Tasks /\ wpc' = "tick" /\ ppc[Worker] = "idle"
      /\ UNCHANGED <<pending_queue_, delayed_queue_, thread_posting_order_, thread_should_quit_,
                     now, tick_us, ppc, call, dpc, kind, notBefore>>
  BY DEF FinishTask, TypeOK, queueVars, posterVars
<1>2. /\ fate[run_task] = "running"
      /\ \A u \in Tasks : fate'[u] = IF u = run_task THEN "run" ELSE fate[u]
  BY <1>1 DEF FinishTask, TypeOK, WorkerRuns
<1>3. \A q \in Posters : ppc[q] = "push" => call[q].task \in Tasks /\ call[q].task # run_task
  BY <1>2 DEF TypeOK, Call, CallsHoldTasks
<1>4. QueuedOnce'
  BY <1>1, <1>2 DEF QueuedOnce, InPending, InDelayed
<1>5. CallsHoldTasks'
  <2>1. \A q \in Posters : ppc'[q] = "push" =>
          /\ fate'[call'[q].task] = "calling"
          /\ kind'[call'[q].task] = IF call'[q].delayed THEN "delayed" ELSE "immediate"
          /\ notBefore'[call'[q].task] = call'[q].next_fire_at_us
    BY <1>1, <1>2, <1>3 DEF CallsHoldTasks
  <2>2. \A u \in Tasks : fate'[u] = "calling" =>
          \E q \in Posters : ppc'[q] = "push" /\ call'[q].task = u
    BY <1>1, <1>2 DEF CallsHoldTasks
  <2> QED
    BY <1>1, <2>1, <2>2 DEF CallsHoldTasks
<1>6. OrdersDiffer' /\ KindsAgree'
  BY <1>1 DEF OrdersDiffer, KindsAgree
<1>7. WorkerRuns' /\ DeletionAgrees'
  BY <1>1, <1>2 DEF WorkerRuns, DeletionAgrees
<1> QED
  BY <1>4, <1>5, <1>6, <1>7

(* Delete returns: whatever was queued is destroyed.                       *)
LEMMA QueueInvDeleteJoin ==
  ASSUME TypeOK, QueueInv, DeleteJoin
  PROVE  QueueInv'
<1> USE DEF QueueInv
<1>1. /\ dpc = "join" /\ wpc = "final" /\ dpc' = "deleted"
      /\ DOMAIN pending_queue_' = {} /\ DOMAIN delayed_queue_' = {}
      /\ UNCHANGED <<thread_posting_order_, thread_should_quit_, now, wpc, tick_us, run_task,
                     ppc, call, kind, notBefore>>
  BY DEF DeleteJoin, EmptyMap, workerVars, posterVars
<1>2. \A t \in Tasks : fate'[t] = IF fate[t] = "queued" THEN "destroyed" ELSE fate[t]
  BY DEF DeleteJoin, QueuedOnce
<1>3. QueuedOnce'
  BY <1>1, <1>2 DEF QueuedOnce, InPending, InDelayed
<1>4. CallsHoldTasks'
  <2>1. \A q \in Posters : ppc'[q] = "push" => call[q].task \in Tasks
    BY <1>1 DEF TypeOK, Call
  <2>2. \A q \in Posters : ppc'[q] = "push" =>
          /\ fate'[call'[q].task] = "calling"
          /\ kind'[call'[q].task] = IF call'[q].delayed THEN "delayed" ELSE "immediate"
          /\ notBefore'[call'[q].task] = call'[q].next_fire_at_us
    BY <1>1, <1>2, <2>1 DEF CallsHoldTasks
  <2>3. \A u \in Tasks : fate'[u] = "calling" =>
          \E q \in Posters : ppc'[q] = "push" /\ call'[q].task = u
    BY <1>1, <1>2 DEF CallsHoldTasks
  <2> QED
    BY <1>1, <2>2, <2>3 DEF CallsHoldTasks
<1>5. OrdersDiffer' /\ KindsAgree'
  BY <1>1 DEF OrdersDiffer, KindsAgree
<1>6. WorkerRuns' /\ DeletionAgrees'
  BY <1>1, <1>2 DEF WorkerRuns, DeletionAgrees
<1> QED
  BY <1>3, <1>4, <1>5, <1>6

(* Every reachable state satisfies the invariant: no entry of the map      *)
(* overwrites another, nothing is forgotten, nothing is queued twice.      *)
THEOREM QueuesAgree == Spec => []QueueInv
<1>1. TypeOK /\ QueueInv /\ [Next]_vars /\ TypeOK' => QueueInv'
  <2> SUFFICES ASSUME TypeOK, QueueInv, [Next]_vars, TypeOK' PROVE QueueInv'
    OBVIOUS
  <2> DEFINE Unmoved ==
        /\ UNCHANGED <<pending_queue_, delayed_queue_, thread_posting_order_, call,
                       historyVars, run_task>>
        /\ \A p \in Posters : ppc'[p] = "push" <=> ppc[p] = "push"
        /\ now' \in Nat /\ now <= now' /\ tick_us' <= now'
        /\ wpc' = "run" <=> wpc = "run"
        /\ thread_should_quit_' <=> dpc' # "live"
        /\ wpc' = "final" => thread_should_quit_'
        /\ dpc' = "deleted" => wpc' = "final"
        /\ dpc' # "live" => \A p \in Threads : ppc[p] # "push"
  <2>0. Unmoved => QueueInv'
    BY QueueInvRest
  <2>a. /\ now \in Nat /\ tick_us \in Nat /\ tick_us <= now
        /\ thread_should_quit_ <=> dpc # "live"
        /\ wpc = "final" => thread_should_quit_
        /\ dpc = "deleted" => wpc = "final"
        /\ dpc # "live" => \A p \in Threads : ppc[p] # "push"
    BY DEF TypeOK, QueueInv, KindsAgree, DeletionAgrees
  <2>1. ASSUME NEW p \in Posters, NEW t \in Tasks, PostTask(p, t) PROVE QueueInv'
    BY <2>1, QueueInvBeginCall DEF PostTask
  <2>2. ASSUME NEW p \in Posters, NEW t \in Tasks, NEW d \in Delays,
               PostDelayedTask(p, t, d)
        PROVE QueueInv'
    BY <2>2, QueueInvBeginCall, TasksAssumption DEF PostDelayedTask
  <2>3. ASSUME NEW p \in Posters, PushPending(p) PROVE QueueInv'
    BY <2>3, QueueInvPushPending
  <2>4. ASSUME NEW p \in Posters, PushDelayed(p) PROVE QueueInv'
    BY <2>4, QueueInvPushDelayed
  <2>5. ASSUME NEW p \in Posters, NotifyPosted(p) PROVE QueueInv'
    <3>1. \A q \in Posters : ppc'[q] = "push" <=> ppc[q] = "push"
      BY <2>5 DEF NotifyPosted, TypeOK
    <3> QED
      BY <2>5, <2>0, <2>a, <3>1 DEF NotifyPosted, queueVars, workerVars
  <2>6. CASE ReadTick
    BY <2>6, <2>0, <2>a DEF ReadTick, queueVars, posterVars
  <2>7. CASE NextIsFinal
    BY <2>7, <2>0, <2>a DEF NextIsFinal, queueVars, posterVars
  <2>8. CASE NextIsDue
    BY <2>8, QueueInvTakePending, QueueInvTakeDelayed DEF NextIsDue
  <2>9. CASE NextIsPending
    BY <2>9, QueueInvTakePending DEF NextIsPending
  <2>10. CASE NextIsSleep
    BY <2>10, <2>0, <2>a DEF NextIsSleep, queueVars, posterVars
  <2>11. CASE FinishTask
    BY <2>11, QueueInvFinishTask
  <2>12. CASE BeginWait
    BY <2>12, <2>0, <2>a DEF BeginWait, queueVars, posterVars
  <2>13. CASE EndWait
    BY <2>13, <2>0, <2>a DEF EndWait, queueVars, posterVars
  <2>14. CASE DeleteQuit
    BY <2>14, <2>0, <2>a DEF DeleteQuit, workerVars, posterVars
  <2>15. CASE DeleteNotify
    BY <2>15, <2>0, <2>a DEF DeleteNotify, queueVars, workerVars, posterVars
  <2>16. CASE DeleteJoin
    BY <2>16, QueueInvDeleteJoin
  <2>17. CASE Tick
    BY <2>17, <2>0, <2>a DEF Tick, queueVars, workerVars, posterVars
  <2>18. CASE UNCHANGED vars
    BY <2>18, <2>0, <2>a DEF vars, queueVars, workerVars, posterVars
  <2> QED
    BY <2>1, <2>2, <2>3, <2>4, <2>5, <2>6, <2>7, <2>8, <2>9, <2>10, <2>11,
       <2>12, <2>13, <2>14, <2>15, <2>16, <2>17, <2>18
    DEF Next, Post, Poster, WorkerStep
<1> QED
  BY <1>1, QueueInvInit, TypeCorrect, PTL DEF Spec

-----------------------------------------------------------------------------
(* Who may start: only a step of the worker that takes a task.             *)
LEMMA OnlyTheWorkerStarts ==
  ASSUME TypeOK, QueueInv, [Next]_vars, ~NextIsDue, ~NextIsPending, NEW t \in Tasks
  PROVE  ~Starts(t)
<1> USE DEF Starts, TypeOK
<1>1. ASSUME NEW p \in Posters, NEW u \in Tasks, NEW k, NEW d, BeginCall(p, u, k, d)
      PROVE  ~Starts(t)
  BY <1>1 DEF BeginCall
<1>2. ASSUME NEW p \in Posters, PushPending(p) \/ PushDelayed(p) PROVE ~Starts(t)
  BY <1>2 DEF PushPending, PushDelayed
<1>3. ASSUME NEW p \in Posters, NotifyPosted(p) PROVE ~Starts(t)
  BY <1>3 DEF NotifyPosted, historyVars
<1>4. CASE FinishTask
  BY <1>4 DEF FinishTask
<1>5. CASE DeleteJoin
  BY <1>5 DEF DeleteJoin
<1>6. CASE UNCHANGED fate
  BY <1>6
<1> QED
  BY <1>1, <1>2, <1>3, <1>4, <1>5, <1>6
  DEF Next, Post, Poster, WorkerStep, PostTask, PostDelayedTask, ReadTick, NextIsFinal,
      NextIsSleep, BeginWait, EndWait, DeleteQuit, DeleteNotify, Tick, vars, historyVars

LEMMA TakePendingOvertakesNone ==
  ASSUME TypeOK, QueueInv, TakePending
  PROVE  StartOvertakesNone
<1> DEFINE t == Head(pending_queue_).task
<1>1. pending_queue_ \in Seq(Entry) /\ pending_queue_ # << >>
      /\ \A u \in Tasks : Starts(u) => u = t
  BY DEF TakePending, TakeTask, TypeOK, Starts
<1>2. /\ 1 \in DOMAIN pending_queue_ /\ t = pending_queue_[1].task
      /\ \A i \in DOMAIN pending_queue_ : i = 1 \/ 1 < i
  BY <1>1
<1> HIDE DEF t
<1>3. ASSUME NEW j \in DOMAIN pending_queue_, Starts(pending_queue_[j].task) PROVE j = 1
  BY <1>1, <1>2, <1>3, EntriesTyped DEF QueueInv, QueuedOnce
<1>4. ASSUME NEW k \in DOMAIN delayed_queue_ PROVE ~Starts(delayed_queue_[k])
  <2>1. InPending(t) /\ InDelayed(delayed_queue_[k]) /\ delayed_queue_[k] \in Tasks
    BY <1>2 DEF InPending, InDelayed, TypeOK
  <2> QED
    BY <1>1, <2>1 DEF QueueInv, QueuedOnce
<1>5. \A i \in DOMAIN pending_queue_ : pending_queue_[1].order <= pending_queue_[i].order
  BY <1>2, EntriesTyped DEF QueueInv, OrdersDiffer
<1> QED
  BY <1>3, <1>4, <1>5 DEF StartOvertakesNone

(* No task overtakes an immediate one that was posted before it, whoever   *)
(* posts and whenever.                                                     *)
THEOREM NothingOvertakes == Spec => NoOvertaking
<1>1. TypeOK /\ QueueInv /\ [Next]_vars => [StartOvertakesNone]_vars
  <2> SUFFICES ASSUME TypeOK, QueueInv, [Next]_vars PROVE StartOvertakesNone
    OBVIOUS
  <2>1. CASE TakePending
    BY <2>1, TakePendingOvertakesNone
  <2>2. ASSUME NEW k \in DOMAIN delayed_queue_, TakeDelayed(k),
               ~(pending_queue_ # << >> /\ Head(pending_queue_).order < k.order)
        PROVE  StartOvertakesNone
    <3>1. \A u \in Tasks : Starts(u) => u = delayed_queue_[k]
      BY <2>2 DEF TakeDelayed, TakeTask, TypeOK, Starts
    <3>2. ASSUME NEW j \in DOMAIN pending_queue_ PROVE ~Starts(pending_queue_[j].task)
      <4>1. /\ InPending(pending_queue_[j].task) /\ pending_queue_[j].task \in Tasks
            /\ InDelayed(delayed_queue_[k])
        BY EntriesTyped DEF InPending, InDelayed
      <4> QED
        BY <3>1, <4>1 DEF QueueInv, QueuedOnce
    <3>3. ASSUME NEW i \in DOMAIN pending_queue_ PROVE k.order < pending_queue_[i].order
      <4>1. pending_queue_ \in Seq(Entry) /\ k.order \in Nat
        BY DEF TypeOK, Key
      <4>2. 1 \in DOMAIN pending_queue_ /\ Head(pending_queue_) = pending_queue_[1]
            /\ pending_queue_ # << >> /\ (i = 1 \/ 1 < i)
        BY <4>1
      <4>3. pending_queue_[1].order \in Nat /\ pending_queue_[i].order \in Nat
        BY <4>2, EntriesTyped
      <4>4. k.order < pending_queue_[1].order
        BY <2>2, <4>1, <4>2, <4>3 DEF QueueInv, OrdersDiffer
      <4> QED
        BY <4>1, <4>2, <4>3, <4>4 DEF QueueInv, OrdersDiffer
    <3>4. ASSUME NEW l \in DOMAIN delayed_queue_, Starts(delayed_queue_[l]) PROVE l = k
      BY <3>1, <3>4 DEF QueueInv, QueuedOnce, TypeOK
    <3> QED
      BY <3>2, <3>3, <3>4 DEF StartOvertakesNone
  <2>3. CASE NextIsDue
    BY <2>1, <2>2, <2>3 DEF NextIsDue
  <2>4. CASE NextIsPending
    BY <2>1, <2>4 DEF NextIsPending
  <2>5. CASE ~NextIsDue /\ ~NextIsPending
    <3>1. \A t \in Tasks : ~Starts(t)
      BY <2>5, OnlyTheWorkerStarts
    <3>2. \A k \in DOMAIN delayed_queue_ : delayed_queue_[k] \in Tasks
      BY DEF TypeOK
    <3> QED
      BY <3>1, <3>2, EntriesTyped DEF StartOvertakesNone
  <2> QED
    BY <2>3, <2>4, <2>5
<1> QED
  BY <1>1, TypeCorrect, QueuesAgree, PTL DEF Spec, NoOvertaking

-----------------------------------------------------------------------------
(* The queue implements TaskQueueBase, step by step *)

(* What the FIFO of the contract makes of the queue's entries.             *)
LEMMA FifoOfEntries ==
  ASSUME TypeOK
  PROVE  /\ Fifo \in Seq(Tasks) /\ DOMAIN Fifo = DOMAIN pending_queue_
         /\ \A i \in DOMAIN pending_queue_ : Fifo[i] = pending_queue_[i].task
<1>1. pending_queue_ \in Seq(Entry)
  BY DEF TypeOK
<1>2. \A i \in 1 .. Len(pending_queue_) : pending_queue_[i].task \in Tasks
  BY <1>1, EntriesTyped
<1>3. DOMAIN pending_queue_ = 1 .. Len(pending_queue_) /\ Len(pending_queue_) \in Nat
  BY <1>1
<1>4. Fifo = [i \in 1 .. Len(pending_queue_) |-> pending_queue_[i].task]
  BY <1>3 DEF Fifo
<1>5. Fifo \in [1 .. Len(pending_queue_) -> Tasks]
  BY <1>2, <1>4
<1> QED
  BY <1>3, <1>4, <1>5

LEMMA FifoGrows ==
  ASSUME TypeOK, TypeOK', NEW n, NEW t \in Tasks,
         pending_queue_' = Append(pending_queue_, [order |-> n, task |-> t])
  PROVE  Fifo' = Append(Fifo, t)
<1> DEFINE last == Len(pending_queue_) + 1
<1>1. pending_queue_ \in Seq(Entry)
  BY DEF TypeOK
<1>2. /\ last \in Nat \ {0} /\ DOMAIN pending_queue_ = 1 .. last - 1
      /\ DOMAIN pending_queue_' = 1 .. last
      /\ pending_queue_'[last].task = t
      /\ \A i \in 1 .. last - 1 : pending_queue_'[i] = pending_queue_[i]
  BY <1>1
<1> HIDE DEF last
<1>3. /\ Fifo \in Seq(Tasks) /\ DOMAIN Fifo = 1 .. last - 1
      /\ \A i \in 1 .. last - 1 : Fifo[i] = pending_queue_[i].task
  BY <1>2, FifoOfEntries
<1>4. Fifo' \in Seq(Tasks) /\ Len(Fifo') = last
      /\ \A i \in 1 .. last : Fifo'[i] = pending_queue_'[i].task
  <2>1. Fifo' = [i \in 1 .. last |-> pending_queue_'[i].task]
    BY <1>2 DEF Fifo
  <2>2. \A i \in 1 .. last : pending_queue_'[i].task \in Tasks
    BY <1>2, EntriesTyped
  <2>3. Fifo' \in [1 .. last -> Tasks]
    BY <2>1, <2>2
  <2> QED
    BY <2>1, <2>3, <1>2
<1>5. Len(Fifo) = last - 1
  BY <1>2, <1>3
<1>6. Append(Fifo, t) \in Seq(Tasks) /\ Len(Append(Fifo, t)) = last
      /\ \A i \in 1 .. last : Append(Fifo, t)[i] = IF i = last THEN t ELSE Fifo[i]
  BY <1>2, <1>3, <1>5
<1>7. \A i \in 1 .. last : pending_queue_'[i].task = IF i = last THEN t ELSE Fifo[i]
  BY <1>2, <1>3
<1> QED
  BY <1>4, <1>6, <1>7, SeqEqual

LEMMA FifoShrinks ==
  ASSUME TypeOK, pending_queue_ # << >>, pending_queue_' = Tail(pending_queue_)
  PROVE  Fifo # << >> /\ Head(Fifo) = Head(pending_queue_).task /\ Fifo' = Tail(Fifo)
<1> DEFINE last == Len(pending_queue_) - 1
<1>1. pending_queue_ \in Seq(Entry)
  BY DEF TypeOK
<1>2. /\ last \in Nat /\ DOMAIN pending_queue_ = 1 .. last + 1
      /\ DOMAIN pending_queue_' = 1 .. last
      /\ Head(pending_queue_) = pending_queue_[1]
      /\ \A i \in 1 .. last : i + 1 \in 1 .. last + 1 /\ pending_queue_'[i] = pending_queue_[i + 1]
  BY <1>1
<1> HIDE DEF last
<1>3. /\ Fifo \in Seq(Tasks) /\ DOMAIN Fifo = 1 .. last + 1
      /\ \A i \in 1 .. last + 1 : Fifo[i] = pending_queue_[i].task
  BY <1>2, FifoOfEntries
<1>4. Fifo' \in Seq(Tasks) /\ Len(Fifo') = last
      /\ \A i \in 1 .. last : Fifo'[i] = pending_queue_'[i].task
  <2>1. Fifo' = [i \in 1 .. last |-> pending_queue_'[i].task]
    BY <1>2 DEF Fifo
  <2>2. \A i \in 1 .. last : pending_queue_'[i].task \in Tasks
    BY <1>2, EntriesTyped
  <2>3. Fifo' \in [1 .. last -> Tasks]
    BY <2>1, <2>2
  <2> QED
    BY <2>1, <2>3, <1>2
<1>5. Len(Fifo) = last + 1
  BY <1>2, <1>3
<1>6. /\ Fifo # << >> /\ Head(Fifo) = Fifo[1]
      /\ Tail(Fifo) \in Seq(Tasks) /\ Len(Tail(Fifo)) = last
      /\ \A i \in 1 .. last : Tail(Fifo)[i] = Fifo[i + 1]
  BY <1>2, <1>3, <1>5
<1>7. \A i \in 1 .. last : pending_queue_'[i].task = Fifo[i + 1]
  BY <1>2, <1>3
<1>8. 1 \in 1 .. last + 1
  BY <1>2
<1>9. Fifo' = Tail(Fifo)
  BY <1>4, <1>6, <1>7, SeqEqual
<1> QED
  BY <1>2, <1>3, <1>6, <1>8, <1>9

LEMMA CallIsCall ==
  ASSUME TypeOK, QueueInv,
         NEW p \in Posters, NEW t \in Tasks, NEW k, NEW d, BeginCall(p, t, k, d)
  PROVE  Contract!Call(t, k, d)
<1>1. dpc = "live" \/ Contract!Busy
  BY DEF BeginCall, MayPost, Posters, QueueInv, WorkerRuns, DeletionAgrees, TypeOK,
         Contract!Busy
<1>2. Deletion = "live" \/ (Deletion = "deleting" /\ Contract!Busy)
  <2>1. wpc = "run" => dpc # "deleted"
    BY DEF QueueInv, DeletionAgrees
  <2>2. CASE p = Worker
    BY <2>1, <2>2, <1>1 DEF BeginCall, MayPost, Deletion
  <2>3. CASE p # Worker
    BY <2>3 DEF BeginCall, MayPost, Deletion
  <2> QED
    BY <2>2, <2>3
<1>3. Fifo' = Fifo /\ Deletion' = Deletion
  BY DEF BeginCall, queueVars, Fifo, Deletion
<1> QED
  BY <1>2, <1>3 DEF BeginCall, Contract!Call

LEMMA PushIsAccept ==
  ASSUME TypeOK, TypeOK', QueueInv, NEW p \in Posters, PushPending(p) \/ PushDelayed(p)
  PROVE  Contract!Accept(call[p].task)
<1> DEFINE t == call[p].task
<1>1. ppc[p] = "push" /\ t \in Tasks /\ fate[t] = "calling"
  BY DEF PushPending, PushDelayed, TypeOK, Call, QueueInv, CallsHoldTasks
<1>2. fate' = [fate EXCEPT ![t] = "queued"] /\ UNCHANGED <<now, kind, notBefore, dpc>>
  BY DEF PushPending, PushDelayed
<1>3. Fifo' = IF kind[t] = "immediate" THEN Append(Fifo, t) ELSE Fifo
  <2>1. kind[t] = IF call[p].delayed THEN "delayed" ELSE "immediate"
    BY <1>1 DEF QueueInv, CallsHoldTasks
  <2>2. CASE PushPending(p)
    <3>1. Fifo' = Append(Fifo, t)
      BY <2>2, <1>1, FifoGrows DEF PushPending
    <3> QED
      BY <2>1, <2>2, <3>1 DEF PushPending
  <2>3. CASE PushDelayed(p)
    BY <2>1, <2>3 DEF PushDelayed, Fifo
  <2> QED
    BY <2>2, <2>3
<1> QED
  BY <1>1, <1>2, <1>3 DEF Contract!Accept, Deletion

(* What holds when the worker may take a task.                             *)
LEMMA ReadyToStart ==
  ASSUME TypeOK, QueueInv, wpc = "next", ~thread_should_quit_
  PROVE  ~Contract!Busy /\ Deletion # "deleted"
BY DEF QueueInv, WorkerRuns, DeletionAgrees, Contract!Busy, Deletion

LEMMA TakePendingIsStart ==
  ASSUME TypeOK, QueueInv, wpc = "next", ~thread_should_quit_, TakePending
  PROVE  \E t \in Tasks : Contract!Start(t)
<1> DEFINE t == Head(pending_queue_).task
<1>1. /\ pending_queue_ # << >> /\ pending_queue_' = Tail(pending_queue_)
      /\ fate' = [fate EXCEPT ![t] = "running"]
      /\ UNCHANGED <<now, kind, notBefore, dpc>>
  BY DEF TakePending, TakeTask
<1>2. 1 \in DOMAIN pending_queue_ /\ t = pending_queue_[1].task
  BY <1>1 DEF TypeOK
<1>3. t \in Tasks /\ fate[t] = "queued" /\ kind[t] = "immediate" /\ notBefore[t] <= now
  BY <1>2, EntriesTyped DEF QueueInv, QueuedOnce, InPending, KindsAgree
<1>4. Fifo # << >> /\ t = Head(Fifo) /\ Fifo' = Tail(Fifo)
  BY <1>1, FifoShrinks
<1> HIDE DEF t
<1>5. now >= notBefore[t]
  BY <1>3 DEF TypeOK
<1>6. Contract!Start(t)
  BY <1>1, <1>3, <1>4, <1>5, ReadyToStart DEF Contract!Start, Deletion
<1> QED
  BY <1>3, <1>6

LEMMA TakeDelayedIsStart ==
  ASSUME TypeOK, QueueInv, wpc = "next", ~thread_should_quit_,
         NEW k \in DOMAIN delayed_queue_, Due(k), TakeDelayed(k)
  PROVE  \E t \in Tasks : Contract!Start(t)
<1> DEFINE t == delayed_queue_[k]
<1>1. /\ fate' = [fate EXCEPT ![t] = "running"]
      /\ UNCHANGED <<pending_queue_, now, kind, notBefore, dpc>>
  BY DEF TakeDelayed, TakeTask
<1>2. /\ t \in Tasks /\ fate[t] = "queued" /\ kind[t] = "delayed"
      /\ notBefore[t] = k.next_fire_at_us
  BY DEF QueueInv, QueuedOnce, InDelayed, KindsAgree, TypeOK
<1>3. now >= notBefore[t]
  BY <1>2 DEF Due, TypeOK, Key, QueueInv, KindsAgree
<1>4. Contract!Start(t)
  BY <1>1, <1>2, <1>3, ReadyToStart DEF Contract!Start, Deletion, Fifo
<1> QED
  BY <1>2, <1>4

LEMMA FinishIsFinish ==
  ASSUME TypeOK, QueueInv, FinishTask
  PROVE  \E t \in Tasks : Contract!Finish(t)
<1>1. run_task \in Tasks /\ fate[run_task] = "running"
  BY DEF FinishTask, TypeOK, QueueInv, WorkerRuns
<1>2. Contract!Finish(run_task)
  BY <1>1 DEF FinishTask, queueVars, Contract!Finish, Fifo, Deletion
<1> QED
  BY <1>1, <1>2

LEMMA JoinIsDeleteReturns ==
  ASSUME TypeOK, QueueInv, DeleteJoin
  PROVE  \E S \in SUBSET Tasks : Contract!DeleteReturns(S)
<1> DEFINE S == {t \in Tasks : fate[t] = "queued"}
<1>1. Deletion = "deleting" /\ Deletion' = "deleted"
  BY DEF DeleteJoin, Deletion
<1>2. \A t \in Tasks : fate[t] \notin {"running", "calling"}
  <2>1. wpc = "final" /\ dpc # "live"
    BY DEF DeleteJoin
  <2>2. \A p \in Posters : ppc[p] # "push"
    BY <2>1 DEF Posters, QueueInv, DeletionAgrees, WorkerRuns
  <2> QED
    BY <2>1, <2>2 DEF QueueInv, WorkerRuns, CallsHoldTasks
<1>3. fate' = [t \in Tasks |-> IF t \in S THEN "destroyed" ELSE fate[t]]
  BY DEF DeleteJoin, QueueInv, QueuedOnce
<1>4. Fifo' \in Seq(Tasks) /\ DOMAIN Fifo' = {}
  <2>1. Fifo' = [i \in {} |-> pending_queue_'[i].task]
    BY DEF DeleteJoin, Fifo
  <2>2. Fifo' = << >>
    BY <2>1
  <2> QED
    BY <2>2
<1>5. {Fifo[i] : i \in DOMAIN Fifo} \subseteq S
  BY FifoOfEntries, EntriesTyped DEF QueueInv, QueuedOnce, InPending
<1>6. Contract!IsRest(Fifo', Fifo, S)
  BY <1>4, <1>5 DEF Contract!IsRest
<1> HIDE DEF S
<1>7. S \in SUBSET Tasks /\ S \subseteq {t \in Tasks : fate[t] = "queued"}
  BY DEF S
<1>8. Contract!DeleteReturns(S)
  BY <1>1, <1>2, <1>3, <1>4, <1>6, <1>7 DEF Contract!DeleteReturns, Contract!Destroyed, DeleteJoin
<1> QED
  BY <1>7, <1>8

(* Every step of the queue is a step of the contract, or changes nothing   *)
(* the contract speaks of.                                                 *)
LEMMA StepIsContractStep ==
  ASSUME TypeOK, TypeOK', QueueInv, [Next]_vars
  PROVE  [Contract!Next]_Contract!vars
<1> DEFINE Stutter == UNCHANGED Contract!vars
<1>0. UNCHANGED <<now, fate, kind, pending_queue_, notBefore>> /\ Deletion' = Deletion => Stutter
  BY DEF Contract!vars, Fifo
<1>1. ASSUME NEW p \in Posters, NEW t \in Tasks, PostTask(p, t) PROVE Contract!Next
  BY <1>1, CallIsCall DEF PostTask, Contract!Next
<1>2. ASSUME NEW p \in Posters, NEW t \in Tasks, NEW d \in Delays, PostDelayedTask(p, t, d)
      PROVE  Contract!Next
  BY <1>2, CallIsCall DEF PostDelayedTask, Contract!Next
<1>3. ASSUME NEW p \in Posters, PushPending(p) \/ PushDelayed(p) PROVE Contract!Next
  <2>1. call[p].task \in Tasks
    BY <1>3 DEF PushPending, PushDelayed, TypeOK, Call
  <2> QED
    BY <1>3, <2>1, PushIsAccept DEF Contract!Next
<1>4. ASSUME NEW p \in Posters, NotifyPosted(p) PROVE Stutter
  BY <1>4, <1>0 DEF NotifyPosted, queueVars, historyVars, Deletion
<1>5. CASE ReadTick
  BY <1>5, <1>0 DEF ReadTick, queueVars, historyVars, Deletion
<1>6. CASE NextIsFinal
  BY <1>6, <1>0 DEF NextIsFinal, queueVars, historyVars, Deletion
<1>7. CASE NextIsDue
  BY <1>7, TakePendingIsStart, TakeDelayedIsStart DEF NextIsDue, Contract!Next
<1>8. CASE NextIsPending
  BY <1>8, TakePendingIsStart DEF NextIsPending, Contract!Next
<1>9. CASE NextIsSleep
  BY <1>9, <1>0 DEF NextIsSleep, queueVars, historyVars, Deletion
<1>10. CASE FinishTask
  BY <1>10, FinishIsFinish DEF Contract!Next
<1>11. CASE BeginWait
  BY <1>11, <1>0 DEF BeginWait, queueVars, historyVars, Deletion
<1>12. CASE EndWait
  BY <1>12, <1>0 DEF EndWait, queueVars, historyVars, Deletion
<1>13. CASE DeleteQuit
  BY <1>13 DEF DeleteQuit, historyVars, Fifo, Deletion, Contract!Next, Contract!DeleteCalled
<1>14. CASE DeleteNotify
  BY <1>14, <1>0 DEF DeleteNotify, queueVars, historyVars, Deletion
<1>15. CASE DeleteJoin
  BY <1>15, JoinIsDeleteReturns DEF Contract!Next
<1>16. CASE Tick
  BY <1>16 DEF Tick, queueVars, historyVars, Fifo, Deletion, Contract!Next, Contract!Tick
<1>17. CASE UNCHANGED vars
  BY <1>17, <1>0 DEF vars, queueVars, historyVars, Deletion
<1> QED
  BY <1>1, <1>2, <1>3, <1>4, <1>5, <1>6, <1>7, <1>8, <1>9, <1>10, <1>11, <1>12, <1>13, <1>14,
     <1>15, <1>16, <1>17
  DEF Next, Post, Poster, WorkerStep

(* What TaskQueueBase promises to the code that posts to it holds of the   *)
(* standard-library queue.                                                 *)
THEOREM ContractIsKept == Spec => ImplementsTaskQueueBase
<1>1. Init => Contract!Init
  <2> SUFFICES ASSUME Init PROVE Contract!Init
    OBVIOUS
  <2>1. Fifo = << >>
    <3>1. Fifo = [i \in {} |-> pending_queue_[i].task]
      BY DEF Init, Fifo
    <3> QED
      BY <3>1
  <2> QED
    BY <2>1 DEF Init, Contract!Init, Deletion
<1>2. TypeOK /\ TypeOK' /\ QueueInv /\ [Next]_vars => [Contract!Next]_Contract!vars
  BY StepIsContractStep
<1> QED
  BY <1>1, <1>2, TypeCorrect, QueuesAgree, PTL DEF Spec, ImplementsTaskQueueBase, Contract!Spec

==============================================================================
