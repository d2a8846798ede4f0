----------------------- MODULE PlatformQueuesProofs -----------------------
(***************************************************************************)
(* Theorems about the queues built on what a platform offers: libevent's,  *)
(* for every set of tasks and threads, every set of delays and every pipe  *)
(* that holds two bytes, and those of Windows and of libdispatch, for      *)
(* every set of tasks and delays.  That each implements TaskQueueBase      *)
(* rests on lemmas about Only, which picks the immediate tasks out of what *)
(* waits.                                                                  *)
(***************************************************************************)
EXTENDS MCPlatformQueues, FiniteSetTheorems, WellFoundedInduction, TLAPS

-----------------------------------------------------------------------------
(* Every reachable state is well typed: a poster has the closure it is     *)
(* about to push, and the loop a task whenever it runs one.                *)
THEOREM TypeCorrect == Spec => []TypeOK
<1>1. Init => TypeOK
  <2> SUFFICES ASSUME Init PROVE TypeOK
    OBVIOUS
  <2>1. pending_ \in Seq(Closure) /\ pipe \in Seq({"kRunTasks", "kQuit"})
        /\ tasks \in Seq(Closure)
    BY DEF Init
  <2> QED
    BY <2>1 DEF Init, TypeOK
<1>2. TypeOK /\ [Next]_vars => TypeOK'
  <2> SUFFICES ASSUME TypeOK, [Next]_vars PROVE TypeOK'
    OBVIOUS
  <2> USE TasksAssumption DEF TypeOK
  <2>1. ASSUME NEW p \in Posters, NEW t \in Tasks, PostTask(p, t) PROVE TypeOK'
    BY <2>1 DEF PostTask, BeginCall, Closure, workerVars
  <2>2. ASSUME NEW p \in Posters, NEW t \in Tasks, NEW d \in Delays,
               PostDelayedTask(p, t, d)
        PROVE  TypeOK'
    BY <2>2 DEF PostDelayedTask, BeginCall, Closure, workerVars
  <2>3. ASSUME NEW p \in Posters, Push(p) PROVE TypeOK'
    <3>1. pending_' \in Seq(Closure)
      BY <2>3 DEF Push
    <3> QED
      BY <2>3, <3>1 DEF Push, workerVars
  <2>4. ASSUME NEW p \in Posters, Write(p) PROVE TypeOK'
    <3>1. pipe' \in Seq({"kRunTasks", "kQuit"})
      BY <2>4 DEF Write
    <3> QED
      BY <2>4, <3>1 DEF Write, workerVars, historyVars
  <2>5. ASSUME NEW p \in Posters, ArmTimer(p) PROVE TypeOK'
    BY <2>5 DEF ArmTimer, Closure, Timer, workerVars
  <2>6. CASE OnWakeup
    <3>1. pipe' \in Seq({"kRunTasks", "kQuit"})
      BY <2>6 DEF OnWakeup
    <3> QED
      BY <2>6, <3>1 DEF OnWakeup, posterVars, historyVars
  <2>7. CASE SwapPending
    BY <2>7 DEF SwapPending, posterVars, historyVars
  <2>8. CASE RunClosure
    <3> DEFINE c == Head(tasks)
    <3>1. c \in Closure /\ tasks' \in Seq(Closure)
      BY <2>8 DEF RunClosure
    <3>2. c.task \in Tasks /\ now + Remaining(c) \in Nat
      BY <3>1 DEF Closure, Remaining
    <3> HIDE DEF c
    <3>3. CASE kind[c.task] = "delayed"
      <4>1. pending_timers_' \subseteq Timer
        BY <2>8, <3>2, <3>3 DEF RunClosure, Timer, c
      <4> QED
        BY <2>8, <3>1, <3>3, <4>1 DEF RunClosure, posterVars, c
    <3>4. CASE kind[c.task] # "delayed"
      BY <2>8, <3>1, <3>2, <3>4 DEF RunClosure, posterVars, c
    <3> QED
      BY <3>3, <3>4
  <2>9. CASE EndBatch
    BY <2>9 DEF EndBatch, posterVars, historyVars
  <2>10. CASE FinishTask
    BY <2>10 DEF FinishTask, Finish, posterVars
  <2>11. CASE RunTimer
    BY <2>11 DEF RunTimer, Timer, posterVars
  <2>12. CASE FinishTimer
    BY <2>12 DEF FinishTimer, Finish, posterVars
  <2>13. CASE ExitLoop
    BY <2>13 DEF ExitLoop, posterVars
  <2>14. CASE DeleteQuit
    <3>1. pipe' \in Seq({"kRunTasks", "kQuit"})
      BY <2>14 DEF DeleteQuit
    <3> QED
      BY <2>14, <3>1 DEF DeleteQuit, workerVars, posterVars, historyVars
  <2>15. CASE DeleteJoin
    BY <2>15 DEF DeleteJoin, workerVars, posterVars
  <2>16. CASE Tick
    BY <2>16 DEF Tick, workerVars, posterVars, historyVars
  <2>17. CASE UNCHANGED vars
    BY <2>17 DEF vars, workerVars, posterVars, historyVars
  <2> QED
    BY <2>1, <2>2, <2>3, <2>4, <2>5, <2>6, <2>7, <2>8, <2>9, <2>10, <2>11,
       <2>12, <2>13, <2>14, <2>15, <2>16, <2>17
    DEF Next, Post, Poster, WorkerStep
<1> QED
  BY <1>1, <1>2, PTL DEF Spec

-----------------------------------------------------------------------------
(* Who is where once Delete was called: no thread outside is in a call,    *)
(* and the queue's own thread is in one only while it runs a task.         *)
QuietAfterDelete ==
  /\ dpc # "live" => \A p \in Threads : ppc[p] = "idle"
  /\ ppc[Worker] # "idle" => wpc \in {"run", "timer"}

LEMMA QuietInvariant == Spec => []QuietAfterDelete
<1>1. Init => QuietAfterDelete
  BY DEF Init, QuietAfterDelete, Posters
<1>2. TypeOK /\ QuietAfterDelete /\ [Next]_vars => QuietAfterDelete'
  <2> SUFFICES ASSUME TypeOK, QuietAfterDelete, [Next]_vars
               PROVE  QuietAfterDelete'
    OBVIOUS
  <2> USE TasksAssumption DEF TypeOK, QuietAfterDelete, Posters
  <2>1. ASSUME NEW p \in Posters, NEW t \in Tasks, NEW k, NEW d,
               NEW step \in {"push", "arm"}, BeginCall(p, t, k, d, step)
        PROVE  QuietAfterDelete'
    BY <2>1 DEF BeginCall, MayPost, workerVars
  <2>2. ASSUME NEW p \in Posters, Push(p) \/ Write(p) \/ ArmTimer(p)
        PROVE  QuietAfterDelete'
    BY <2>2 DEF Push, Write, ArmTimer, workerVars
  <2>3. CASE OnWakeup
    BY <2>3 DEF OnWakeup, posterVars
  <2>4. CASE SwapPending \/ RunClosure \/ EndBatch \/ RunTimer \/ ExitLoop
    BY <2>4 DEF SwapPending, RunClosure, EndBatch, RunTimer, ExitLoop, posterVars
  <2>5. CASE FinishTask \/ FinishTimer
    BY <2>5 DEF FinishTask, FinishTimer, Finish, posterVars
  <2>6. CASE DeleteQuit \/ DeleteJoin \/ Tick
    BY <2>6 DEF DeleteQuit, DeleteJoin, Tick, workerVars, posterVars
  <2>7. CASE UNCHANGED vars
    BY <2>7 DEF vars, workerVars, posterVars
  <2> QED
    BY <2>1, <2>2, <2>3, <2>4, <2>5, <2>6, <2>7
    DEF Next, Post, Poster, WorkerStep, PostTask, PostDelayedTask
<1> QED
  BY <1>1, <1>2, TypeCorrect, PTL DEF Spec

(* What reading a byte and writing one do to the wakeup bytes in the pipe. *)
LEMMA ReadByte ==
  ASSUME TypeOK, pipe # << >>, pipe' = Tail(pipe)
  PROVE  /\ \A i \in RunBytes' : i + 1 \in RunBytes
         /\ \A i \in RunBytes : i = 1 \/ i - 1 \in RunBytes'
         /\ 1 \in RunBytes <=> Head(pipe) = "kRunTasks"
  BY DEF TypeOK, RunBytes

LEMMA WriteByte ==
  ASSUME TypeOK, NEW b \in {"kRunTasks", "kQuit"}, pipe' = Append(pipe, b)
  PROVE  RunBytes' = RunBytes \cup {i \in {Len(pipe) + 1} : b = "kRunTasks"}
  BY DEF TypeOK, RunBytes

(* While tasks are pending exactly one byte, writer or reader stands for   *)
(* them, for any number of posting threads: the loop never misses a task,  *)
(* never takes an empty vector, and the pipe never holds two wakeups.      *)
THEOREM WakeByteExact == Spec => []OneWakeByte
<1>1. Init => OneWakeByte
  BY DEF Init, OneWakeByte, RunBytes, Writers
<1>2. TypeOK /\ QuietAfterDelete /\ OneWakeByte /\ [Next]_vars => OneWakeByte'
  <2> SUFFICES ASSUME TypeOK, QuietAfterDelete, OneWakeByte, [Next]_vars
               PROVE  OneWakeByte'
    OBVIOUS
  <2> DEFINE Kept == /\ UNCHANGED <<pending_, pipe>>
                     /\ Writers' = Writers
                     /\ wpc' = "swap" <=> wpc = "swap"
  <2>0. Kept => OneWakeByte'
    <3> SUFFICES ASSUME Kept PROVE OneWakeByte'
      OBVIOUS
    <3>1. RunBytes' = RunBytes
      BY DEF RunBytes
    <3> QED
      BY <3>1 DEF OneWakeByte
  <2>1. ASSUME NEW p \in Posters, NEW t \in Tasks, NEW k, NEW d,
               NEW step \in {"push", "arm"}, BeginCall(p, t, k, d, step)
        PROVE  OneWakeByte'
    <3>1. Writers' = Writers
      BY <2>1 DEF BeginCall, Writers, TypeOK
    <3> QED
      BY <2>0, <2>1, <3>1 DEF BeginCall, workerVars
  <2>2. ASSUME NEW p \in Posters, Push(p) PROVE OneWakeByte'
    <3>1. pending_' # << >> /\ wpc' = wpc /\ RunBytes' = RunBytes
      BY <2>2 DEF Push, TypeOK, workerVars, RunBytes
    <3>2. Writers' = IF pending_ = << >> THEN Writers \cup {p} ELSE Writers
      BY <2>2 DEF Push, TypeOK, Writers
    <3> QED
      BY <3>1, <3>2 DEF OneWakeByte
  <2>3. ASSUME NEW p \in Posters, Write(p) PROVE OneWakeByte'
    <3>1. /\ Writers' = Writers \ {p}
          /\ p \in Writers
          /\ pending_' = pending_
          /\ wpc' = wpc
      BY <2>3 DEF Write, TypeOK, Writers, workerVars
    <3>2. RunBytes' = RunBytes \cup {Len(pipe) + 1}
      BY <2>3, WriteByte DEF Write
    <3> QED
      BY <3>1, <3>2 DEF OneWakeByte
  <2>4. ASSUME NEW p \in Posters, ArmTimer(p) PROVE OneWakeByte'
    <3>1. Writers' = Writers
      BY <2>4 DEF ArmTimer, TypeOK, Writers
    <3> QED
      BY <2>0, <2>4, <3>1 DEF ArmTimer, workerVars
  <2>5. CASE OnWakeup
    <3>1. pending_' = pending_ /\ Writers' = Writers /\ wpc # "swap"
      BY <2>5 DEF OnWakeup, Writers, posterVars
    <3>2. /\ \A i \in RunBytes' : i + 1 \in RunBytes
          /\ \A i \in RunBytes : i = 1 \/ i - 1 \in RunBytes'
          /\ 1 \in RunBytes <=> Head(pipe) = "kRunTasks"
      BY <2>5, ReadByte DEF OnWakeup
    <3>3. /\ Head(pipe) \in {"kRunTasks", "kQuit"}
          /\ RunBytes \subseteq Nat \ {0} /\ RunBytes' \subseteq Nat \ {0}
      BY <2>5 DEF OnWakeup, TypeOK, RunBytes
    <3>4. CASE Head(pipe) = "kRunTasks"
      <4>1. RunBytes' = {}
        BY <3>2, <3>3, <3>4 DEF OneWakeByte
      <4>2. wpc' = "swap"
        BY <2>5, <3>4 DEF OnWakeup
      <4> QED
        BY <3>1, <3>2, <3>4, <4>1, <4>2 DEF OneWakeByte
    <3>5. CASE Head(pipe) = "kQuit"
      <4>1. wpc' # "swap"
        BY <2>5, <3>5 DEF OnWakeup
      <4>2. RunBytes' # {} <=> RunBytes # {}
        BY <3>2, <3>3, <3>5
      <4>3. \A i, j \in RunBytes' : i = j
        BY <3>2, <3>3 DEF OneWakeByte
      <4> QED
        BY <3>1, <4>1, <4>2, <4>3 DEF OneWakeByte
    <3> QED
      BY <3>3, <3>4, <3>5
  <2>6. CASE SwapPending
    <3>1. RunBytes' = RunBytes /\ Writers' = Writers
      BY <2>6 DEF SwapPending, RunBytes, Writers, posterVars
    <3> QED
      BY <2>6, <3>1 DEF SwapPending, OneWakeByte
  <2>7. CASE RunClosure \/ EndBatch \/ RunTimer \/ ExitLoop
    <3>1. Writers' = Writers
      BY <2>7 DEF RunClosure, EndBatch, RunTimer, ExitLoop, Writers, posterVars
    <3> QED
      BY <2>0, <2>7, <3>1 DEF RunClosure, EndBatch, RunTimer, ExitLoop
  <2>8. CASE FinishTask \/ FinishTimer
    <3>1. Writers' = Writers
      BY <2>8 DEF FinishTask, FinishTimer, Finish, Writers, posterVars
    <3> QED
      BY <2>0, <2>8, <3>1 DEF FinishTask, FinishTimer, Finish
  <2>9. CASE DeleteQuit
    <3>1. RunBytes' = RunBytes
      BY <2>9, WriteByte DEF DeleteQuit
    <3>2. Writers' = Writers /\ wpc' = wpc /\ pending_' = pending_
      BY <2>9 DEF DeleteQuit, Writers, posterVars, workerVars
    <3> QED
      BY <3>1, <3>2 DEF OneWakeByte
  <2>10. CASE DeleteJoin
    <3>1. Writers' = {} /\ Writers = {}
      BY <2>10 DEF DeleteJoin, QuietAfterDelete, Writers, Posters, posterVars
    <3>2. RunBytes' = {} /\ wpc' # "swap" /\ pending_' = << >>
      BY <2>10 DEF DeleteJoin, RunBytes, workerVars
    <3> QED
      BY <3>1, <3>2 DEF OneWakeByte
  <2>11. CASE Tick
    BY <2>0, <2>11 DEF Tick, Writers, workerVars, posterVars
  <2>12. CASE UNCHANGED vars
    BY <2>0, <2>12 DEF vars, Writers, workerVars, posterVars
  <2> QED
    BY <2>1, <2>2, <2>3, <2>4, <2>5, <2>6, <2>7, <2>8, <2>9, <2>10, <2>11, <2>12
    DEF Next, Post, Poster, WorkerStep, PostTask, PostDelayedTask
<1> QED
  BY <1>1, <1>2, TypeCorrect, QuietInvariant, PTL DEF Spec

-----------------------------------------------------------------------------
(* Where a task can be while it waits: among the closures of a sequence,   *)
(* each in one place.                                                      *)
In(queue, t) == \E i \in DOMAIN queue : queue[i].task = t
Once(queue) == \A i, j \in DOMAIN queue : queue[i].task = queue[j].task => i = j
Calling(p) == ppc[p] \in {"push", "arm"}

LEMMA PutLast ==
  ASSUME NEW queue \in Seq(Closure), NEW c \in Closure
  PROVE  /\ \A t : In(Append(queue, c), t) <=> In(queue, t) \/ t = c.task
         /\ Once(queue) /\ ~In(queue, c.task) => Once(Append(queue, c))
<1> DEFINE r == Append(queue, c)
<1>1. /\ DOMAIN r = DOMAIN queue \cup {Len(queue) + 1}
      /\ r[Len(queue) + 1] = c
      /\ \A i \in DOMAIN queue : r[i] = queue[i] /\ i # Len(queue) + 1
  OBVIOUS
<1> HIDE DEF r
<1>2. \A t : In(r, t) <=> In(queue, t) \/ t = c.task
  BY <1>1 DEF In
<1>3. Once(queue) /\ ~In(queue, c.task) => Once(r)
  BY <1>1 DEF In, Once
<1> QED
  BY <1>2, <1>3 DEF r

LEMMA TakeFirst ==
  ASSUME NEW queue \in Seq(Closure), queue # << >>
  PROVE  /\ Head(queue) \in Closure /\ In(queue, Head(queue).task)
         /\ \A t : In(Tail(queue), t) => In(queue, t)
         /\ Once(queue) => Once(Tail(queue)) /\ ~In(Tail(queue), Head(queue).task)
<1> DEFINE r == Tail(queue)
<1>1. /\ 1 \in DOMAIN queue /\ queue[1] = Head(queue) /\ Head(queue) \in Closure
      /\ \A i \in DOMAIN r : i + 1 \in DOMAIN queue /\ r[i] = queue[i + 1] /\ i + 1 # 1
      /\ \A i, j \in DOMAIN r : i + 1 = j + 1 => i = j
  OBVIOUS
<1> HIDE DEF r
<1>2. Once(queue) => Once(r)
  BY <1>1 DEF Once
<1>3. Once(queue) => ~In(r, Head(queue).task)
  BY <1>1 DEF Once, In
<1>4. \A t : In(r, t) => In(queue, t)
  BY <1>1 DEF In
<1>5. In(queue, Head(queue).task)
  BY <1>1 DEF In
<1> QED
  BY <1>1, <1>2, <1>3, <1>4, <1>5 DEF r

(* A task is in one place: in the call of one poster, once among the       *)
(* closures, in a timer or running.  While it is a closure or in a timer   *)
(* it is queued, but the timer whose task runs stays in the list.          *)
OnePlace ==
  /\ \A p \in Posters : Calling(p) => fate[call[p].task] = "calling"
  /\ \A p, q \in Posters :
       Calling(p) /\ Calling(q) /\ call[p].task = call[q].task => p = q
  /\ \A t \in Tasks :
       /\ In(pending_, t) => fate[t] = "queued" /\ ~In(tasks, t)
       /\ In(tasks, t) => fate[t] = "queued"
  /\ Once(pending_) /\ Once(tasks)
  /\ \A timer \in pending_timers_ : ~In(pending_, timer.task) /\ ~In(tasks, timer.task)
  /\ wpc \in {"run", "timer"} => fate[run_task] = "running"
  /\ TimersAlive

LEMMA OnePlaceInvariant == Spec => []OnePlace
<1>1. Init => OnePlace
  BY DEF Init, OnePlace, TimersAlive, Calling, In, Once
<1>2. TypeOK /\ OnePlace /\ [Next]_vars => OnePlace'
  <2> SUFFICES ASSUME TypeOK, OnePlace, [Next]_vars PROVE OnePlace'
    OBVIOUS
  <2>0. /\ \A timer \in pending_timers_ : timer.task \in Tasks
        /\ \A p \in Posters : Calling(p) => call[p] \in Closure /\ call[p].task \in Tasks
    BY DEF TypeOK, Calling, Closure, Timer
  <2>1. ASSUME NEW p \in Posters, NEW t \in Tasks, NEW k, NEW d,
               NEW step \in {"push", "arm"}, BeginCall(p, t, k, d, step)
        PROVE  OnePlace'
    <3>1. /\ fate' = [fate EXCEPT ![t] = "calling"] /\ fate[t] = "new"
          /\ UNCHANGED <<pending_, pending_timers_, tasks, run_task, wpc>>
      BY <2>1 DEF BeginCall, workerVars
    <3>2. /\ ~Calling(p) /\ Calling(p)' /\ call'[p].task = t
          /\ \A q \in Posters \ {p} : (Calling(q)' <=> Calling(q)) /\ call'[q] = call[q]
      BY <2>1 DEF BeginCall, Calling, TypeOK
    <3>3. \A u \in Tasks : fate[u] # "new" => fate'[u] = fate[u]
      BY <3>1 DEF TypeOK
    <3>4. fate'[t] = "calling"
      BY <3>1 DEF TypeOK
    <3>5. wpc \in {"run", "timer"} => run_task \in Tasks
      BY DEF TypeOK
    <3>6. \A q \in Posters : Calling(q)' => fate'[call'[q].task] = "calling"
      BY <2>0, <3>2, <3>3, <3>4 DEF OnePlace
    <3>7. \A q, r \in Posters :
            Calling(q)' /\ Calling(r)' /\ call'[q].task = call'[r].task => q = r
      BY <2>0, <3>1, <3>2 DEF OnePlace
    <3>8. TimersAlive'
      BY <2>0, <3>1, <3>3 DEF OnePlace, TimersAlive
    <3> QED
      BY <2>0, <3>1, <3>3, <3>5, <3>6, <3>7, <3>8 DEF OnePlace
  <2>2. ASSUME NEW p \in Posters, Push(p) PROVE OnePlace'
    <3> DEFINE t == call[p].task
    <3>1. /\ Calling(p) /\ call[p] \in Closure /\ t \in Tasks /\ fate[t] = "calling"
      BY <2>0, <2>2 DEF Push, Calling, OnePlace
    <3>2. /\ pending_' = Append(pending_, call[p])
          /\ fate' = [fate EXCEPT ![t] = "queued"]
          /\ UNCHANGED <<pending_timers_, tasks, run_task, wpc>>
      BY <2>2 DEF Push, workerVars
    <3>3. /\ ~Calling(p)'
          /\ \A q \in Posters \ {p} : (Calling(q)' <=> Calling(q)) /\ call'[q] = call[q]
      BY <2>2 DEF Push, Calling, TypeOK
    <3>4. /\ \A u : In(pending_', u) <=> In(pending_, u) \/ u = t
          /\ ~In(pending_, t) /\ ~In(tasks, t) /\ Once(pending_')
      BY <3>1, <3>2, PutLast DEF TypeOK, OnePlace
    <3> HIDE DEF t
    <3>5. fate'[t] = "queued" /\ \A u \in Tasks : u # t => fate'[u] = fate[u]
      BY <3>1, <3>2 DEF TypeOK
    <3>6. \A q \in Posters \ {p} : Calling(q) => call[q].task # t
      BY <3>1 DEF OnePlace, t
    <3>7. \A timer \in pending_timers_ : timer.task # t
      BY <3>1, <2>0 DEF OnePlace, TimersAlive
    <3>8. wpc \in {"run", "timer"} => run_task # t /\ run_task \in Tasks
      BY <3>1 DEF OnePlace, TypeOK
    <3>9. TimersAlive'
      BY <2>0, <3>2, <3>5, <3>7 DEF OnePlace, TimersAlive
    <3> QED
      BY <2>0, <3>2, <3>3, <3>4, <3>5, <3>6, <3>7, <3>8, <3>9 DEF OnePlace
  <2>3. ASSUME NEW p \in Posters, Write(p) PROVE OnePlace'
    <3>1. \A q \in Posters : Calling(q)' <=> Calling(q)
      BY <2>3 DEF Write, Calling, TypeOK
    <3> QED
      BY <2>3, <3>1 DEF Write, OnePlace, TimersAlive, workerVars, historyVars
  <2>4. ASSUME NEW p \in Posters, ArmTimer(p) PROVE OnePlace'
    <3> DEFINE t == call[p].task
    <3>1. /\ Calling(p) /\ t \in Tasks /\ fate[t] = "calling"
      BY <2>0, <2>4 DEF ArmTimer, Calling, OnePlace
    <3>2. /\ \A timer \in pending_timers_' : timer \in pending_timers_ \/ timer.task = t
          /\ fate' = [fate EXCEPT ![t] = "queued"]
          /\ UNCHANGED <<pending_, tasks, run_task, wpc>>
      BY <2>4 DEF ArmTimer, workerVars
    <3>3. /\ ~Calling(p)'
          /\ \A q \in Posters \ {p} : (Calling(q)' <=> Calling(q)) /\ call'[q] = call[q]
      BY <2>4 DEF ArmTimer, Calling, TypeOK
    <3>4. ~In(pending_, t) /\ ~In(tasks, t)
      BY <3>1 DEF OnePlace
    <3> HIDE DEF t
    <3>5. fate'[t] = "queued" /\ \A u \in Tasks : u # t => fate'[u] = fate[u]
      BY <3>1, <3>2 DEF TypeOK
    <3>6. \A q \in Posters \ {p} : Calling(q) => call[q].task # t
      BY <3>1 DEF OnePlace, t
    <3>8. wpc \in {"run", "timer"} => run_task # t /\ run_task \in Tasks
      BY <3>1 DEF OnePlace, TypeOK
    <3>9. TimersAlive'
      BY <2>0, <3>2, <3>5 DEF OnePlace, TimersAlive
    <3> QED
      BY <2>0, <3>2, <3>3, <3>4, <3>5, <3>6, <3>8, <3>9 DEF OnePlace
  <2>5. CASE OnWakeup
    BY <2>5 DEF OnWakeup, OnePlace, TimersAlive, Calling, posterVars, historyVars
  <2>6. CASE SwapPending
    <3>1. \A t : ~In(<< >>, t)
      BY DEF In
    <3>2. Once(<< >>)
      BY DEF Once
    <3>3. /\ tasks' = pending_ /\ pending_' = << >>
          /\ UNCHANGED <<pending_timers_, fate, run_task, ppc, call>> /\ wpc' = "batch"
          /\ wpc = "swap"
      BY <2>6 DEF SwapPending, posterVars, historyVars
    <3>4. TimersAlive'
      BY <3>3 DEF OnePlace, TimersAlive
    <3> QED
      BY <3>1, <3>2, <3>3, <3>4 DEF OnePlace, Calling
  <2>7. CASE RunClosure
    <3> DEFINE c == Head(tasks)
    <3>1. /\ c \in Closure /\ In(tasks, c.task) /\ tasks' = Tail(tasks)
          /\ \A t : In(tasks', t) => In(tasks, t)
          /\ Once(tasks') /\ ~In(tasks', c.task)
      BY <2>7, TakeFirst DEF RunClosure, TypeOK, OnePlace
    <3>2. /\ UNCHANGED <<pending_, ppc, call>> /\ wpc = "batch"
          /\ \A q \in Posters : Calling(q)' <=> Calling(q)
      BY <2>7 DEF RunClosure, posterVars, Calling
    <3>3. c.task \in Tasks /\ fate[c.task] = "queued" /\ ~In(pending_, c.task)
      BY <3>1 DEF OnePlace, Closure
    <3>4. CASE kind[c.task] = "delayed"
      <4>1. /\ \A timer \in pending_timers_' : timer \in pending_timers_ \/ timer.task = c.task
            /\ UNCHANGED <<wpc, run_task, fate>>
        BY <2>7, <3>4 DEF RunClosure
      <4> HIDE DEF c
      <4>2. TimersAlive'
        BY <3>3, <4>1 DEF OnePlace, TimersAlive
      <4> QED
        BY <3>1, <3>2, <3>3, <4>1, <4>2 DEF OnePlace
    <3>5. CASE kind[c.task] # "delayed"
      <4>1. /\ wpc' = "run" /\ run_task' = c.task
            /\ fate' = [fate EXCEPT ![c.task] = "running"]
            /\ UNCHANGED pending_timers_
        BY <2>7, <3>5 DEF RunClosure
      <4> HIDE DEF c
      <4>2. fate'[c.task] = "running" /\ \A u \in Tasks : u # c.task => fate'[u] = fate[u]
        BY <3>3, <4>1 DEF TypeOK
      <4>3. \A timer \in pending_timers_ : timer.task # c.task
        BY <3>1 DEF OnePlace
      <4>4. TimersAlive'
        BY <2>0, <3>2, <4>1, <4>2, <4>3 DEF OnePlace, TimersAlive
      <4>5. \A q \in Posters : Calling(q) => call[q].task # c.task
        BY <3>3 DEF OnePlace
      <4> QED
        BY <2>0, <3>1, <3>2, <3>3, <4>1, <4>2, <4>4, <4>5 DEF OnePlace
    <3> QED
      BY <3>4, <3>5
  <2>8. CASE EndBatch
    BY <2>8 DEF EndBatch, OnePlace, TimersAlive, Calling, posterVars, historyVars
  <2>9. CASE FinishTask \/ FinishTimer
    <3>1. /\ wpc \in {"run", "timer"} /\ run_task \in Tasks /\ fate[run_task] = "running"
          /\ fate' = [fate EXCEPT ![run_task] = "run"] /\ wpc' \notin {"run", "timer"}
          /\ UNCHANGED <<pending_, tasks, ppc, call>>
          /\ \A q \in Posters : Calling(q)' <=> Calling(q)
      BY <2>9 DEF FinishTask, FinishTimer, Finish, OnePlace, TypeOK, posterVars, Calling
    <3>2. /\ pending_timers_' \subseteq pending_timers_
          /\ \A timer \in pending_timers_' : wpc = "timer" => timer.task # run_task
      BY <2>9 DEF FinishTask, FinishTimer
    <3>3. \A u \in Tasks : u # run_task => fate'[u] = fate[u]
      BY <3>1 DEF TypeOK
    <3>4. \A timer \in pending_timers_' : fate[timer.task] = "queued"
      BY <3>1, <3>2 DEF OnePlace, TimersAlive
    <3>5. TimersAlive'
      BY <2>0, <3>1, <3>2, <3>3, <3>4 DEF TimersAlive
    <3> QED
      BY <2>0, <3>1, <3>2, <3>3, <3>5 DEF OnePlace
  <2>10. CASE RunTimer
    <3>1. PICK timer \in pending_timers_ :
            run_task' = timer.task /\ fate' = [fate EXCEPT ![timer.task] = "running"]
      BY <2>10 DEF RunTimer
    <3>2. /\ wpc = "loop" /\ wpc' = "timer"
          /\ UNCHANGED <<pending_, pending_timers_, tasks, ppc, call>>
          /\ \A q \in Posters : Calling(q)' <=> Calling(q)
      BY <2>10 DEF RunTimer, posterVars, Calling
    <3>3. fate[timer.task] = "queued" /\ timer.task \in Tasks
          /\ ~In(pending_, timer.task) /\ ~In(tasks, timer.task)
      BY <2>0, <3>2 DEF OnePlace, TimersAlive
    <3>4. fate'[timer.task] = "running" /\ \A u \in Tasks : u # timer.task => fate'[u] = fate[u]
      BY <3>1, <3>3 DEF TypeOK
    <3>5. TimersAlive'
      BY <2>0, <3>1, <3>2, <3>4 DEF OnePlace, TimersAlive
    <3>6. \A q \in Posters : Calling(q) => call[q].task # timer.task
      BY <3>3 DEF OnePlace
    <3> QED
      BY <2>0, <3>1, <3>2, <3>3, <3>4, <3>5, <3>6 DEF OnePlace
  <2>11. CASE ExitLoop
    <3>1. /\ wpc = "exit" /\ wpc' = "exited" /\ pending_timers_' = {}
          /\ UNCHANGED <<pending_, tasks, ppc, call>>
          /\ \A q \in Posters : Calling(q)' <=> Calling(q)
      BY <2>11 DEF ExitLoop, posterVars, Calling
    <3>2. \A t \in Tasks : (\A timer \in pending_timers_ : timer.task # t) => fate'[t] = fate[t]
      BY <2>11 DEF ExitLoop
    <3>3. \A timer \in pending_timers_ : fate[timer.task] = "queued"
      BY <3>1 DEF OnePlace, TimersAlive
    <3>4. TimersAlive'
      BY <3>1 DEF TimersAlive
    <3>5. \A t \in Tasks : In(pending_, t) \/ In(tasks, t) => fate'[t] = fate[t]
      BY <3>2 DEF OnePlace
    <3>6. \A q \in Posters : Calling(q) => fate'[call[q].task] = "calling"
      BY <2>0, <3>2, <3>3 DEF OnePlace
    <3> QED
      BY <2>0, <3>1, <3>4, <3>5, <3>6 DEF OnePlace
  <2>12. CASE DeleteQuit
    BY <2>12 DEF DeleteQuit, OnePlace, TimersAlive, Calling, workerVars, posterVars, historyVars
  <2>13. CASE DeleteJoin
    <3>1. /\ wpc = "exited" /\ wpc' = wpc /\ pending_' = << >>
          /\ UNCHANGED <<pending_timers_, tasks, run_task, ppc, call>>
          /\ \A q \in Posters : Calling(q)' <=> Calling(q)
      BY <2>13 DEF DeleteJoin, posterVars, workerVars, Calling
    <3>2. \A t \in Tasks : ~In(pending_, t) => fate'[t] = fate[t]
      BY <2>13 DEF DeleteJoin, In
    <3>3. (\A t : ~In(<< >>, t)) /\ Once(<< >>)
      BY DEF In, Once
    <3>4. TimersAlive'
      BY <2>0, <3>1, <3>2 DEF OnePlace, TimersAlive
    <3>5. \A t \in Tasks : In(tasks, t) => fate'[t] = fate[t]
      BY <3>2 DEF OnePlace
    <3>6. \A q \in Posters : Calling(q) => fate'[call[q].task] = "calling"
      BY <2>0, <3>2 DEF OnePlace
    <3> QED
      BY <2>0, <3>1, <3>3, <3>4, <3>5, <3>6 DEF OnePlace
  <2>14. CASE Tick
    BY <2>14 DEF Tick, OnePlace, TimersAlive, Calling, workerVars, posterVars, historyVars
  <2>15. CASE UNCHANGED vars
    BY <2>15 DEF vars, OnePlace, TimersAlive, Calling, workerVars, posterVars, historyVars
  <2> QED
    BY <2>1, <2>2, <2>3, <2>4, <2>5, <2>6, <2>7, <2>8, <2>9, <2>10, <2>11, <2>12, <2>13,
       <2>14, <2>15
    DEF Next, Post, Poster, WorkerStep, PostTask, PostDelayedTask
<1> QED
  BY <1>1, <1>2, TypeCorrect, PTL DEF Spec

(* Delete writes one byte, and nothing else is in the pipe but the wakeup. *)
QuitBytes == {i \in DOMAIN pipe : pipe[i] = "kQuit"}
OneQuitByte ==
  /\ \A i, j \in QuitBytes : i = j
  /\ dpc = "live" => QuitBytes = {}

LEMMA OneQuitByteInvariant == Spec => []OneQuitByte
<1>1. Init => OneQuitByte
  BY DEF Init, OneQuitByte, QuitBytes
<1>2. TypeOK /\ OneQuitByte /\ [Next]_vars => OneQuitByte'
  <2> SUFFICES ASSUME TypeOK, OneQuitByte, [Next]_vars PROVE OneQuitByte'
    OBVIOUS
  <2>0. pipe' = pipe /\ dpc' = dpc => OneQuitByte'
    BY DEF OneQuitByte, QuitBytes
  <2>1. ASSUME NEW p \in Posters, NEW t \in Tasks, NEW k, NEW d, NEW step,
               BeginCall(p, t, k, d, step)
        PROVE  OneQuitByte'
    BY <2>0, <2>1 DEF BeginCall
  <2>2. ASSUME NEW p \in Posters, Push(p) \/ ArmTimer(p) PROVE OneQuitByte'
    BY <2>0, <2>2 DEF Push, ArmTimer
  <2>3. ASSUME NEW p \in Posters, Write(p) PROVE OneQuitByte'
    <3>1. QuitBytes' = QuitBytes
      BY <2>3 DEF Write, TypeOK, QuitBytes
    <3> QED
      BY <2>3, <3>1 DEF Write, OneQuitByte
  <2>4. CASE OnWakeup
    <3>1. \A i \in QuitBytes' : i \in Nat /\ i + 1 \in QuitBytes
      BY <2>4 DEF OnWakeup, TypeOK, QuitBytes
    <3>2. dpc' = dpc
      BY <2>4 DEF OnWakeup
    <3> QED
      BY <3>1, <3>2 DEF OneQuitByte
  <2>5. CASE SwapPending \/ RunClosure \/ EndBatch \/ RunTimer \/ ExitLoop
    BY <2>0, <2>5 DEF SwapPending, RunClosure, EndBatch, RunTimer, ExitLoop
  <2>6. CASE FinishTask \/ FinishTimer
    <3>1. pipe' = pipe /\ dpc' = dpc
      BY <2>6 DEF FinishTask, FinishTimer, Finish
    <3> QED
      BY <2>0, <3>1
  <2>7. CASE DeleteQuit
    <3>1. QuitBytes' = {Len(pipe) + 1} /\ dpc' # "live"
      BY <2>7 DEF DeleteQuit, TypeOK, OneQuitByte, QuitBytes
    <3> QED
      BY <3>1 DEF OneQuitByte
  <2>8. CASE DeleteJoin
    BY <2>8 DEF DeleteJoin, OneQuitByte, QuitBytes
  <2>9. CASE Tick \/ UNCHANGED vars
    BY <2>0, <2>9 DEF Tick, vars
  <2> QED
    BY <2>1, <2>2, <2>3, <2>4, <2>5, <2>6, <2>7, <2>8, <2>9
    DEF Next, Post, Poster, WorkerStep, PostTask, PostDelayedTask
<1> QED
  BY <1>1, <1>2, TypeCorrect, PTL DEF Spec

(* The wakeup byte fits: when it is written the pipe holds at most the     *)
(* byte of Delete.                                                         *)
LEMMA WakeupFits == Spec => []WriteSucceeds
<1>1. TypeOK /\ OneWakeByte /\ OneQuitByte => WriteSucceeds
  <2> SUFFICES ASSUME TypeOK, OneWakeByte, OneQuitByte, Writers # {}
               PROVE  Len(pipe) < PipeCapacity
    BY DEF WriteSucceeds
  <2>1. RunBytes = {}
    BY DEF OneWakeByte
  <2>2. \A i \in 1 .. Len(pipe) : i \in QuitBytes
    BY <2>1 DEF TypeOK, RunBytes, QuitBytes
  <2>3. Len(pipe) \in Nat /\ ~(Len(pipe) >= 2)
    <3>1. Len(pipe) \in Nat
      BY DEF TypeOK
    <3>2. CASE Len(pipe) >= 2
      <4>1. 1 \in QuitBytes /\ 2 \in QuitBytes
        BY <2>2, <3>1, <3>2
      <4> QED
        BY <4>1 DEF OneQuitByte
    <3> QED
      BY <3>1, <3>2
  <2> QED
    BY <2>3, BoundsAssumption
<1> QED
  BY <1>1, TypeCorrect, WakeByteExact, OneQuitByteInvariant, PTL

-----------------------------------------------------------------------------
(* The queue of Windows.  What its thread knows of the tasks it is handed: *)
(* the due times it compares are instants of its clock, and a task is sent *)
(* as a message only with such a due time.                                 *)
WinInfo == [task : OtherTasks \cup {W!NoTask, "WM_QUIT"}, due_time : Nat]
WinCall == [task : OtherTasks \cup {W!NoTask}, due_time : Int]

WinTypeOK ==
  /\ win_now \in Nat
  /\ win_timer_ \in Nat \cup {W!Never} /\ win_timer_id_ \in Nat \cup {W!Never}
  /\ win_timer_tasks_ \subseteq WinInfo
  /\ win_messages \in Seq(WinInfo)
  /\ win_ppc \in [W!Posters -> {"idle", "push", "send"}]
  /\ win_call \in [W!Posters -> WinCall]
  /\ \A p \in W!Posters : win_ppc[p] = "send" => win_call[p] \in WinInfo

LEMMA WindowsRuns == MCSpec => W!Spec
<1>1. winVars' = winVars => UNCHANGED W!vars
  BY DEF winVars, W!vars, W!pendingVars, W!timerVars, W!messageVars, W!threadVars,
         W!posterVars, W!historyVars
<1>2. [MCNext]_allVars => [W!Next]_W!vars
  BY <1>1 DEF MCNext, Libevent, allVars
<1>3. MCInit => W!Init
  BY DEF MCInit
<1>4. QED
  BY <1>2, <1>3, PTL DEF MCSpec, W!Spec

LEMMA MaxOfTwo ==
  ASSUME NEW a \in Int, NEW b \in Int
  PROVE  W!Max({a, b}) = IF a >= b THEN a ELSE b
<1> DEFINE m == IF a >= b THEN a ELSE b
<1>1. m \in {a, b} /\ \A y \in {a, b} : m >= y
  OBVIOUS
<1>2. \A x \in {a, b} : (\A y \in {a, b} : x >= y) => x = m
  OBVIOUS
<1> QED
  BY <1>1, <1>2 DEF W!Max

(* A set of instants that is not empty has an earliest one: the smallest   *)
(* of the finite sets of the instants up to each of them.                  *)
LEMMA MinOfInstants ==
  ASSUME NEW S, S \subseteq Nat, S # {}
  PROVE  W!Min(S) \in S /\ \A y \in S : W!Min(S) <= y
<1> DEFINE Upto == {0 .. n : n \in S}
<1>1. Upto \subseteq FiniteSubsetsOf(Nat) /\ Upto # {}
  <2>1. ASSUME NEW n \in S PROVE 0 .. n \in FiniteSubsetsOf(Nat)
    BY FS_Interval DEF FiniteSubsetsOf
  <2> QED
    BY <2>1
<1>2. PICK U \in Upto : \A V \in Upto : <<V, U>> \notin StrictSubsetOrdering(Nat)
  <2> HIDE DEF Upto
  <2> QED
    BY <1>1, FS_StrictSubsetOrderingWellFounded, WFMin
<1>3. PICK x \in S : U = 0 .. x
  OBVIOUS
<1>4. ASSUME NEW y \in S PROVE x <= y
  <2>1. ~ (0 .. y \subseteq 0 .. x /\ 0 .. y # 0 .. x)
    <3>1. <<0 .. y, 0 .. x>> \notin StrictSubsetOrdering(Nat)
      BY <1>2, <1>3
    <3>2. 0 .. y \in SUBSET Nat /\ 0 .. x \in SUBSET Nat
      OBVIOUS
    <3> QED
      BY <3>1, <3>2 DEF StrictSubsetOrdering
  <2>2. CASE y < x
    <3>1. 0 .. y \subseteq 0 .. x
      BY <2>2
    <3>2. x \in 0 .. x /\ x \notin 0 .. y
      BY <2>2
    <3> QED
      BY <2>1, <3>1, <3>2
  <2> QED
    BY <2>2
<1> QED
  BY <1>4 DEF W!Min

(* What ScheduleNextTimer leaves the timers at.                            *)
LEMMA RescheduleSets ==
  ASSUME win_now \in Nat, NEW S, S \subseteq WinInfo, W!Reschedule(S), S # {}
  PROVE  \E at \in Nat :
           /\ \/ win_timer_' = at /\ win_timer_id_' = W!Never
              \/ win_timer_' = W!Never /\ win_timer_id_' = at
           /\ \A d \in S : at <= W!Max({d.due_time, win_now})
<1> DEFINE dues == {d.due_time : d \in S}
           first == W!Min(dues)
           at == W!Max({win_now, first})
<1>1. dues \subseteq Nat /\ dues # {}
  BY DEF WinInfo
<1>2. \/ win_timer_' = at /\ win_timer_id_' = W!Never
      \/ win_timer_' = W!Never /\ win_timer_id_' = at
  BY DEF W!Reschedule
<1>3. \A d \in S : d.due_time \in dues
  OBVIOUS
<1> HIDE DEF dues
<1>4. first \in Nat /\ \A y \in dues : first <= y
  BY <1>1, MinOfInstants
<1> HIDE DEF first
<1>5. at = (IF win_now >= first THEN win_now ELSE first) /\ at \in Nat
  BY <1>4, MaxOfTwo
<1> HIDE DEF at
<1>6. ASSUME NEW d \in S PROVE at <= W!Max({d.due_time, win_now})
  <2>1. d.due_time \in Nat /\ first <= d.due_time
    BY <1>1, <1>3, <1>4
  <2>2. W!Max({d.due_time, win_now}) = IF d.due_time >= win_now THEN d.due_time ELSE win_now
    BY <2>1, MaxOfTwo
  <2> QED
    BY <1>4, <1>5, <2>1, <2>2
<1> QED
  BY <1>2, <1>5, <1>6

LEMMA WinTypeCorrect == W!Spec => []WinTypeOK
<1>1. W!Init => WinTypeOK
  <2> SUFFICES ASSUME W!Init PROVE WinTypeOK
    OBVIOUS
  <2>1. win_messages \in Seq(WinInfo)
    BY DEF W!Init
  <2> QED
    BY <2>1 DEF W!Init, WinTypeOK, WinCall
<1>2. WinTypeOK /\ [W!Next]_W!vars => WinTypeOK'
  <2> SUFFICES ASSUME WinTypeOK, [W!Next]_W!vars PROVE WinTypeOK'
    OBVIOUS
  <2> DEFINE TimersTyped == win_timer_' \in Nat \cup {W!Never}
                            /\ win_timer_id_' \in Nat \cup {W!Never}
  <2>0. /\ UNCHANGED <<win_timer_, win_timer_id_>> => TimersTyped
        /\ \A S \in SUBSET WinInfo : W!Reschedule(S) => TimersTyped
    <3>1. ASSUME NEW S \in SUBSET WinInfo, W!Reschedule(S) PROVE TimersTyped
      BY <3>1, RescheduleSets DEF W!Reschedule, WinTypeOK
    <3> QED
      BY <3>1 DEF WinTypeOK
  <2>1. ASSUME NEW p \in W!Posters, NEW t \in OtherTasks, NEW d \in WinDelays,
               W!BeginCall(p, t, d)
        PROVE  WinTypeOK'
    <3>1. d \in Int /\ win_now + d \in Int /\ (~(d <= 0) => win_now + d \in Nat)
      BY WinDelaysAssumption DEF WinTypeOK
    <3> QED
      BY <2>1, <3>1 DEF W!BeginCall, WinTypeOK, WinCall, WinInfo, W!pendingVars,
         W!messageVars, W!timerVars
  <2>2. ASSUME NEW p \in W!Posters, W!PostTask(p) PROVE WinTypeOK'
    BY <2>2 DEF W!PostTask, WinTypeOK, W!messageVars, W!timerVars
  <2>3. ASSUME NEW p \in W!Posters, W!PostDelayedTask(p) PROVE WinTypeOK'
    <3>1. win_call[p] \in WinInfo /\ win_messages \in Seq(WinInfo)
          /\ win_messages' \in {win_messages, Append(win_messages, win_call[p])}
      BY <2>3 DEF W!PostDelayedTask, W!PostThreadMessage, W!messageVars, WinTypeOK
    <3>2. win_messages' \in Seq(WinInfo)
      BY <3>1
    <3> QED
      BY <2>3, <3>2 DEF W!PostDelayedTask, WinTypeOK, W!timerVars
  <2>4. CASE W!DeleteQuit
    <3>1. W!Quit \in WinInfo
      BY DEF W!Quit, WinInfo
    <3>2. win_messages' \in Seq(WinInfo)
      BY <2>4, <3>1 DEF W!DeleteQuit, W!PostThreadMessage, WinTypeOK
    <3> QED
      BY <2>4, <3>2 DEF W!DeleteQuit, WinTypeOK, W!timerVars
  <2>5. CASE W!DeleteJoin
    BY <2>5 DEF W!DeleteJoin, WinTypeOK, W!messageVars, W!timerVars
  <2>6. CASE W!TimerFires \/ W!MsgWait \/ W!ProcessTimerMessage \/ W!NoMessage \/ W!CheckTimer
    BY <2>6 DEF W!TimerFires, W!MsgWait, W!ProcessTimerMessage, W!NoMessage, W!CheckTimer,
       WinTypeOK, W!messageVars, W!posterVars, W!timerVars
  <2>7. CASE W!ProcessMessage
    <3>1. win_messages' \in Seq(WinInfo) /\ Head(win_messages) \in WinInfo
      BY <2>7 DEF W!ProcessMessage, WinTypeOK
    <3>2. win_timer_tasks_' \subseteq WinInfo
      BY <2>7, <3>1 DEF W!ProcessMessage, W!QueueDelayed, WinTypeOK
    <3>3. TimersTyped
      BY <2>7, <2>0, <3>1, <3>2 DEF W!ProcessMessage, W!QueueDelayed, W!timerVars
    <3> QED
      BY <2>7, <3>1, <3>2, <3>3 DEF W!ProcessMessage, WinTypeOK, W!posterVars
  <2>8. CASE W!RunDueTask \/ W!FinishDueTask
    BY <2>8 DEF W!RunDueTask, W!FinishDueTask, WinTypeOK, W!messageVars, W!posterVars,
       W!timerVars
  <2>12. CASE W!NoneDue
    <3>1. TimersTyped
      BY <2>12, <2>0 DEF W!NoneDue, WinTypeOK
    <3> QED
      BY <2>12, <3>1 DEF W!NoneDue, WinTypeOK, W!messageVars, W!posterVars
  <2>9. CASE W!CheckQueue \/ W!RunPendingTask \/ W!FinishTask \/ W!NonePending
    BY <2>9 DEF W!CheckQueue, W!RunPendingTask, W!FinishTask, W!NonePending, WinTypeOK,
       W!messageVars, W!posterVars, W!timerVars
  <2>10. CASE W!Tick
    BY <2>10 DEF W!Tick, WinTypeOK, W!messageVars, W!posterVars, W!timerVars
  <2>11. CASE UNCHANGED W!vars
    BY <2>11 DEF W!vars, WinTypeOK, W!messageVars, W!posterVars, W!timerVars
  <2> QED
    BY <2>1, <2>2, <2>3, <2>4, <2>5, <2>6, <2>7, <2>8, <2>9, <2>10, <2>11, <2>12
    DEF W!Next
<1> QED
  BY <1>1, <1>2, PTL DEF W!Spec

(* The timer that is set for a task: it fires no later than the task is    *)
(* due or, for one that is late already, now.                              *)
Covers(at, d) == at # W!Never /\ at <= W!Max({d.due_time, win_now})

WinCovered ==
  \A d \in win_timer_tasks_ :
    win_timerEvent \/ Covers(win_timer_, d) \/ Covers(win_timer_id_, d)

(* The queue's promise where the thread waits, carried through its loop:   *)
(* immediate tasks have their event until the thread drains them, delayed  *)
(* ones a timer except while RunDueTasks is at work, which sets the next.  *)
WinWatched ==
  /\ win_pending_ # << >> => win_in_queue_ \/ win_wpc \in {"pending", "run"}
  /\ win_wpc \notin {"due", "runDue"} => WinCovered

(* ScheduleNextTimer watches every task it is given.                       *)
LEMMA RescheduleCovers ==
  ASSUME WinTypeOK, NEW S, S \subseteq WinInfo, W!Reschedule(S), win_timer_tasks_' = S,
         win_now' = win_now
  PROVE  WinCovered'
<1>1. CASE S = {}
  BY <1>1 DEF WinCovered
<1>2. CASE S # {}
  <2>1. PICK at \in Nat :
          /\ \/ win_timer_' = at /\ win_timer_id_' = W!Never
             \/ win_timer_' = W!Never /\ win_timer_id_' = at
          /\ \A d \in S : at <= W!Max({d.due_time, win_now})
    BY <1>2, RescheduleSets DEF WinTypeOK
  <2>2. at # W!Never
    BY DEF W!Never
  <2> QED
    BY <2>1, <2>2 DEF WinCovered, Covers
<1> QED
  BY <1>1, <1>2

(* Nothing the timers are set for, and no timer, changes: they still watch.*)
LEMMA CoveredStays ==
  ASSUME WinTypeOK, WinCovered, win_timer_tasks_' \subseteq win_timer_tasks_,
         UNCHANGED <<win_timer_, win_timerEvent, win_timer_id_>>,
         win_now' = win_now \/ win_now' = win_now + 1
  PROVE  WinCovered'
<1> SUFFICES ASSUME NEW d \in win_timer_tasks_', ~win_timerEvent
             PROVE  \/ win_timer_ # W!Never /\ win_timer_ <= W!Max({d.due_time, win_now'})
                    \/ win_timer_id_ # W!Never /\ win_timer_id_ <= W!Max({d.due_time, win_now'})
  BY DEF WinCovered, Covers
<1>1. d \in win_timer_tasks_ /\ d.due_time \in Nat /\ win_now \in Nat /\ win_now' \in Nat
      /\ win_now <= win_now'
  BY DEF WinTypeOK, WinInfo
<1>2. /\ W!Max({d.due_time, win_now})
           = IF d.due_time >= win_now THEN d.due_time ELSE win_now
      /\ W!Max({d.due_time, win_now'})
           = IF d.due_time >= win_now' THEN d.due_time ELSE win_now'
  BY <1>1, MaxOfTwo
<1>3. win_timer_ \in Nat \cup {W!Never} /\ win_timer_id_ \in Nat \cup {W!Never}
  BY DEF WinTypeOK
<1>4. Covers(win_timer_, d) \/ Covers(win_timer_id_, d)
  BY <1>1 DEF WinCovered
<1> QED
  BY <1>1, <1>2, <1>3, <1>4 DEF Covers, W!Never

(* A delayed task that reaches the thread is watched: by the timer that is *)
(* set anew when it is the earliest, else by that of an earlier one.       *)
LEMMA QueueDelayedCovers ==
  ASSUME WinTypeOK, WinCovered, NEW info \in WinInfo, W!QueueDelayed(info), win_now' = win_now
  PROVE  WinCovered'
<1>1. CASE \A d \in win_timer_tasks_ : d.due_time > info.due_time
  <2>1. W!Reschedule(win_timer_tasks_ \cup {info})
        /\ win_timer_tasks_' = win_timer_tasks_ \cup {info}
    BY <1>1 DEF W!QueueDelayed, W!Reschedule
  <2> QED
    BY <2>1, RescheduleCovers DEF WinTypeOK
<1>2. ASSUME NEW e \in win_timer_tasks_, ~(e.due_time > info.due_time)
      PROVE  WinCovered'
  <2>1. /\ UNCHANGED <<win_timer_, win_timerEvent, win_timer_id_>>
        /\ win_timer_tasks_' = win_timer_tasks_ \cup {info}
    BY <1>2 DEF W!QueueDelayed, W!timerVars
  <2>2. e.due_time \in Nat /\ info.due_time \in Nat /\ win_now \in Nat
    BY DEF WinTypeOK, WinInfo
  <2>3. win_timer_ \in Nat \cup {W!Never} /\ win_timer_id_ \in Nat \cup {W!Never}
    BY DEF WinTypeOK
  <2>4. W!Max({e.due_time, win_now}) <= W!Max({info.due_time, win_now})
        /\ W!Max({e.due_time, win_now}) \in Nat /\ W!Max({info.due_time, win_now}) \in Nat
    BY <1>2, <2>2, MaxOfTwo
  <2>5. win_timerEvent \/ Covers(win_timer_, info) \/ Covers(win_timer_id_, info)
    BY <2>3, <2>4 DEF WinCovered, Covers, W!Never
  <2> QED
    BY <2>1, <2>5 DEF WinCovered, Covers
<1> QED
  BY <1>1, <1>2

LEMMA WinWatchedInvariant == W!Spec => []WinWatched
<1>1. W!Init => WinWatched
  BY DEF W!Init, WinWatched, WinCovered
<1>2. WinTypeOK /\ WinWatched /\ [W!Next]_W!vars => WinWatched'
  <2> SUFFICES ASSUME WinTypeOK, WinWatched, [W!Next]_W!vars PROVE WinWatched'
    OBVIOUS
  <2> DEFINE Still == /\ win_timer_tasks_' \subseteq win_timer_tasks_
                      /\ UNCHANGED <<win_timer_, win_timerEvent, win_timer_id_>>
                      /\ win_now' = win_now \/ win_now' = win_now + 1
             Queued == win_pending_' # << >> =>
                         win_in_queue_' \/ win_wpc' \in {"pending", "run"}
  <2>0. /\ Still /\ WinCovered => WinCovered'
        /\ win_pending_ # << >> => win_in_queue_ \/ win_wpc \in {"pending", "run"}
        /\ win_wpc \notin {"due", "runDue"} => WinCovered
        /\ Queued /\ (win_wpc' \notin {"due", "runDue"} => WinCovered') => WinWatched'
    BY CoveredStays DEF WinWatched
  <2>1. ASSUME NEW p \in W!Posters, NEW t \in OtherTasks, NEW d \in WinDelays,
               W!BeginCall(p, t, d)
        PROVE  WinWatched'
    BY <2>1, <2>0 DEF W!BeginCall, W!pendingVars, W!timerVars, W!threadVars
  <2>2. ASSUME NEW p \in W!Posters, W!PostTask(p) PROVE WinWatched'
    BY <2>2, <2>0 DEF W!PostTask, W!timerVars, W!threadVars
  <2>3. ASSUME NEW p \in W!Posters, W!PostDelayedTask(p) PROVE WinWatched'
    BY <2>3, <2>0 DEF W!PostDelayedTask, W!pendingVars, W!timerVars, W!threadVars
  <2>4. CASE W!DeleteQuit
    BY <2>4, <2>0 DEF W!DeleteQuit, W!pendingVars, W!timerVars, W!threadVars
  <2>5. CASE W!DeleteJoin
    BY <2>5, <2>0 DEF W!DeleteJoin, W!timerVars, W!threadVars
  <2>6. CASE W!TimerFires
    <3>1. WinCovered'
      BY <2>6 DEF W!TimerFires, WinCovered
    <3> QED
      BY <2>6, <2>0, <3>1 DEF W!TimerFires, W!pendingVars, W!threadVars
  <2>7. CASE W!MsgWait
    <3>1. win_wpc = "wait" /\ win_wpc' \in {"messages", "timer"}
      BY <2>7 DEF W!MsgWait
    <3> QED
      BY <2>7, <2>0, <3>1 DEF W!MsgWait, W!pendingVars, W!timerVars
  <2>8. CASE W!ProcessMessage
    <3>1. Head(win_messages) \in WinInfo /\ win_wpc = "messages"
          /\ win_wpc' \in {"exited", "messages", "timer"}
      BY <2>8 DEF W!ProcessMessage, WinTypeOK
    <3>2. win_now' = win_now /\ UNCHANGED <<win_pending_, win_in_queue_>>
      BY <2>8 DEF W!ProcessMessage, W!pendingVars
    <3>3. CASE Head(win_messages) = W!Quit
      BY <2>8, <2>0, <3>1, <3>2, <3>3 DEF W!ProcessMessage, W!timerVars
    <3>4. CASE Head(win_messages) # W!Quit
      <4>1. W!QueueDelayed(Head(win_messages))
        BY <2>8, <3>4 DEF W!ProcessMessage
      <4>2. WinCovered'
        BY <2>0, <3>1, <3>2, <4>1, QueueDelayedCovers
      <4> QED
        BY <2>0, <3>1, <3>2, <4>2
    <3> QED
      BY <3>3, <3>4
  <2>9. CASE W!ProcessTimerMessage
    BY <2>9, <2>0 DEF W!ProcessTimerMessage, W!pendingVars
  <2>10. CASE W!NoMessage
    BY <2>10, <2>0 DEF W!NoMessage, W!pendingVars, W!timerVars
  <2>11. CASE W!CheckTimer
    <3>1. UNCHANGED <<win_pending_, win_in_queue_, win_timer_tasks_, win_timer_id_, win_now>>
          /\ win_wpc = "timer"
      BY <2>11 DEF W!CheckTimer, W!pendingVars
    <3>2. \/ win_wpc' = "due"
          \/ win_wpc' = "queue" /\ UNCHANGED <<win_timer_, win_timerEvent>>
      BY <2>11 DEF W!CheckTimer
    <3> QED
      BY <2>0, <3>1, <3>2
  <2>12. CASE W!RunDueTask \/ W!FinishDueTask
    BY <2>12, <2>0 DEF W!RunDueTask, W!FinishDueTask, W!pendingVars
  <2>13. CASE W!NoneDue
    <3>1. WinCovered'
      BY <2>13, RescheduleCovers DEF W!NoneDue, WinTypeOK
    <3> QED
      BY <2>13, <2>0, <3>1 DEF W!NoneDue, W!pendingVars
  <2>14. CASE W!CheckQueue
    <3>1. /\ win_pending_' = win_pending_ /\ win_wpc = "queue"
          /\ UNCHANGED <<win_timer_tasks_, win_timer_, win_timerEvent, win_timer_id_, win_now>>
      BY <2>14 DEF W!CheckQueue, W!timerVars
    <3>2. \/ win_wpc' = "pending"
          \/ win_wpc' = "wait" /\ UNCHANGED win_in_queue_
      BY <2>14 DEF W!CheckQueue
    <3> QED
      BY <2>0, <3>1, <3>2
  <2>15. CASE W!RunPendingTask \/ W!FinishTask \/ W!NonePending
    BY <2>15, <2>0 DEF W!RunPendingTask, W!FinishTask, W!NonePending, W!pendingVars, W!timerVars
  <2>16. CASE W!Tick
    BY <2>16, <2>0 DEF W!Tick, W!pendingVars, W!timerVars, W!threadVars
  <2>17. CASE UNCHANGED W!vars
    BY <2>17, <2>0 DEF W!vars, W!pendingVars, W!timerVars, W!threadVars
  <2> QED
    BY <2>1, <2>2, <2>3, <2>4, <2>5, <2>6, <2>7, <2>8, <2>9, <2>10, <2>11, <2>12, <2>13,
       <2>14, <2>15, <2>16, <2>17 DEF W!Next
<1> QED
  BY <1>1, <1>2, WinTypeCorrect, PTL DEF W!Spec

(* The thread of the Windows queue never sleeps past its work.             *)
LEMMA WindowsWatches == W!Spec => []W!NeverSleepsPastWork
<1>1. WinWatched => W!NeverSleepsPastWork
  BY DEF WinWatched, WinCovered, Covers, W!NeverSleepsPastWork
<1> QED
  BY <1>1, WinWatchedInvariant, PTL

-----------------------------------------------------------------------------
LEMMA LibeventRuns == MCSpec => Spec
<1>2. [MCNext]_allVars => [Next]_vars
  BY DEF MCNext, Libevent, allVars
<1>3. MCInit => Init
  BY DEF MCInit
<1>4. QED
  BY <1>2, <1>3, PTL DEF MCSpec, Spec

(* Each queue is told of its work, for every set of tasks, delays and      *)
(* posting threads: the thread of Windows waits with the event of its      *)
(* immediate tasks set and a timer no later than its delayed ones, the     *)
(* byte that wakes libevent's loop fits into the pipe, and a TimerEvent in *)
(* the list has not fired before.                                          *)
THEOREM WorkIsNoticed == MCSpec => []NeverSleepsPastWork
<1>1. OnePlace => TimersAlive
  BY DEF OnePlace
<1>2. W!NeverSleepsPastWork /\ WriteSucceeds /\ TimersAlive => NeverSleepsPastWork
  BY DEF NeverSleepsPastWork
<1> QED
  BY <1>1, <1>2, WindowsRuns, WindowsWatches, LibeventRuns, WakeupFits, OnePlaceInvariant, PTL

LEMMA LeastElement ==
  ASSUME NEW S, S \subseteq Nat, S # {}
  PROVE  \E x \in S : \A y \in S : ~(y < x)
<1>1. IsWellFoundedOn(OpToRel(<, Nat), Nat)
  BY NatLessThanWellFounded
<1>2. PICK x \in S : \A y \in S : <<y, x>> \notin OpToRel(<, Nat)
  BY <1>1, WFMin
<1>3. ASSUME NEW y \in S, y < x
      PROVE  FALSE
  <2>1. <<y, x>> \in OpToRel(<, Nat)
    BY <1>3 DEF OpToRel
  <2>2. QED
    BY <1>2, <2>1
<1>4. QED
  BY <1>2, <1>3

(* f lists the n members of K in increasing order.                         *)
Lists(f, n, K) ==
  /\ f \in [1 .. n -> K]
  /\ \A a, b \in 1 .. n : a < b => f[a] < f[b]
  /\ \A i \in K : \E a \in 1 .. n : f[a] = i

Rank(K, i) == Cardinality({j \in K : j <= i})

(* A finite set of naturals is listed by rank.                             *)
LEMMA RankLists ==
  ASSUME NEW m \in Nat, NEW K, K \subseteq 1 .. m
  PROVE  /\ Cardinality(K) \in Nat
         /\ Lists([k \in 1 .. Cardinality(K) |-> CHOOSE i \in K : Rank(K, i) = k],
                  Cardinality(K), K)
<1> DEFINE R(i) == Rank(K, i)
           n == Cardinality(K)
           f == [k \in 1 .. n |-> CHOOSE i \in K : R(i) = k]
<1>0. \A i \in K : i \in Nat /\ 1 <= i /\ i <= m
  OBVIOUS
<1>1. IsFiniteSet(K)
  <2>1. IsFiniteSet(1 .. m) /\ K \in SUBSET (1 .. m)
    BY FS_Interval
  <2> QED
    BY <2>1, FS_Subset
<1>2. n \in Nat
  BY <1>1, FS_CardinalityType
<1>3. ASSUME NEW i \in Nat PROVE R(i) \in Nat /\ IsFiniteSet({j \in K : j <= i})
  <2>1. {j \in K : j <= i} \in SUBSET K
    OBVIOUS
  <2> QED
    BY <1>1, <2>1, FS_Subset, FS_CardinalityType DEF Rank
<1>4. R(0) = 0 /\ R(m) = n
  <2>0. \A j \in K : ~(j <= 0) /\ j <= m
    BY <1>0
  <2>1. {j \in K : j <= 0} = {} /\ {j \in K : j <= m} = K
    BY ONLY <2>0
  <2> QED
    BY <2>1, FS_EmptySet DEF Rank
<1>5. ASSUME NEW i \in Nat
      PROVE  /\ i + 1 \in K => R(i + 1) = R(i) + 1
             /\ i + 1 \notin K => R(i + 1) = R(i)
  <2>0. \A j \in K : j <= i + 1 <=> (j <= i \/ j = i + 1)
    BY <1>0
  <2>1. {j \in K : j <= i + 1} = {j \in K : j <= i} \cup (K \cap {i + 1})
    BY ONLY <2>0
  <2>2. i + 1 \notin {j \in K : j <= i}
    OBVIOUS
  <2>3. CASE i + 1 \in K
    <3>1. {j \in K : j <= i + 1} = {j \in K : j <= i} \cup {i + 1}
      BY <2>1, <2>3
    <3> QED
      BY <3>1, <2>2, <2>3, <1>3, FS_AddElement DEF Rank
  <2>4. CASE i + 1 \notin K
    <3>1. {j \in K : j <= i + 1} = {j \in K : j <= i}
      BY <2>1, <2>4
    <3> QED
      BY <3>1, <2>4 DEF Rank
  <2> QED
    BY <2>3, <2>4
<1>6. ASSUME NEW i \in K, NEW j \in K, i < j PROVE R(i) < R(j)
  <2>0. \A l \in K : l <= i => l <= j
    BY <1>0, <1>6
  <2>1. {l \in K : l <= i} \in SUBSET {l \in K : l <= j}
    BY ONLY <2>0
  <2>2. j \in {l \in K : l <= j} /\ j \notin {l \in K : l <= i}
    BY <1>0, <1>6
  <2>3. i \in Nat /\ j \in Nat
    BY <1>0
  <2> QED
    BY <2>1, <2>2, <2>3, <1>3, FS_Subset DEF Rank
<1>7. ASSUME NEW i \in K PROVE R(i) \in 1 .. n
  <2>1. i \in Nat /\ {j \in K : j <= i} \in SUBSET K /\ i \in {j \in K : j <= i}
    BY <1>0
  <2>2. R(i) <= n /\ R(i) # 0
    BY <2>1, <1>1, <1>3, FS_Subset, FS_EmptySet DEF Rank
  <2>3. R(i) \in Nat
    BY <2>1, <1>3
  <2> HIDE DEF R, n
  <2> QED
    BY <2>2, <2>3, <1>2
<1>8. ASSUME NEW k \in 1 .. n PROVE \E i \in K : R(i) = k
  <2> DEFINE Reached == {i \in Nat : R(i) >= k}
  <2>1. m \in Reached
    BY <1>2, <1>4
  <2>2. PICK i \in Reached : \A j \in Reached : ~(j < i)
    <3> HIDE DEF Reached
    <3>1. Reached \subseteq Nat
      BY DEF Reached
    <3> QED
      BY <2>1, <3>1, LeastElement
  <2> HIDE DEF R
  <2>3. i \in Nat /\ R(i) >= k /\ i # 0
    BY <2>2, <1>4
  <2>4. i - 1 \in Nat /\ i = (i - 1) + 1 /\ i - 1 \notin Reached
    BY <2>2, <2>3
  <2>5. R(i - 1) \in Nat /\ R(i) \in Nat /\ ~(R(i - 1) >= k)
    BY <1>3, <2>3, <2>4
  <2>6. i \in K /\ R(i) = R(i - 1) + 1
    BY <1>5, <2>3, <2>4, <2>5
  <2> QED
    BY <2>3, <2>5, <2>6
<1> HIDE DEF R
<1>9. ASSUME NEW k \in 1 .. n PROVE f[k] \in K /\ R(f[k]) = k
  BY <1>8
<1> HIDE DEF f, n
<1>10. f \in [1 .. n -> K]
  BY <1>9 DEF f
<1>11. ASSUME NEW a \in 1 .. n, NEW b \in 1 .. n, a < b PROVE f[a] < f[b]
  <2>1. f[a] \in K /\ f[b] \in K /\ R(f[a]) = a /\ R(f[b]) = b
    BY <1>9
  <2>2. f[a] \in Nat /\ f[b] \in Nat
    BY <2>1, <1>0
  <2>3. ~(f[b] < f[a])
    <3>1. f[b] < f[a] => b < a
      BY <2>1, <1>6
    <3> QED
      BY <3>1, <1>11, <1>2
  <2>4. f[a] # f[b]
    BY <2>1, <1>11, <1>2
  <2> QED
    BY <2>2, <2>3, <2>4
<1>12. ASSUME NEW i \in K PROVE \E a \in 1 .. n : f[a] = i
  <2>1. R(i) \in 1 .. n
    BY <1>7
  <2>2. f[R(i)] \in K /\ R(f[R(i)]) = R(i)
    BY <2>1, <1>9
  <2>3. f[R(i)] \in Nat /\ i \in Nat /\ R(i) \in Nat
    <3>1. f[R(i)] \in Nat /\ i \in Nat
      BY <2>2, <1>0
    <3>2. R(i) \in Nat
      BY <3>1, <1>3
    <3> QED
      BY <3>1, <3>2
  <2>4. ~(f[R(i)] < i) /\ ~(i < f[R(i)])
    <3>1. f[R(i)] < i => R(i) < R(i)
      BY <2>2, <1>6
    <3>2. i < f[R(i)] => R(i) < R(i)
      BY <2>2, <1>6
    <3> QED
      BY <2>3, <3>1, <3>2
  <2> QED
    BY <2>1, <2>3, <2>4
<1> QED
  BY <1>2, <1>10, <1>11, <1>12 DEF Lists, f, n, R

(* There is one way to list a set of naturals.                             *)
LEMMA ListsOnce ==
  ASSUME NEW K, K \subseteq Nat, NEW n \in Nat, NEW m \in Nat, NEW f, NEW g,
         Lists(f, n, K), Lists(g, m, K)
  PROVE  n = m /\ f = g
<1>1. ASSUME NEW u, NEW v, NEW a \in Nat, NEW b \in Nat, Lists(u, a, K), Lists(v, b, K)
      PROVE  \A k \in 1 .. a : k \in 1 .. b /\ v[k] = u[k]
  <2> DEFINE Off == {k \in 1 .. a : ~(k \in 1 .. b /\ v[k] = u[k])}
  <2> SUFFICES ASSUME Off # {} PROVE FALSE
    OBVIOUS
  <2>1. PICK k \in Off : \A l \in Off : ~(l < k)
    <3> HIDE DEF Off
    <3>1. Off \subseteq Nat
      BY DEF Off
    <3> QED
      BY <3>1, LeastElement
  <2>2. \A l \in 1 .. k - 1 : l \in 1 .. a /\ l \in 1 .. b /\ v[l] = u[l]
    BY <2>1
  <2>3. k \in 1 .. a /\ u[k] \in K /\ u[k] \in Nat
    BY <1>1, <2>1 DEF Lists
  <2>4. PICK c \in 1 .. b : v[c] = u[k]
    BY <1>1, <2>3 DEF Lists
  <2>5. CASE c < k
    <3>1. u[c] = u[k] /\ u[c] < u[k]
      BY <1>1, <2>2, <2>3, <2>4, <2>5 DEF Lists
    <3> QED
      BY <2>3, <3>1
  <2>6. CASE c = k
    BY <2>1, <2>4, <2>6
  <2>7. CASE c > k
    <3>0. k \in 1 .. b /\ k < c /\ c \in 1 .. b
      BY <1>1, <2>3, <2>4, <2>7
    <3>1. k \in 1 .. b /\ v[k] < v[c] /\ v[k] \in K /\ v[k] \in Nat
      BY <1>1, <3>0 DEF Lists
    <3>2. PICK d \in 1 .. a : u[d] = v[k]
      BY <1>1, <3>1 DEF Lists
    <3>3. d < k
      <4>1. CASE d = k
        BY <2>3, <2>4, <3>1, <3>2, <4>1
      <4>2. CASE d > k
        <5>1. u[k] < u[d]
          BY <1>1, <2>3, <3>2, <4>2 DEF Lists
        <5> QED
          BY <2>3, <2>4, <3>1, <3>2, <5>1
      <4> QED
        BY <4>1, <4>2, <2>3, <3>2
    <3>4. v[d] = v[k] /\ v[d] < v[k]
      BY <1>1, <2>2, <3>1, <3>2, <3>3 DEF Lists
    <3> QED
      BY <3>1, <3>4
  <2> QED
    BY <2>3, <2>4, <2>5, <2>6, <2>7
<1>2. (\A k \in 1 .. n : k \in 1 .. m /\ g[k] = f[k]) /\ (\A k \in 1 .. m : k \in 1 .. n)
  BY <1>1
<1>3. n = m
  BY <1>2
<1> QED
  BY <1>2, <1>3 DEF Lists

Kept(queue, S) == {i \in DOMAIN queue : queue[i] \in S}

LEMMA OnlyLists ==
  ASSUME NEW X, NEW queue \in Seq(X), NEW S
  PROVE  \E n \in Nat : \E f :
           Lists(f, n, Kept(queue, S)) /\ Only(queue, S) = [k \in 1 .. n |-> queue[f[k]]]
<1> DEFINE K == Kept(queue, S)
           n == Cardinality(K)
           f == [k \in 1 .. n |-> CHOOSE i \in K : Rank(K, i) = k]
<1>1. Len(queue) \in Nat /\ K \subseteq 1 .. Len(queue)
  BY DEF Kept
<1>2. n \in Nat /\ Lists(f, n, K)
  <2> HIDE DEF K
  <2> QED
    BY <1>1, RankLists
<1>3. Only(queue, S) = [k \in 1 .. n |-> queue[CHOOSE i \in K : Rank(K, i) = k]]
  BY DEF Only, Rank, Kept
<1>4. \A k \in 1 .. n : f[k] = CHOOSE i \in K : Rank(K, i) = k
  OBVIOUS
<1> HIDE DEF n, K
<1>5. Only(queue, S) = [k \in 1 .. n |-> queue[f[k]]]
  BY <1>3, <1>4
<1> HIDE DEF f
<1>6. Lists(f, n, Kept(queue, S))
  BY <1>2 DEF K
<1> QED
  BY <1>2, <1>5, <1>6

LEMMA OnlyIs ==
  ASSUME NEW X, NEW queue \in Seq(X), NEW S, NEW n \in Nat, NEW f,
         Lists(f, n, Kept(queue, S))
  PROVE  Only(queue, S) = [k \in 1 .. n |-> queue[f[k]]]
<1>1. Kept(queue, S) \subseteq Nat
  BY DEF Kept
<1>0. PICK m \in Nat : \E g :
        Lists(g, m, Kept(queue, S)) /\ Only(queue, S) = [k \in 1 .. m |-> queue[g[k]]]
  BY OnlyLists
<1>2. PICK g : Lists(g, m, Kept(queue, S)) /\ Only(queue, S) = [k \in 1 .. m |-> queue[g[k]]]
  BY <1>0
<1>3. n = m /\ f = g
  BY <1>1, <1>2, ListsOnce
<1> QED
  BY <1>2, <1>3

(* What is seen of a queue: members of S, those the queue holds.           *)
LEMMA OnlyMembers ==
  ASSUME NEW X, NEW queue \in Seq(X), NEW S
  PROVE  /\ Only(queue, S) \in Seq(X \cap S)
         /\ \A i \in DOMAIN queue :
              queue[i] \in S => \E k \in DOMAIN Only(queue, S) : Only(queue, S)[k] = queue[i]
         /\ \A k \in DOMAIN Only(queue, S) :
              \E i \in DOMAIN queue : queue[i] \in S /\ Only(queue, S)[k] = queue[i]
<1> DEFINE K == Kept(queue, S)
<1>0. PICK n \in Nat : \E f : Lists(f, n, K) /\ Only(queue, S) = [k \in 1 .. n |-> queue[f[k]]]
  BY OnlyLists
<1>1. PICK f : Lists(f, n, K) /\ Only(queue, S) = [k \in 1 .. n |-> queue[f[k]]]
  BY <1>0
<1>2. \A k \in 1 .. n : f[k] \in DOMAIN queue /\ queue[f[k]] \in X \cap S
  BY <1>1 DEF Lists, Kept
<1>3. Only(queue, S) \in Seq(X \cap S) /\ DOMAIN Only(queue, S) = 1 .. n
  BY <1>1, <1>2
<1>4. \A i \in DOMAIN queue : queue[i] \in S => \E k \in 1 .. n : f[k] = i
  BY <1>1 DEF Lists, Kept
<1>5. \A k \in 1 .. n : Only(queue, S)[k] = queue[f[k]]
  BY <1>1
<1> HIDE DEF K
<1>6. \A i \in DOMAIN queue :
        queue[i] \in S => \E k \in DOMAIN Only(queue, S) : Only(queue, S)[k] = queue[i]
  BY <1>3, <1>4, <1>5
<1>7. \A k \in DOMAIN Only(queue, S) :
        \E i \in DOMAIN queue : queue[i] \in S /\ Only(queue, S)[k] = queue[i]
  BY <1>2, <1>3, <1>5
<1> QED
  BY <1>3, <1>6, <1>7

LEMMA OnlyFrom ==
  ASSUME NEW X, NEW queue \in Seq(X), NEW S, NEW k \in DOMAIN Only(queue, S)
  PROVE  \E i \in DOMAIN queue : queue[i] = Only(queue, S)[k]
<1>0. PICK n \in Nat : \E f :
        Lists(f, n, Kept(queue, S)) /\ Only(queue, S) = [j \in 1 .. n |-> queue[f[j]]]
  BY OnlyLists
<1>1. PICK f : Lists(f, n, Kept(queue, S)) /\ Only(queue, S) = [j \in 1 .. n |-> queue[f[j]]]
  BY <1>0
<1>2. k \in 1 .. n
  BY <1>1
<1>3. f[k] \in DOMAIN queue /\ Only(queue, S)[k] = queue[f[k]]
  BY <1>1, <1>2 DEF Lists, Kept
<1> QED
  BY <1>3

(* Only membership of what the queue holds counts.                         *)
LEMMA OnlySame ==
  ASSUME NEW queue, NEW S, NEW T, \A i \in DOMAIN queue : queue[i] \in S <=> queue[i] \in T
  PROVE  Only(queue, S) = Only(queue, T)
<1> DEFINE seen(K) == [k \in 1 .. Cardinality(K) |->
                         queue[CHOOSE i \in K : Cardinality({j \in K : j <= i}) = k]]
<1>1. Kept(queue, S) = Kept(queue, T)
  BY DEF Kept
<1>2. Only(queue, S) = seen(Kept(queue, S)) /\ Only(queue, T) = seen(Kept(queue, T))
  BY DEF Only, Kept
<1> HIDE DEF seen
<1> QED
  BY <1>1, <1>2

(* A member put at the end is seen at the end.                             *)
LEMMA OnlyAppend ==
  ASSUME NEW X, NEW queue \in Seq(X), NEW S, NEW x \in X
  PROVE  Only(Append(queue, x), S)
           = IF x \in S THEN Append(Only(queue, S), x) ELSE Only(queue, S)
<1> DEFINE K == Kept(queue, S)
           more == Append(queue, x)
           L == Len(queue) + 1
<1>0. PICK n \in Nat : \E f : Lists(f, n, K) /\ Only(queue, S) = [k \in 1 .. n |-> queue[f[k]]]
  BY OnlyLists
<1>1. PICK f : Lists(f, n, K) /\ Only(queue, S) = [k \in 1 .. n |-> queue[f[k]]]
  BY <1>0
<1>2. more \in Seq(X) /\ Len(queue) \in Nat /\ DOMAIN more = 1 .. L /\ more[L] = x
      /\ DOMAIN queue = 1 .. Len(queue) /\ \A i \in DOMAIN queue : more[i] = queue[i] /\ i \in 1 .. L /\ i < L
  OBVIOUS
<1>3. \A i \in 1 .. L : i \in DOMAIN queue \/ i = L
  BY <1>2
<1>4. \A k \in 1 .. n : f[k] \in DOMAIN queue /\ more[f[k]] = queue[f[k]] /\ f[k] < L
  BY <1>1, <1>2 DEF Lists, Kept
<1> HIDE DEF more, L, K
<1>5. CASE x \in S
  <2> DEFINE g == [k \in 1 .. n + 1 |-> IF k = n + 1 THEN L ELSE f[k]]
  <2>0. ASSUME NEW i PROVE i \in Kept(more, S) <=> i \in K \/ i = L
    <3>1. ASSUME i \in Kept(more, S) PROVE i \in K \/ i = L
      BY <1>2, <1>3, <3>1 DEF Kept, K
    <3>2. ASSUME i \in K PROVE i \in Kept(more, S)
      BY <1>2, <3>2 DEF Kept, K
    <3>3. L \in Kept(more, S)
      <4>1. L \in 1 .. L
        BY <1>2 DEF L
      <4> QED
        BY <4>1, <1>2, <1>5 DEF Kept
    <3> QED
      BY <3>1, <3>2, <3>3
  <2>1. Kept(more, S) = K \cup {L}
    BY <2>0
  <2>2. \A k \in 1 .. n : k \in 1 .. n + 1 /\ k # n + 1
    BY <1>1
  <2>3. \A k \in 1 .. n + 1 : k \in 1 .. n \/ k = n + 1
    BY <1>1
  <2>4. g \in [1 .. n + 1 -> Kept(more, S)]
    BY <1>1, <2>1, <2>3 DEF Lists
  <2>5. \A k \in 1 .. n : g[k] = f[k]
    BY <2>2
  <2>6. g[n + 1] = L
    BY <1>1
  <2> HIDE DEF g
  <2>7. ASSUME NEW a \in 1 .. n + 1, NEW b \in 1 .. n + 1, a < b PROVE g[a] < g[b]
    <3>1. a \in 1 .. n
      BY <2>7, <1>1
    <3>2. CASE b = n + 1
      BY <3>1, <3>2, <2>5, <2>6, <1>4
    <3>3. CASE b \in 1 .. n
      BY <3>1, <3>3, <2>5, <2>7, <1>1 DEF Lists
    <3> QED
      BY <3>2, <3>3, <2>3
  <2>8. ASSUME NEW i \in Kept(more, S) PROVE \E a \in 1 .. n + 1 : g[a] = i
    <3>1. CASE i = L
      BY <3>1, <2>6, <1>1
    <3>2. CASE i \in K
      <4>1. PICK a \in 1 .. n : f[a] = i
        BY <3>2, <1>1 DEF Lists
      <4> QED
        BY <4>1, <2>5, <2>2
    <3> QED
      BY <3>1, <3>2, <2>1
  <2>9. Lists(g, n + 1, Kept(more, S))
    BY <2>4, <2>7, <2>8 DEF Lists
  <2>10. Only(more, S) = [k \in 1 .. n + 1 |-> more[g[k]]]
    <3>1. more \in Seq(X) /\ n + 1 \in Nat
      BY <1>1, <1>2
    <3>2. PICK m : m = n + 1
      OBVIOUS
    <3>3. more \in Seq(X) /\ m \in Nat /\ Lists(g, m, Kept(more, S))
      BY <2>9, <3>1, <3>2
    <3>4. Only(more, S) = [k \in 1 .. m |-> more[g[k]]]
      BY ONLY <3>3, OnlyIs
    <3> QED
      BY <3>2, <3>4
  <2>11. Append(Only(queue, S), x) = [k \in 1 .. n + 1 |-> more[g[k]]]
    <3>1. \A k \in 1 .. n : more[g[k]] = queue[f[k]]
      BY <2>5, <1>4
    <3>2. more[g[n + 1]] = x
      BY <2>6, <1>2
    <3>3. Append(Only(queue, S), x)
            = [k \in 1 .. n + 1 |-> IF k = n + 1 THEN x ELSE queue[f[k]]]
      BY <1>1
    <3> QED
      BY <3>1, <3>2, <3>3, <2>3
  <2> QED
    BY <2>10, <2>11, <1>5 DEF more
<1>6. CASE x \notin S
  <2>1. Kept(more, S) = K
    BY <1>2, <1>3, <1>6 DEF Kept, K
  <2>2. Only(more, S) = [k \in 1 .. n |-> more[f[k]]]
    <3>1. more \in Seq(X) /\ n \in Nat /\ Lists(f, n, Kept(more, S))
      BY <2>1, <1>1, <1>2
    <3> QED
      BY ONLY <3>1, OnlyIs
  <2> QED
    BY <2>2, <1>1, <1>4, <1>6 DEF more
<1> QED
  BY <1>5, <1>6

(* Taking the first member of the queue takes the first one seen, or none. *)
LEMMA OnlyTake ==
  ASSUME NEW X, NEW queue \in Seq(X), NEW S, queue # << >>
  PROVE  /\ Head(queue) \in S =>
              /\ Only(queue, S) # << >>
              /\ Head(Only(queue, S)) = Head(queue)
              /\ Tail(Only(queue, S)) = Only(Tail(queue), S)
         /\ Head(queue) \notin S => Only(queue, S) = Only(Tail(queue), S)
<1> DEFINE rest == Tail(queue)
           K == Kept(rest, S)
           m == Len(rest)
<1>1. rest \in Seq(X) /\ m \in Nat /\ DOMAIN rest = 1 .. m /\ DOMAIN queue = 1 .. m + 1
      /\ queue[1] = Head(queue) /\ \A i \in 1 .. m : queue[i + 1] = rest[i]
  OBVIOUS
<1> HIDE DEF rest, m
<1>0. PICK n \in Nat : \E f : Lists(f, n, K) /\ Only(rest, S) = [k \in 1 .. n |-> rest[f[k]]]
  <2>1. rest \in Seq(X)
    BY <1>1
  <2> QED
    BY ONLY <2>1, OnlyLists
<1>2. PICK f : Lists(f, n, K) /\ Only(rest, S) = [k \in 1 .. n |-> rest[f[k]]]
  BY <1>0
<1>3. \A k \in 1 .. n : f[k] \in 1 .. m /\ f[k] \in Nat /\ queue[f[k] + 1] = rest[f[k]]
  BY <1>1, <1>2 DEF Lists, Kept
<1>4. ASSUME NEW i \in 1 .. m PROVE i + 1 \in Kept(queue, S) <=> i \in K
  BY <1>1 DEF Kept
<1>5. ASSUME NEW i \in Kept(queue, S) PROVE i = 1 \/ (i - 1 \in 1 .. m /\ i - 1 \in K)
  <2>1. i \in 1 .. m + 1
    BY <1>1 DEF Kept
  <2>2. i = 1 \/ (i - 1 \in 1 .. m /\ (i - 1) + 1 = i)
    BY <2>1, <1>1
  <2> QED
    BY <2>2, <1>4
<1>6. 1 \in Kept(queue, S) <=> Head(queue) \in S
  <2>1. 1 \in 1 .. m + 1
    BY <1>1
  <2> QED
    BY <2>1, <1>1 DEF Kept
<1> HIDE DEF K
<1>7. \A k \in 1 .. n : f[k] \in K
  BY <1>2 DEF Lists
<1>8. CASE Head(queue) \in S
  <2> DEFINE g == [k \in 1 .. n + 1 |-> IF k = 1 THEN 1 ELSE f[k - 1] + 1]
  <2>1. \A k \in 1 .. n + 1 : k = 1 \/ (k - 1 \in 1 .. n /\ k > 1)
    BY <1>2
  <2>2. 1 \in 1 .. n + 1 /\ g[1] = 1
    BY <1>2
  <2>3. \A k \in 1 .. n : k + 1 \in 1 .. n + 1 /\ (k + 1) - 1 = k /\ k + 1 # 1
    BY <1>2
  <2>4. \A k \in 1 .. n : g[k + 1] = f[k] + 1
    BY <2>3
  <2>5. \A k \in 1 .. n + 1 : k = 1 \/ (k - 1 \in 1 .. n /\ g[k] = f[k - 1] + 1)
    BY <2>1
  <2> HIDE DEF g
  <2>6. \A k \in 1 .. n + 1 : g[k] \in Kept(queue, S) /\ g[k] \in Nat
    BY <2>2, <2>5, <1>3, <1>4, <1>6, <1>7, <1>8
  <2>7. g \in [1 .. n + 1 -> Kept(queue, S)]
    BY <2>6 DEF g
  <2>8. ASSUME NEW a \in 1 .. n + 1, NEW b \in 1 .. n + 1, a < b PROVE g[a] < g[b]
    <3>1. b - 1 \in 1 .. n /\ g[b] = f[b - 1] + 1 /\ f[b - 1] >= 1 /\ f[b - 1] \in Nat
      BY <2>8, <2>5, <1>2, <1>3
    <3>2. CASE a = 1
      BY <3>1, <3>2, <2>2
    <3>3. CASE a - 1 \in 1 .. n /\ g[a] = f[a - 1] + 1
      <4>1. f[a - 1] < f[b - 1] /\ f[a - 1] \in Nat
        <5>1. a - 1 < b - 1
          BY <2>8, <1>2
        <5> QED
          BY <5>1, <3>1, <3>3, <1>2, <1>3 DEF Lists
      <4> QED
        BY <4>1, <3>1, <3>3
    <3> QED
      BY <3>2, <3>3, <2>5
  <2>9. ASSUME NEW i \in Kept(queue, S) PROVE \E a \in 1 .. n + 1 : g[a] = i
    <3>1. CASE i = 1
      BY <3>1, <2>2
    <3>2. CASE i - 1 \in 1 .. m /\ i - 1 \in K
      <4>1. PICK a \in 1 .. n : f[a] = i - 1
        BY <3>2, <1>2 DEF Lists
      <4>2. i = (i - 1) + 1
        BY <1>1 DEF Kept
      <4> QED
        BY <4>1, <4>2, <2>3, <2>4
    <3> QED
      BY <3>1, <3>2, <1>5
  <2>10. Lists(g, n + 1, Kept(queue, S))
    BY <2>7, <2>8, <2>9 DEF Lists
  <2>11. Only(queue, S) = [k \in 1 .. n + 1 |-> queue[g[k]]]
    <3>1. queue \in Seq(X) /\ n + 1 \in Nat
      BY <1>2
    <3> QED
      BY ONLY <3>1, <2>10, OnlyIs
  <2>12. /\ Only(queue, S) # << >>
         /\ Head(Only(queue, S)) = queue[1]
         /\ Tail(Only(queue, S)) = [k \in 1 .. n |-> queue[g[k + 1]]]
    <3> DEFINE seen == [k \in 1 .. n + 1 |-> queue[g[k]]]
    <3>1. \A k \in 1 .. n + 1 : queue[g[k]] \in X
      BY <2>6 DEF Kept
    <3>2. seen \in Seq(X) /\ Len(seen) = n + 1
      BY <3>1, <1>2
    <3>3. seen[1] = queue[1]
      BY <2>2
    <3>4. \A k \in 1 .. n : seen[k + 1] = queue[g[k + 1]]
      BY <2>3
    <3>5. Only(queue, S) = seen
      BY <2>11
    <3> HIDE DEF seen
    <3>6. seen # << >> /\ Head(seen) = seen[1]
      BY <3>2, <1>2
    <3>7. /\ Tail(seen) \in Seq(X) /\ Len(Tail(seen)) = n
          /\ \A k \in 1 .. n : Tail(seen)[k] = seen[k + 1]
      BY <3>2, <3>6, <1>2
    <3>8. Tail(seen) = [k \in 1 .. n |-> seen[k + 1]]
      <4> DEFINE last == Tail(seen)
      <4>1. last \in Seq(X) /\ Len(last) = n /\ \A k \in 1 .. n : last[k] = seen[k + 1]
        BY <3>7
      <4> HIDE DEF last
      <4>2. last = [k \in 1 .. n |-> last[k]]
        BY ONLY <4>1
      <4> QED
        BY <4>1, <4>2 DEF last
    <3> QED
      BY <3>3, <3>4, <3>5, <3>6, <3>8
  <2>13. \A k \in 1 .. n : queue[g[k + 1]] = rest[f[k]]
    BY <2>4, <1>3
  <2>14. Tail(Only(queue, S)) = Only(rest, S)
    BY <2>12, <2>13, <1>2
  <2> QED
    BY <2>12, <2>14, <1>1, <1>8 DEF rest
<1>9. CASE Head(queue) \notin S
  <2> DEFINE g == [k \in 1 .. n |-> f[k] + 1]
  <2>1. \A k \in 1 .. n : g[k] \in Kept(queue, S) /\ g[k] = f[k] + 1 /\ queue[g[k]] = rest[f[k]]
    BY <1>3, <1>4, <1>7
  <2>2. g \in [1 .. n -> Kept(queue, S)]
    BY <2>1
  <2> HIDE DEF g
  <2>3. ASSUME NEW a \in 1 .. n, NEW b \in 1 .. n, a < b PROVE g[a] < g[b]
    <3>1. f[a] < f[b] /\ f[a] \in Nat /\ f[b] \in Nat
      BY <2>3, <1>2, <1>3 DEF Lists
    <3> QED
      BY <3>1, <2>1
  <2>4. ASSUME NEW i \in Kept(queue, S) PROVE \E a \in 1 .. n : g[a] = i
    <3>1. i - 1 \in 1 .. m /\ i - 1 \in K
      BY <1>5, <1>6, <1>9
    <3>2. PICK a \in 1 .. n : f[a] = i - 1
      BY <3>1, <1>2 DEF Lists
    <3>3. i = (i - 1) + 1
      BY <1>1 DEF Kept
    <3> QED
      BY <3>2, <3>3, <2>1
  <2>5. Lists(g, n, Kept(queue, S))
    BY <2>2, <2>3, <2>4 DEF Lists
  <2>6. Only(queue, S) = [k \in 1 .. n |-> queue[g[k]]]
    BY ONLY queue \in Seq(X), <1>2, <2>5, OnlyIs
  <2> QED
    BY <2>6, <2>1, <1>2, <1>9 DEF rest
<1> QED
  BY <1>8, <1>9

(* What the loop does: it runs at most one task, holds a batch only while  *)
(* it works on one, ends only after Delete was called, which returns only  *)
(* once the loop has ended; a task whose call has begun is in that call.   *)
RunsOneTask ==
  /\ \A t \in Tasks : fate[t] = "running" => wpc \in {"run", "timer"} /\ run_task = t
  /\ wpc \notin {"batch", "run"} => tasks = << >>
  /\ wpc \in {"exit", "exited"} => dpc # "live"
  /\ dpc = "deleted" => wpc = "exited"
  /\ \A t \in Tasks : fate[t] = "calling" => \E p \in Posters : Calling(p) /\ call[p].task = t

LEMMA RunsOneTaskInvariant == Spec => []RunsOneTask
<1>1. Init => RunsOneTask
  BY DEF Init, RunsOneTask
<1>2. TypeOK /\ OnePlace /\ OneQuitByte /\ RunsOneTask /\ [Next]_vars => RunsOneTask'
  <2> SUFFICES ASSUME TypeOK, OnePlace, OneQuitByte, RunsOneTask, [Next]_vars
               PROVE  RunsOneTask'
    OBVIOUS
  <2>0. ASSUME UNCHANGED <<tasks, wpc, dpc, run_task>>,
               \A t \in Tasks : fate'[t] = "running" => fate[t] = "running",
               \A t \in Tasks :
                 fate'[t] = "calling" => \E p \in Posters : Calling(p)' /\ call'[p].task = t
        PROVE  RunsOneTask'
    BY <2>0 DEF RunsOneTask
  <2>1. ASSUME NEW p \in Posters, NEW t \in Tasks, NEW k, NEW d,
               NEW step \in {"push", "arm"}, BeginCall(p, t, k, d, step)
        PROVE  RunsOneTask'
    <3>1. /\ fate' = [fate EXCEPT ![t] = "calling"]
          /\ UNCHANGED <<tasks, wpc, dpc, run_task>>
      BY <2>1 DEF BeginCall, workerVars
    <3>2. /\ ~Calling(p) /\ Calling(p)' /\ call'[p].task = t
          /\ \A q \in Posters \ {p} : (Calling(q)' <=> Calling(q)) /\ call'[q] = call[q]
      BY <2>1 DEF BeginCall, Calling, TypeOK
    <3>3. fate'[t] = "calling" /\ \A u \in Tasks \ {t} : fate'[u] = fate[u]
      BY <3>1 DEF TypeOK
    <3>4. ASSUME NEW u \in Tasks, fate'[u] = "calling"
          PROVE  \E q \in Posters : Calling(q)' /\ call'[q].task = u
      BY <3>2, <3>3, <3>4 DEF RunsOneTask
    <3> QED
      BY <2>0, <3>1, <3>3, <3>4
  <2>2. ASSUME NEW p \in Posters, Push(p) \/ ArmTimer(p) PROVE RunsOneTask'
    <3>1. /\ fate' = [fate EXCEPT ![call[p].task] = "queued"]
          /\ UNCHANGED <<tasks, wpc, dpc, run_task>>
      BY <2>2 DEF Push, ArmTimer, workerVars
    <3>2. /\ Calling(p) /\ call[p].task \in Tasks
          /\ \A q \in Posters \ {p} : (Calling(q)' <=> Calling(q)) /\ call'[q] = call[q]
      BY <2>2 DEF Push, ArmTimer, Calling, TypeOK, Closure
    <3>3. fate'[call[p].task] = "queued" /\ \A u \in Tasks \ {call[p].task} : fate'[u] = fate[u]
      BY <3>1, <3>2 DEF TypeOK
    <3>4. ASSUME NEW u \in Tasks, fate'[u] = "calling"
          PROVE  \E q \in Posters : Calling(q)' /\ call'[q].task = u
      <4>1. u # call[p].task /\ fate[u] = "calling"
        BY <3>3, <3>4
      <4> QED
        BY <4>1, <3>2 DEF RunsOneTask
    <3> QED
      BY <2>0, <3>1, <3>3, <3>4
  <2>3. ASSUME NEW p \in Posters, Write(p) PROVE RunsOneTask'
    <3>1. /\ UNCHANGED <<tasks, wpc, dpc, run_task, fate, call>>
          /\ \A q \in Posters : Calling(q)' <=> Calling(q)
      BY <2>3 DEF Write, Calling, TypeOK, workerVars, historyVars
    <3> QED
      BY <2>0, <3>1 DEF RunsOneTask
  <2>4. CASE OnWakeup
    <3>1. Head(pipe) = "kQuit" => dpc # "live"
      <4>1. Head(pipe) = "kQuit" => 1 \in QuitBytes
        BY <2>4 DEF OnWakeup, QuitBytes, TypeOK
      <4> QED
        BY <4>1 DEF OneQuitByte
    <3> QED
      BY <2>4, <3>1 DEF OnWakeup, RunsOneTask, posterVars, historyVars, Calling
  <2>5. CASE SwapPending \/ EndBatch
    BY <2>5 DEF SwapPending, EndBatch, RunsOneTask, posterVars, historyVars, Calling
  <2>6. CASE RunClosure
    <3> DEFINE c == Head(tasks)
    <3>0. wpc = "batch" /\ tasks # << >> /\ tasks' = Tail(tasks) /\ UNCHANGED <<dpc, call, ppc>>
      BY <2>6 DEF RunClosure, posterVars
    <3>1. c \in Closure /\ c.task \in Tasks
      BY <3>0, TakeFirst DEF TypeOK, Closure
    <3> HIDE DEF c
    <3>2. CASE kind[c.task] = "delayed"
      <4>1. UNCHANGED <<wpc, run_task, fate>>
        BY <2>6, <3>2 DEF RunClosure, c
      <4> QED
        BY <3>0, <4>1 DEF RunsOneTask, Calling
    <3>3. CASE kind[c.task] # "delayed"
      <4>1. wpc' = "run" /\ run_task' = c.task /\ fate' = [fate EXCEPT ![c.task] = "running"]
        BY <2>6, <3>3 DEF RunClosure, c
      <4>2. fate'[c.task] = "running" /\ \A u \in Tasks \ {c.task} : fate'[u] = fate[u]
        BY <3>1, <4>1 DEF TypeOK
      <4> QED
        BY <3>0, <4>1, <4>2 DEF RunsOneTask, Calling
    <3> QED
      BY <3>2, <3>3
  <2>7. CASE FinishTask \/ FinishTimer
    <3>1. /\ wpc \in {"run", "timer"} /\ wpc' = IF wpc = "run" THEN "batch" ELSE "loop"
          /\ fate' = [fate EXCEPT ![run_task] = "run"]
          /\ UNCHANGED <<tasks, dpc, ppc, call>>
      BY <2>7 DEF FinishTask, FinishTimer, Finish, posterVars
    <3>2. /\ run_task \in Tasks /\ fate[run_task] = "running"
      BY <3>1 DEF TypeOK, OnePlace
    <3>3. fate'[run_task] = "run" /\ \A u \in Tasks \ {run_task} : fate'[u] = fate[u]
      BY <3>1, <3>2 DEF TypeOK
    <3>4. \A u \in Tasks : fate'[u] # "running"
      BY <3>3 DEF RunsOneTask
    <3> QED
      BY <3>1, <3>3, <3>4 DEF RunsOneTask, Calling
  <2>8. CASE RunTimer
    <3>1. PICK timer \in pending_timers_ :
            run_task' = timer.task /\ fate' = [fate EXCEPT ![timer.task] = "running"]
      BY <2>8 DEF RunTimer
    <3>2. /\ timer.task \in Tasks /\ wpc = "loop" /\ wpc' = "timer"
          /\ UNCHANGED <<tasks, dpc, ppc, call>>
      BY <2>8 DEF RunTimer, TypeOK, Timer, posterVars
    <3>3. fate'[timer.task] = "running" /\ \A u \in Tasks \ {timer.task} : fate'[u] = fate[u]
      BY <3>1, <3>2 DEF TypeOK
    <3> QED
      BY <3>1, <3>2, <3>3 DEF RunsOneTask, Calling
  <2>9. CASE ExitLoop
    <3>1. \A u \in Tasks : fate'[u] \in {fate[u], "destroyed"}
      BY <2>9 DEF ExitLoop
    <3>2. wpc = "exit" /\ wpc' = "exited" /\ UNCHANGED <<tasks, run_task, dpc, ppc, call>>
      BY <2>9 DEF ExitLoop, posterVars
    <3> QED
      BY <3>1, <3>2 DEF RunsOneTask, Calling
  <2>10. CASE DeleteQuit
    BY <2>10 DEF DeleteQuit, RunsOneTask, workerVars, posterVars, historyVars, Calling
  <2>11. CASE DeleteJoin
    <3>1. \A u \in Tasks : fate'[u] \in {fate[u], "destroyed"}
      BY <2>11 DEF DeleteJoin
    <3>2. /\ wpc = "exited" /\ dpc' = "deleted"
          /\ UNCHANGED <<tasks, run_task, wpc, ppc, call>>
      BY <2>11 DEF DeleteJoin, workerVars, posterVars
    <3> QED
      BY <3>1, <3>2 DEF RunsOneTask, Calling
  <2>12. CASE Tick \/ UNCHANGED vars
    BY <2>12 DEF Tick, vars, RunsOneTask, workerVars, posterVars, historyVars, Calling
  <2> QED
    BY <2>1, <2>2, <2>3, <2>4, <2>5, <2>6, <2>7, <2>8, <2>9, <2>10, <2>11, <2>12
    DEF Next, Post, Poster, WorkerStep, PostTask, PostDelayedTask
<1> QED
  BY <1>1, <1>2, TypeCorrect, OnePlaceInvariant, OneQuitByteInvariant, PTL DEF Spec

(* The instants: a closure carries the instant before which its task must  *)
(* not start as the instant of the call and the delay, and a timer is      *)
(* never set for an earlier one.                                           *)
Timely(c) ==
  /\ notBefore[c.task] = c.posted_us + c.delay
  /\ c.posted_us <= now
  /\ kind[c.task] \in {"immediate", "delayed"}

OnTime ==
  /\ \A p \in Posters : Calling(p) => Timely(call[p])
  /\ \A p \in Posters : ppc[p] = "arm" => kind[call[p].task] = "delayed"
  /\ \A i \in DOMAIN pending_ : Timely(pending_[i])
  /\ \A i \in DOMAIN tasks : Timely(tasks[i])
  /\ \A timer \in pending_timers_ :
       kind[timer.task] = "delayed" /\ timer.at >= notBefore[timer.task]
  /\ \A t \in Tasks : kind[t] = "immediate" => notBefore[t] <= now

LEMMA OnTimeInvariant == Spec => []OnTime
<1>1. Init => OnTime
  BY DEF Init, OnTime, Calling
<1>2. TypeOK /\ OnePlace /\ OnTime /\ [Next]_vars => OnTime'
  <2> SUFFICES ASSUME TypeOK, OnePlace, OnTime, [Next]_vars PROVE OnTime'
    OBVIOUS
  <2>0. /\ \A timer \in pending_timers_ :
             timer.task \in Tasks /\ timer.at \in Nat /\ fate[timer.task] \in {"queued", "running"}
        /\ \A p \in Posters : Calling(p) => call[p] \in Closure /\ call[p].task \in Tasks
        /\ \A i \in DOMAIN pending_ : pending_[i] \in Closure /\ fate[pending_[i].task] = "queued"
        /\ \A i \in DOMAIN tasks : tasks[i] \in Closure /\ fate[tasks[i].task] = "queued"
        /\ \A c \in Closure : c.task \in Tasks /\ c.posted_us \in Nat /\ c.delay \in Nat
        /\ now \in Nat
    <3>1. /\ pending_ \in Seq(Closure) /\ tasks \in Seq(Closure) /\ now \in Nat
          /\ \A c \in Closure : c.task \in Tasks /\ c.posted_us \in Nat /\ c.delay \in Nat
          /\ \A timer \in pending_timers_ : timer.task \in Tasks /\ timer.at \in Nat
      BY DEF TypeOK, Closure, Timer
    <3>2. \A i \in DOMAIN pending_ : pending_[i] \in Closure /\ In(pending_, pending_[i].task)
      BY <3>1 DEF In
    <3>3. \A i \in DOMAIN tasks : tasks[i] \in Closure /\ In(tasks, tasks[i].task)
      BY <3>1 DEF In
    <3>4. \A timer \in pending_timers_ : fate[timer.task] \in {"queued", "running"}
      BY DEF OnePlace, TimersAlive
    <3>5. \A p \in Posters : Calling(p) => call[p] \in Closure
      BY DEF TypeOK, Calling
    <3> QED
      BY <3>1, <3>2, <3>3, <3>4, <3>5 DEF OnePlace
  <2>1. ASSUME NEW p \in Posters, NEW t \in Tasks, NEW k \in {"immediate", "delayed"},
               NEW d \in Nat, NEW step \in {"push", "arm"}, BeginCall(p, t, k, d, step),
               k = "immediate" => d = 0 /\ step = "push"
        PROVE  OnTime'
    <3>1. /\ fate[t] = "new" /\ call'[p] = [task |-> t, delay |-> d, posted_us |-> now]
          /\ ppc'[p] = step
          /\ kind'[t] = k /\ notBefore'[t] = now + d
          /\ \A u \in Tasks \ {t} : kind'[u] = kind[u] /\ notBefore'[u] = notBefore[u]
          /\ UNCHANGED <<pending_, pending_timers_, tasks, now>>
      BY <2>1 DEF BeginCall, TypeOK, workerVars
    <3>2. \A q \in Posters \ {p} : ppc'[q] = ppc[q] /\ call'[q] = call[q]
      BY <2>1 DEF BeginCall, TypeOK
    <3>3. ASSUME NEW c \in Closure, fate[c.task] # "new", Timely(c) PROVE Timely(c)'
      <4>1. c.task \in Tasks \ {t}
        BY <2>0, <3>1, <3>3
      <4> QED
        BY <4>1, <3>1, <3>3 DEF Timely
    <3>4. Timely(call[p])'
      BY <3>1, <2>0, <2>1 DEF Timely
    <3>5. ASSUME NEW q \in Posters, q # p, Calling(q)'
          PROVE  /\ Calling(q) /\ call'[q] = call[q] /\ call[q].task \in Tasks \ {t}
                 /\ Timely(call[q])'
      <4>1. Calling(q) /\ call'[q] = call[q]
        BY <3>2, <3>5 DEF Calling
      <4>2. call[q] \in Closure /\ fate[call[q].task] = "calling" /\ Timely(call[q])
        BY <4>1, <2>0 DEF OnePlace, OnTime
      <4>3. call[q].task \in Tasks \ {t}
        BY <4>2, <2>0, <3>1
      <4>4. Timely(call[q])'
        BY <4>1, <4>2, <4>3, <3>1 DEF Timely
      <4> QED
        BY <4>1, <4>3, <4>4
    <3>6. \A q \in Posters : Calling(q)' => Timely(call[q])'
      BY <3>4, <3>5
    <3>7. \A q \in Posters : ppc'[q] = "arm" => kind'[call'[q].task] = "delayed"
      <4>1. ASSUME NEW q \in Posters, q # p, ppc'[q] = "arm"
            PROVE  kind'[call'[q].task] = "delayed"
        <5>1. Calling(q)' /\ ppc[q] = "arm"
          BY <4>1, <3>2 DEF Calling
        <5> QED
          BY <4>1, <5>1, <3>1, <3>5 DEF OnTime
      <4>2. ppc'[p] = "arm" => kind'[call'[p].task] = "delayed"
        BY <3>1, <2>1
      <4> QED
        BY <4>1, <4>2
    <3>8. \A i \in DOMAIN pending_ : Timely(pending_[i])'
      BY <2>0, <3>1, <3>3 DEF OnTime
    <3>9. \A i \in DOMAIN tasks : Timely(tasks[i])'
      BY <2>0, <3>1, <3>3 DEF OnTime
    <3>10. \A timer \in pending_timers_ :
             kind'[timer.task] = "delayed" /\ timer.at >= notBefore'[timer.task]
      BY <2>0, <3>1 DEF OnTime
    <3>11. \A u \in Tasks : kind'[u] = "immediate" => notBefore'[u] <= now
      BY <2>0, <2>1, <3>1 DEF OnTime
    <3> QED
      BY <3>1, <3>6, <3>7, <3>8, <3>9, <3>10, <3>11 DEF OnTime
  <2> DEFINE Same == UNCHANGED <<now, kind, notBefore>>
  <2>2. ASSUME Same,
               \A p \in Posters : ppc'[p] \in {"idle", "write"}
                                  \/ (ppc'[p] = ppc[p] /\ call'[p] = call[p]),
               \A i \in DOMAIN pending_' : Timely(pending_'[i]),
               \A i \in DOMAIN tasks' : Timely(tasks'[i]),
               \A timer \in pending_timers_' :
                 kind[timer.task] = "delayed" /\ timer.at >= notBefore[timer.task]
        PROVE  OnTime'
    BY <2>2 DEF OnTime, Calling, Timely
  <2>3. ASSUME NEW p \in Posters, Push(p) PROVE OnTime'
    <3>1. /\ Calling(p) /\ pending_' = Append(pending_, call[p])
          /\ \A q \in Posters : ppc'[q] \in {"idle", "write"}
                                \/ (ppc'[q] = ppc[q] /\ call'[q] = call[q])
          /\ Same /\ UNCHANGED <<pending_timers_, tasks>>
      BY <2>3 DEF Push, Calling, TypeOK, workerVars
    <3>2. call[p] \in Closure /\ Timely(call[p])
      BY <3>1, <2>0 DEF OnTime
    <3> DEFINE L == Len(pending_) + 1
    <3>3. /\ DOMAIN pending_' = DOMAIN pending_ \cup {L}
          /\ pending_'[L] = call[p]
          /\ \A i \in DOMAIN pending_ : pending_'[i] = pending_[i]
      BY <3>1, <3>2 DEF TypeOK
    <3> HIDE DEF L
    <3>4. \A i \in DOMAIN pending_' : Timely(pending_'[i])
      BY <3>2, <3>3 DEF OnTime
    <3> QED
      BY <2>2, <3>1, <3>4 DEF OnTime
  <2>4. ASSUME NEW p \in Posters, Write(p) PROVE OnTime'
    <3>1. /\ \A q \in Posters : ppc'[q] \in {"idle", "write"}
                                \/ (ppc'[q] = ppc[q] /\ call'[q] = call[q])
          /\ Same /\ UNCHANGED <<pending_timers_, tasks, pending_>>
      BY <2>4 DEF Write, TypeOK, workerVars, historyVars
    <3> QED
      BY <2>2, <3>1 DEF OnTime
  <2>5. ASSUME NEW p \in Posters, ArmTimer(p) PROVE OnTime'
    <3> DEFINE new == [task |-> call[p].task, at |-> now + call[p].delay]
    <3>1. /\ Calling(p) /\ ppc[p] = "arm" /\ pending_timers_' = pending_timers_ \cup {new}
          /\ \A q \in Posters : ppc'[q] \in {"idle", "write"}
                                \/ (ppc'[q] = ppc[q] /\ call'[q] = call[q])
          /\ Same /\ UNCHANGED <<pending_, tasks>>
      BY <2>5 DEF ArmTimer, Calling, TypeOK, workerVars
    <3>2. /\ call[p] \in Closure /\ Timely(call[p]) /\ kind[call[p].task] = "delayed"
      BY <3>1, <2>0 DEF OnTime
    <3>3. new.at >= notBefore[new.task] /\ kind[new.task] = "delayed"
      BY <3>2, <2>0 DEF Timely
    <3> HIDE DEF new
    <3>4. \A timer \in pending_timers_' :
            kind[timer.task] = "delayed" /\ timer.at >= notBefore[timer.task]
      BY <3>1, <3>3 DEF OnTime
    <3> QED
      BY <2>2, <3>1, <3>4 DEF OnTime
  <2>6. CASE OnWakeup \/ EndBatch \/ RunTimer \/ DeleteQuit
    BY <2>2, <2>6
    DEF OnWakeup, EndBatch, RunTimer, DeleteQuit, OnTime, posterVars, historyVars, workerVars
  <2>7. CASE SwapPending
    BY <2>2, <2>7 DEF SwapPending, OnTime, posterVars, historyVars
  <2>8. CASE RunClosure
    <3> DEFINE c == Head(tasks)
               new == [task |-> c.task, at |-> now + Remaining(c)]
    <3>0. /\ kind[c.task] = "delayed" => pending_timers_' = pending_timers_ \cup {new}
          /\ kind[c.task] # "delayed" => pending_timers_' = pending_timers_
      BY <2>8 DEF RunClosure
    <3>1. /\ tasks # << >> /\ tasks' = Tail(tasks)
          /\ Same /\ UNCHANGED <<pending_, ppc, call>>
      BY <2>8 DEF RunClosure, posterVars
    <3>2. c \in Closure /\ Timely(c)
      <4>1. 1 \in DOMAIN tasks /\ c = tasks[1]
        BY <3>1 DEF TypeOK
      <4> QED
        BY <4>1, <2>0 DEF OnTime
    <3>3. \A i \in DOMAIN tasks' : i + 1 \in DOMAIN tasks /\ tasks'[i] = tasks[i + 1]
      BY <3>1 DEF TypeOK
    <3>4. \A i \in DOMAIN tasks' : Timely(tasks'[i])
      BY <3>3 DEF OnTime
    <3> HIDE DEF c
    <3>5. new.task = c.task /\ new.at >= notBefore[c.task]
      BY <3>2, <2>0 DEF Timely, Remaining
    <3> HIDE DEF new
    <3>6. \A timer \in pending_timers_' :
            kind[timer.task] = "delayed" /\ timer.at >= notBefore[timer.task]
      BY <3>0, <3>5 DEF OnTime
    <3> QED
      BY <2>2, <3>1, <3>4, <3>6 DEF OnTime
  <2>9. CASE FinishTask \/ FinishTimer
    BY <2>2, <2>9 DEF FinishTask, FinishTimer, Finish, OnTime, posterVars
  <2>10. CASE ExitLoop \/ DeleteJoin
    BY <2>2, <2>10 DEF ExitLoop, DeleteJoin, OnTime, posterVars, workerVars
  <2>11. CASE Tick
    <3>1. /\ now' = now + 1
          /\ UNCHANGED <<pending_, pending_timers_, tasks, ppc, call, kind, notBefore>>
      BY <2>11 DEF Tick, workerVars, posterVars, historyVars
    <3>2. \A c \in Closure : Timely(c) => notBefore'[c.task] = c.posted_us + c.delay
            /\ c.posted_us <= now' /\ kind'[c.task] \in {"immediate", "delayed"}
      BY <3>1, <2>0 DEF Timely
    <3>3. \A p \in Posters : Calling(p)' => Calling(p)
      BY <3>1 DEF Calling
    <3>4. \A t \in Tasks : kind[t] = "immediate" => notBefore[t] <= now'
      BY <3>1, <2>0 DEF OnTime, TypeOK
    <3>5. \A p \in Posters : Calling(p)' => Timely(call[p])'
      BY <2>0, <3>1, <3>2, <3>3 DEF OnTime, Timely
    <3>6. \A i \in DOMAIN pending_ : Timely(pending_[i])'
      BY <2>0, <3>1, <3>2 DEF OnTime, Timely
    <3>7. \A i \in DOMAIN tasks : Timely(tasks[i])'
      BY <2>0, <3>1, <3>2 DEF OnTime, Timely
    <3> QED
      BY <3>1, <3>4, <3>5, <3>6, <3>7 DEF OnTime
  <2>12. CASE UNCHANGED vars
    BY <2>12 DEF vars, OnTime, Timely, workerVars, posterVars, historyVars, Calling
  <2>13. ASSUME NEW p \in Posters, NEW t \in Tasks, PostTask(p, t) PROVE OnTime'
    BY <2>1, <2>13 DEF PostTask
  <2>14. ASSUME NEW p \in Posters, NEW t \in Tasks, NEW d \in Delays, PostDelayedTask(p, t, d)
         PROVE  OnTime'
    <3>1. d \in Nat
      BY TasksAssumption
    <3> QED
      BY <3>1, <2>1, <2>14 DEF PostDelayedTask
  <2> QED
    BY <2>3, <2>4, <2>5, <2>6, <2>7, <2>8, <2>9, <2>10, <2>11, <2>12, <2>13, <2>14
    DEF Next, Post, Poster, WorkerStep
<1> QED
  BY <1>1, <1>2, TypeCorrect, OnePlaceInvariant, PTL DEF Spec

-----------------------------------------------------------------------------
(* The contract of TaskQueueBase: its FIFO queue is what is seen of the     *)
(* closures that wait.                                                     *)
Named(queue) == [i \in DOMAIN queue |-> queue[i].task]
Immediates == {t \in Tasks : kind[t] = "immediate"}

LEMMA NamedTasks ==
  ASSUME NEW queue \in Seq(Closure)
  PROVE  /\ Named(queue) \in Seq(Tasks)
         /\ DOMAIN Named(queue) = DOMAIN queue
         /\ \A i \in DOMAIN queue : Named(queue)[i] = queue[i].task
<1>0. \A i \in DOMAIN queue : queue[i] \in Closure
  OBVIOUS
<1>1. \A i \in DOMAIN queue : queue[i].task \in Tasks
  BY <1>0 DEF Closure
<1>2. Len(queue) \in Nat /\ DOMAIN queue = 1 .. Len(queue)
  OBVIOUS
<1> QED
  BY <1>1, <1>2 DEF Named

LEMMA NamedPut ==
  ASSUME NEW queue \in Seq(Closure), NEW c \in Closure
  PROVE  Named(Append(queue, c)) = Append(Named(queue), c.task)
<1> DEFINE L == Len(queue) + 1
           more == Append(queue, c)
<1>1. /\ Len(queue) \in Nat /\ DOMAIN queue = 1 .. Len(queue) /\ DOMAIN more = 1 .. L
      /\ \A i \in 1 .. Len(queue) : more[i] = queue[i]
      /\ more[L] = c
  OBVIOUS
<1>2. Named(queue) \in Seq(Tasks) /\ Len(Named(queue)) = Len(queue)
  BY <1>1, NamedTasks
<1> HIDE DEF more
<1>3. Append(Named(queue), c.task)
        = [i \in 1 .. L |-> IF i = L THEN c.task ELSE Named(queue)[i]]
  BY <1>2
<1>4. \A i \in 1 .. L : i = L \/ i \in 1 .. Len(queue)
  BY <1>1
<1>5. \A i \in 1 .. L : more[i].task = IF i = L THEN c.task ELSE Named(queue)[i]
  <2>1. \A i \in 1 .. Len(queue) : Named(queue)[i] = queue[i].task /\ i # L
    BY <1>1, NamedTasks
  <2> QED
    BY <2>1, <1>1, <1>4
<1>6. Named(more) = [i \in 1 .. L |-> more[i].task]
  BY <1>1 DEF Named
<1> QED
  BY <1>3, <1>5, <1>6 DEF more

LEMMA NamedTake ==
  ASSUME NEW queue \in Seq(Closure), queue # << >>
  PROVE  /\ Named(queue) # << >>
         /\ Head(Named(queue)) = Head(queue).task
         /\ Tail(Named(queue)) = Named(Tail(queue))
<1> DEFINE n == Len(queue) - 1
           rest == Tail(queue)
           names == Named(queue)
<1>1. /\ n \in Nat /\ DOMAIN queue = 1 .. n + 1 /\ DOMAIN rest = 1 .. n
      /\ queue[1] = Head(queue)
      /\ \A i \in 1 .. n : rest[i] = queue[i + 1] /\ i + 1 \in 1 .. n + 1
  OBVIOUS
<1>2. names \in Seq(Tasks) /\ DOMAIN names = 1 .. n + 1
      /\ \A i \in 1 .. n + 1 : names[i] = queue[i].task
  BY <1>1, NamedTasks
<1> HIDE DEF rest, n, names
<1>3. Named(rest) = [i \in 1 .. n |-> rest[i].task]
  BY <1>1 DEF Named
<1>4. Len(names) = n + 1 /\ 1 \in 1 .. n + 1
  BY <1>1, <1>2
<1>5. names # << >> /\ Head(names) = names[1]
  BY <1>1, <1>2, <1>4
<1>6. Tail(names) = [i \in 1 .. n |-> names[i + 1]]
  <2> DEFINE last == Tail(names)
  <2>1. last \in Seq(Tasks) /\ Len(last) = n /\ \A i \in 1 .. n : last[i] = names[i + 1]
    BY <1>1, <1>2, <1>4, <1>5
  <2> HIDE DEF last
  <2>2. last = [i \in 1 .. n |-> last[i]]
    BY ONLY <2>1
  <2> QED
    BY <2>1, <2>2 DEF last
<1>7. \A i \in 1 .. n : names[i + 1] = rest[i].task
  BY <1>1, <1>2
<1> QED
  BY <1>1, <1>2, <1>3, <1>4, <1>5, <1>6, <1>7 DEF rest, names

LEMMA WaitingTasks ==
  ASSUME TypeOK
  PROVE  /\ tasks \o pending_ \in Seq(Closure)
         /\ Waiting = Named(tasks \o pending_)
         /\ Waiting \in Seq(Tasks)
         /\ \A i \in DOMAIN Waiting : In(tasks, Waiting[i]) \/ In(pending_, Waiting[i])
<1>1. tasks \in Seq(Closure) /\ pending_ \in Seq(Closure)
  BY DEF TypeOK
<1>2. tasks \o pending_ \in Seq(Closure)
  BY <1>1
<1>3. Waiting = Named(tasks \o pending_)
  BY DEF Waiting, Named
<1>4. ASSUME NEW i \in DOMAIN (tasks \o pending_)
      PROVE  \/ i \in DOMAIN tasks /\ (tasks \o pending_)[i] = tasks[i]
             \/ /\ i - Len(tasks) \in DOMAIN pending_
                /\ (tasks \o pending_)[i] = pending_[i - Len(tasks)]
  BY <1>1
<1>5. \A i \in DOMAIN (tasks \o pending_) :
        In(tasks, (tasks \o pending_)[i].task) \/ In(pending_, (tasks \o pending_)[i].task)
  BY <1>4 DEF In
<1> QED
  BY <1>2, <1>3, <1>5, NamedTasks

LEMMA ImmediateWaiting ==
  ASSUME TypeOK
  PROVE  /\ ImmediateTasks \in Seq(Tasks)
         /\ \A k \in DOMAIN ImmediateTasks :
              /\ kind[ImmediateTasks[k]] = "immediate"
              /\ In(tasks, ImmediateTasks[k]) \/ In(pending_, ImmediateTasks[k])
<1>1. Waiting \in Seq(Tasks) /\ ImmediateTasks = Only(Waiting, Immediates)
  BY WaitingTasks DEF ImmediateTasks, Immediates
<1>2. Tasks \cap Immediates = Immediates
  BY DEF Immediates
<1>3. ImmediateTasks \in Seq(Immediates)
  BY <1>1, <1>2, OnlyMembers
<1>4. \A k \in DOMAIN ImmediateTasks : ImmediateTasks[k] \in Immediates
  BY <1>3
<1>5. \A k \in DOMAIN ImmediateTasks : \E i \in DOMAIN Waiting : ImmediateTasks[k] = Waiting[i]
  <2>1. ASSUME NEW k \in DOMAIN Only(Waiting, Immediates)
        PROVE  \E i \in DOMAIN Waiting : Waiting[i] = Only(Waiting, Immediates)[k]
    <3>1. Waiting \in Seq(Tasks)
      BY <1>1
    <3> QED
      BY ONLY <3>1, k \in DOMAIN Only(Waiting, Immediates), OnlyFrom
  <2> QED
    BY <2>1, <1>1
<1>6. ImmediateTasks \in Seq(Tasks)
  BY <1>3 DEF Immediates
<1>7. \A k \in DOMAIN ImmediateTasks : kind[ImmediateTasks[k]] = "immediate"
  BY <1>4 DEF Immediates
<1> QED
  BY <1>5, <1>6, <1>7, WaitingTasks

LEMMA SameWaiting ==
  ASSUME TypeOK, Waiting' = Waiting,
         \A t \in Tasks : In(tasks, t) \/ In(pending_, t) => kind'[t] = kind[t]
  PROVE  ImmediateTasks' = ImmediateTasks
<1>1. \A i \in DOMAIN Waiting : Waiting[i] \in Immediates' <=> Waiting[i] \in Immediates
  BY WaitingTasks DEF Immediates
<1>2. Only(Waiting, Immediates') = Only(Waiting, Immediates)
  BY <1>1, OnlySame
<1>3. ImmediateTasks = Only(Waiting, Immediates) /\ ImmediateTasks' = Only(Waiting', Immediates')
  BY DEF ImmediateTasks, Immediates
<1> QED
  BY <1>2, <1>3

QueueInv == OnePlace /\ QuietAfterDelete /\ RunsOneTask /\ OnTime

LEMMA BeginIsCall ==
  ASSUME TypeOK, QueueInv,
         NEW p \in Posters, NEW t \in Tasks, NEW k, NEW d, NEW step, BeginCall(p, t, k, d, step)
  PROVE  Contract!Call(t, k, d)
<1>1. Deletion = "live" \/ (Deletion = "deleting" /\ Contract!Busy)
  <2>1. CASE p = Worker
    <3>1. wpc \in {"run", "timer"}
      BY <2>1 DEF BeginCall, MayPost
    <3>2. run_task \in Tasks /\ fate[run_task] = "running" /\ dpc # "deleted"
      BY <3>1 DEF TypeOK, QueueInv, OnePlace, RunsOneTask
    <3> QED
      BY <3>2 DEF Contract!Busy, Deletion, TypeOK
  <2>2. CASE p # Worker
    BY <2>2 DEF BeginCall, MayPost, Deletion
  <2> QED
    BY <2>1, <2>2
<1>2. UNCHANGED <<tasks, pending_, dpc, now>> /\ fate[t] = "new"
      /\ kind' = [kind EXCEPT ![t] = k]
  BY DEF BeginCall, workerVars
<1>3. ImmediateTasks' = ImmediateTasks
  <2>1. \A u \in Tasks : In(tasks, u) \/ In(pending_, u) => kind'[u] = kind[u]
    BY <1>2 DEF QueueInv, OnePlace, TypeOK
  <2>2. Waiting' = Waiting
    BY <1>2 DEF Waiting
  <2> QED
    BY <2>1, <2>2, SameWaiting
<1>4. Deletion' = Deletion
  BY <1>2 DEF Deletion
<1> QED
  BY <1>1, <1>2, <1>3, <1>4 DEF BeginCall, Contract!Call

LEMMA PushIsAccept ==
  ASSUME TypeOK, QueueInv, NEW p \in Posters, Push(p)
  PROVE  Contract!Accept(call[p].task)
<1> DEFINE t == call[p].task
<1>1. /\ call[p] \in Closure /\ t \in Tasks /\ fate[t] = "calling"
      /\ kind[t] \in {"immediate", "delayed"}
  BY DEF Push, TypeOK, Calling, QueueInv, OnePlace, OnTime, Timely, Closure
<1>2. /\ fate' = [fate EXCEPT ![t] = "queued"] /\ pending_' = Append(pending_, call[p])
      /\ UNCHANGED <<now, kind, notBefore, dpc, tasks>>
  BY DEF Push, workerVars
<1>3. Waiting \in Seq(Tasks) /\ Waiting' = Append(Waiting, t)
  <2>1. tasks' \o pending_' = Append(tasks \o pending_, call[p])
    BY <1>1, <1>2 DEF TypeOK
  <2>2. Waiting' = Named(tasks' \o pending_')
    BY DEF Waiting, Named
  <2> QED
    BY <2>1, <2>2, <1>1, WaitingTasks, NamedPut
<1>4. ImmediateTasks' = Only(Append(Waiting, t), Immediates)
      /\ ImmediateTasks = Only(Waiting, Immediates)
  BY <1>2, <1>3 DEF ImmediateTasks, Immediates
<1>5. ImmediateTasks' = IF t \in Immediates THEN Append(ImmediateTasks, t) ELSE ImmediateTasks
  <2>1. Only(Append(Waiting, t), Immediates)
          = IF t \in Immediates THEN Append(Only(Waiting, Immediates), t)
                                ELSE Only(Waiting, Immediates)
    <3>1. Waiting \in Seq(Tasks) /\ t \in Tasks
      BY <1>1, <1>3
    <3> HIDE DEF t
    <3> QED
      BY ONLY <3>1, OnlyAppend
  <2> QED
    BY <2>1, <1>4
<1>6. t \in Immediates <=> kind[t] = "immediate"
  BY <1>1 DEF Immediates
<1> QED
  BY <1>1, <1>2, <1>5, <1>6 DEF Contract!Accept, Deletion

LEMMA ArmIsAccept ==
  ASSUME TypeOK, QueueInv, NEW p \in Posters, ArmTimer(p)
  PROVE  Contract!Accept(call[p].task)
<1> DEFINE t == call[p].task
<1>1. fate[t] = "calling" /\ kind[t] = "delayed"
  BY DEF ArmTimer, Calling, QueueInv, OnePlace, OnTime
<1>2. /\ fate' = [fate EXCEPT ![t] = "queued"]
      /\ UNCHANGED <<now, kind, notBefore, dpc, tasks, pending_>>
  BY DEF ArmTimer, workerVars
<1>3. ImmediateTasks' = ImmediateTasks
  BY <1>2 DEF ImmediateTasks, Waiting
<1> QED
  BY <1>1, <1>2, <1>3 DEF Contract!Accept, Deletion

(* Nothing runs, and Delete has not returned, while the loop may start a   *)
(* task.                                                                   *)
LEMMA ReadyToStart ==
  ASSUME TypeOK, QueueInv, wpc \in {"batch", "loop"}
  PROVE  ~Contract!Busy /\ Deletion # "deleted"
BY DEF QueueInv, RunsOneTask, Contract!Busy, Deletion, TypeOK

LEMMA ClosureIsStart ==
  ASSUME TypeOK, QueueInv, RunClosure
  PROVE  (\E t \in Tasks : Contract!Start(t)) \/ UNCHANGED Contract!vars
<1> DEFINE c == Head(tasks)
           t == c.task
<1>1. /\ wpc = "batch" /\ tasks # << >> /\ tasks' = Tail(tasks)
      /\ UNCHANGED <<pending_, now, kind, notBefore, dpc>>
  BY DEF RunClosure, posterVars
<1>2. c \in Closure /\ t \in Tasks /\ In(tasks, t) /\ Timely(c)
  <2>1. tasks \in Seq(Closure) /\ 1 \in DOMAIN tasks /\ c = tasks[1]
    BY <1>1 DEF TypeOK
  <2> QED
    BY <2>1, <1>1, TakeFirst DEF QueueInv, OnTime, Closure
<1>3. fate[t] = "queued" /\ kind[t] \in {"immediate", "delayed"}
  BY <1>2 DEF QueueInv, OnePlace, Timely
<1>4. /\ Waiting \in Seq(Tasks) /\ Waiting # << >> /\ Head(Waiting) = t
      /\ Waiting' = Tail(Waiting)
  <2> DEFINE all == tasks \o pending_
  <2>1. /\ all \in Seq(Closure) /\ all # << >> /\ Head(all) = c
        /\ tasks' \o pending_' = Tail(all)
    <3>1. tasks \in Seq(Closure) /\ pending_ \in Seq(Closure)
      BY DEF TypeOK
    <3>2. all \in Seq(Closure) /\ Len(all) = Len(tasks) + Len(pending_) /\ Len(tasks) > 0
      BY <1>1, <3>1
    <3>3. all # << >> /\ Head(all) = c
      BY <1>1, <3>1, <3>2
    <3>4. Tail(tasks) \o pending_ = Tail(all)
      BY <1>1, <3>1
    <3> QED
      BY <1>1, <3>2, <3>3, <3>4
  <2>2. Waiting = Named(all) /\ Waiting' = Named(tasks' \o pending_')
    BY DEF Waiting, Named
  <2> HIDE DEF all
  <2> QED
    BY <2>1, <2>2, NamedTake, NamedTasks
<1>5. /\ ImmediateTasks = Only(Waiting, Immediates)
      /\ ImmediateTasks' = Only(Tail(Waiting), Immediates)
  BY <1>1, <1>4 DEF ImmediateTasks, Immediates
<1>6. t \in Immediates <=> kind[t] = "immediate"
  BY <1>2 DEF Immediates
<1>7. CASE kind[t] = "delayed"
  <2>1. fate' = fate
    BY <1>7 DEF RunClosure
  <2>2. ImmediateTasks' = ImmediateTasks
    BY <1>4, <1>5, <1>6, <1>7, OnlyTake
  <2> QED
    BY <1>1, <2>1, <2>2 DEF Contract!vars, Deletion
<1>8. CASE kind[t] = "immediate"
  <2>1. fate' = [fate EXCEPT ![t] = "running"]
    BY <1>8 DEF RunClosure
  <2>2. ImmediateTasks # << >> /\ t = Head(ImmediateTasks) /\ ImmediateTasks' = Tail(ImmediateTasks)
    BY <1>4, <1>5, <1>6, <1>8, OnlyTake
  <2>3. now >= notBefore[t]
    BY <1>2, <1>8 DEF QueueInv, OnTime, TypeOK
  <2>4. ~Contract!Busy /\ Deletion # "deleted"
    BY <1>1, ReadyToStart
  <2> HIDE DEF t
  <2>5. Contract!Start(t)
    BY <1>1, <1>3, <1>8, <2>1, <2>2, <2>3, <2>4 DEF Contract!Start, Deletion
  <2> QED
    BY <1>2, <2>5
<1> QED
  BY <1>3, <1>7, <1>8

LEMMA TimerIsStart ==
  ASSUME TypeOK, QueueInv, RunTimer
  PROVE  \E t \in Tasks : Contract!Start(t)
<1>1. PICK timer \in pending_timers_ :
        now >= timer.at /\ fate' = [fate EXCEPT ![timer.task] = "running"]
  BY DEF RunTimer
<1> DEFINE t == timer.task
<1>2. wpc = "loop" /\ UNCHANGED <<pending_, tasks, now, kind, notBefore, dpc>>
  BY DEF RunTimer
<1>3. t \in Tasks /\ fate[t] = "queued" /\ kind[t] = "delayed" /\ notBefore[t] <= timer.at
      /\ timer.at \in Nat
  BY <1>2 DEF TypeOK, Timer, QueueInv, OnePlace, TimersAlive, OnTime
<1>4. now >= notBefore[t]
  BY <1>1, <1>3 DEF TypeOK
<1>5. ImmediateTasks' = ImmediateTasks
  BY <1>2 DEF ImmediateTasks, Waiting
<1>6. ~Contract!Busy /\ Deletion # "deleted"
  BY <1>2, ReadyToStart
<1> HIDE DEF t
<1>7. Contract!Start(t)
  BY <1>1, <1>2, <1>3, <1>4, <1>5, <1>6 DEF Contract!Start, Deletion, t
<1> QED
  BY <1>3, <1>7

LEMMA FinishIsFinish ==
  ASSUME TypeOK, QueueInv, FinishTask \/ FinishTimer
  PROVE  \E t \in Tasks : Contract!Finish(t)
<1>1. /\ wpc \in {"run", "timer"} /\ fate' = [fate EXCEPT ![run_task] = "run"]
      /\ UNCHANGED <<pending_, tasks, now, kind, notBefore, dpc>>
  BY DEF FinishTask, FinishTimer, Finish
<1>2. run_task \in Tasks /\ fate[run_task] = "running"
  BY <1>1 DEF TypeOK, QueueInv, OnePlace
<1>3. ImmediateTasks' = ImmediateTasks
  BY <1>1 DEF ImmediateTasks, Waiting
<1>4. Contract!Finish(run_task)
  BY <1>1, <1>2, <1>3 DEF Contract!Finish, Deletion
<1> QED
  BY <1>2, <1>4

LEMMA SwapIsStutter ==
  ASSUME TypeOK, QueueInv, SwapPending
  PROVE  UNCHANGED Contract!vars
<1>1. /\ wpc = "swap" /\ tasks' = pending_ /\ pending_' = << >>
      /\ UNCHANGED <<now, fate, kind, notBefore, dpc>>
  BY DEF SwapPending, historyVars
<1>2. tasks = << >>
  BY <1>1 DEF QueueInv, RunsOneTask
<1>3. tasks' \o pending_' = tasks \o pending_
  BY <1>1, <1>2 DEF TypeOK
<1>4. ImmediateTasks' = ImmediateTasks
  BY <1>1, <1>3 DEF ImmediateTasks, Waiting
<1> QED
  BY <1>1, <1>4 DEF Contract!vars, Deletion

LEMMA ExitIsDestroy ==
  ASSUME TypeOK, QueueInv, ExitLoop
  PROVE  \E S \in SUBSET Tasks : Contract!Destroy(S)
<1> DEFINE S == {t \in Tasks : \E timer \in pending_timers_ : timer.task = t}
<1>1. /\ wpc = "exit" /\ UNCHANGED <<pending_, tasks, now, kind, notBefore, dpc>>
      /\ fate' = [t \in Tasks |-> IF t \in S THEN "destroyed" ELSE fate[t]]
  BY DEF ExitLoop
<1>2. Deletion # "live" /\ Deletion' = Deletion
  BY <1>1 DEF QueueInv, RunsOneTask, Deletion, TypeOK
<1>3. \A t \in S : fate[t] = "queued" /\ kind[t] = "delayed"
  BY <1>1 DEF QueueInv, OnePlace, TimersAlive, OnTime
<1>4. ImmediateTasks' = ImmediateTasks
  BY <1>1 DEF ImmediateTasks, Waiting
<1>5. S \in SUBSET Tasks /\ S \subseteq {t \in Tasks : fate[t] = "queued"}
  BY <1>3
<1> HIDE DEF S
<1>6. \A k \in DOMAIN ImmediateTasks : ImmediateTasks[k] \notin S
  BY <1>3, ImmediateWaiting
<1>7. Contract!IsRest(ImmediateTasks, ImmediateTasks, S)
  BY <1>6 DEF Contract!IsRest
<1>8. Contract!Destroyed(S)
  BY <1>1, <1>4, <1>5, <1>7, ImmediateWaiting DEF Contract!Destroyed
<1>9. Contract!Destroy(S)
  BY <1>1, <1>2, <1>8 DEF Contract!Destroy
<1> QED
  BY <1>5, <1>9

LEMMA JoinIsDeleteReturns ==
  ASSUME TypeOK, QueueInv, DeleteJoin
  PROVE  \E S \in SUBSET Tasks : Contract!DeleteReturns(S)
<1> DEFINE S == {t \in Tasks : In(pending_, t)}
<1>1. /\ wpc = "exited" /\ dpc = "join" /\ dpc' = "deleted" /\ pending_' = << >>
      /\ UNCHANGED <<tasks, now, kind, notBefore>>
      /\ fate' = [t \in Tasks |-> IF t \in S THEN "destroyed" ELSE fate[t]]
  BY DEF DeleteJoin, workerVars, In
<1>2. tasks = << >>
  BY <1>1 DEF QueueInv, RunsOneTask
<1>3. Deletion = "deleting" /\ Deletion' = "deleted"
  BY <1>1 DEF Deletion
<1>4. \A t \in Tasks : fate[t] \notin {"running", "calling"}
  <2>1. \A p \in Posters : ~Calling(p)
    BY <1>1 DEF QueueInv, QuietAfterDelete, Calling, Posters
  <2> QED
    BY <1>1, <2>1 DEF QueueInv, RunsOneTask
<1>5. S \in SUBSET Tasks /\ S \subseteq {t \in Tasks : fate[t] = "queued"}
  BY DEF QueueInv, OnePlace
<1> HIDE DEF S
<1>6. ImmediateTasks' \in Seq(Tasks) /\ DOMAIN ImmediateTasks' = {}
  <2>1. Waiting' = [i \in DOMAIN (<< >> \o << >>) |-> (<< >> \o << >>)[i].task]
    BY <1>1, <1>2 DEF Waiting
  <2>2. Waiting' = << >> /\ Waiting' \in Seq(Tasks) /\ DOMAIN Waiting' = {}
    BY <2>1
  <2>3. ImmediateTasks' = Only(Waiting', Immediates')
    BY DEF ImmediateTasks, Immediates
  <2>4. /\ Only(Waiting', Immediates') \in Seq(Tasks \cap Immediates')
        /\ \A k \in DOMAIN Only(Waiting', Immediates') : \E i \in DOMAIN Waiting' : TRUE
    BY <2>2, OnlyMembers
  <2>5. DOMAIN ImmediateTasks' = {}
    BY <2>2, <2>3, <2>4
  <2>6. ImmediateTasks' \in Seq(Tasks)
    BY <2>3, <2>4
  <2> QED
    BY <2>5, <2>6
<1>7. \A k \in DOMAIN ImmediateTasks : ImmediateTasks[k] \in S
  <2>1. \A t : ~In(tasks, t)
    BY <1>2 DEF In
  <2>2. ImmediateTasks \in Seq(Tasks)
        /\ \A k \in DOMAIN ImmediateTasks : In(pending_, ImmediateTasks[k])
    BY <2>1, ImmediateWaiting
  <2> QED
    BY <2>2 DEF S
<1>8. Contract!IsRest(ImmediateTasks', ImmediateTasks, S)
  BY <1>6, <1>7 DEF Contract!IsRest
<1>9. Contract!Destroyed(S)
  BY <1>1, <1>5, <1>6, <1>8 DEF Contract!Destroyed
<1>10. Contract!DeleteReturns(S)
  BY <1>1, <1>3, <1>4, <1>9 DEF Contract!DeleteReturns
<1> QED
  BY <1>5, <1>10

(* Every step of the queue is a step of the contract, or changes nothing   *)
(* the contract speaks of.                                                 *)
LEMMA StepIsContractStep ==
  ASSUME TypeOK, QueueInv, [Next]_vars
  PROVE  [Contract!Next]_Contract!vars
<1> DEFINE Stutter == UNCHANGED Contract!vars
<1>0. UNCHANGED <<now, fate, kind, pending_, tasks, notBefore, dpc>> => Stutter
  BY DEF Contract!vars, ImmediateTasks, Waiting, Deletion
<1>1. ASSUME NEW p \in Posters, NEW t \in Tasks, PostTask(p, t) PROVE Contract!Next
  BY <1>1, BeginIsCall DEF PostTask, Contract!Next
<1>2. ASSUME NEW p \in Posters, NEW t \in Tasks, NEW d \in Delays, PostDelayedTask(p, t, d)
      PROVE  Contract!Next
  BY <1>2, BeginIsCall DEF PostDelayedTask, Contract!Next
<1>3. ASSUME NEW p \in Posters, Push(p) \/ ArmTimer(p) PROVE Contract!Next
  <2>1. call[p].task \in Tasks
    BY <1>3 DEF Push, ArmTimer, TypeOK, Closure
  <2> QED
    BY <1>3, <2>1, PushIsAccept, ArmIsAccept DEF Contract!Next
<1>4. ASSUME NEW p \in Posters, Write(p) PROVE Stutter
  BY <1>4, <1>0 DEF Write, workerVars, historyVars
<1>5. CASE OnWakeup
  BY <1>5, <1>0 DEF OnWakeup, historyVars
<1>6. CASE SwapPending
  BY <1>6, SwapIsStutter
<1>7. CASE RunClosure
  BY <1>7, ClosureIsStart DEF Contract!Next
<1>8. CASE EndBatch
  BY <1>8, <1>0 DEF EndBatch, historyVars
<1>9. CASE FinishTask \/ FinishTimer
  BY <1>9, FinishIsFinish DEF Contract!Next
<1>10. CASE RunTimer
  BY <1>10, TimerIsStart DEF Contract!Next
<1>11. CASE ExitLoop
  BY <1>11, ExitIsDestroy DEF Contract!Next
<1>12. CASE DeleteQuit
  BY <1>12 DEF DeleteQuit, workerVars, historyVars, ImmediateTasks, Waiting, Deletion,
     Contract!Next, Contract!DeleteCalled
<1>13. CASE DeleteJoin
  BY <1>13, JoinIsDeleteReturns DEF Contract!Next
<1>14. CASE Tick
  BY <1>14 DEF Tick, workerVars, historyVars, ImmediateTasks, Waiting, Deletion,
     Contract!Next, Contract!Tick
<1>15. CASE UNCHANGED vars
  BY <1>15, <1>0 DEF vars, workerVars, historyVars
<1> QED
  BY <1>1, <1>2, <1>3, <1>4, <1>5, <1>6, <1>7, <1>8, <1>9, <1>10, <1>11, <1>12, <1>13, <1>14,
     <1>15
  DEF Next, Post, Poster, WorkerStep

(* What TaskQueueBase promises to the code that posts to it holds of       *)
(* libevent's queue.                                                       *)
THEOREM ContractIsKept == Spec => ImplementsTaskQueueBase
<1>1. Init => Contract!Init
  <2> SUFFICES ASSUME Init PROVE Contract!Init
    OBVIOUS
  <2>1. Waiting = [i \in DOMAIN (<< >> \o << >>) |-> (<< >> \o << >>)[i].task]
    BY DEF Init, Waiting
  <2>2. Waiting = << >> /\ Waiting \in Seq(Tasks) /\ DOMAIN Waiting = {}
    BY <2>1
  <2>3. ImmediateTasks = Only(Waiting, Immediates)
    BY DEF ImmediateTasks, Immediates
  <2>4. /\ Only(Waiting, Immediates) \in Seq(Tasks \cap Immediates)
        /\ \A k \in DOMAIN Only(Waiting, Immediates) : \E i \in DOMAIN Waiting : TRUE
    BY <2>2, OnlyMembers
  <2>5. DOMAIN ImmediateTasks = {}
    BY <2>2, <2>3, <2>4
  <2>6. ImmediateTasks \in Seq(Tasks)
    BY <2>3, <2>4
  <2>7. ImmediateTasks = << >>
    BY <2>5, <2>6
  <2> QED
    BY <2>7 DEF Init, Contract!Init, Deletion
<1>2. TypeOK /\ QueueInv /\ [Next]_vars => [Contract!Next]_Contract!vars
  BY StepIsContractStep
<1>3. Spec => []QueueInv
  BY OnePlaceInvariant, QuietInvariant, RunsOneTaskInvariant, OnTimeInvariant, PTL DEF QueueInv
<1> QED
  BY <1>1, <1>2, <1>3, TypeCorrect, PTL DEF Spec, ImplementsTaskQueueBase, Contract!Spec

-----------------------------------------------------------------------------
(* libdispatch's queue: its blocks are tasks, once each, and Delete's.     *)
GcdCall == [task : OtherTasks \cup {G!Nothing}, delay : Nat]
GcdAfter == [task : OtherTasks, at : Nat]

GcdTypeOK ==
  /\ gcd_is_active_ \in BOOLEAN
  /\ gcd_blocks \in Seq(OtherTasks \cup {G!Sync})
  /\ gcd_after \subseteq GcdAfter
  /\ gcd_block \in OtherTasks \cup {G!Nothing}
  /\ gcd_now \in Nat
  /\ gcd_ppc \in [G!Posters -> {"idle", "immediate", "delayed"}]
  /\ gcd_call \in [G!Posters -> GcdCall]
  /\ \A p \in G!Posters : gcd_ppc[p] # "idle" => gcd_call[p].task \in OtherTasks
  /\ gcd_dpc \in {"live", "sync", "deleted"}
  /\ gcd_fate \in [OtherTasks -> {"new", "calling", "queued", "running", "run", "destroyed"}]
  /\ gcd_kind \in [OtherTasks -> {"none", "immediate", "delayed"}]
  /\ gcd_notBefore \in [OtherTasks -> Nat]

LEMMA GcdTypeCorrect == G!Spec => []GcdTypeOK
<1>1. G!Init => GcdTypeOK
  <2> SUFFICES ASSUME G!Init PROVE GcdTypeOK
    OBVIOUS
  <2>1. gcd_blocks \in Seq(OtherTasks \cup {G!Sync})
    BY DEF G!Init
  <2> QED
    BY <2>1 DEF G!Init, G!NoCall, GcdTypeOK, GcdCall
<1>2. GcdTypeOK /\ [G!Next]_G!vars => GcdTypeOK'
  <2> SUFFICES ASSUME GcdTypeOK, [G!Next]_G!vars PROVE GcdTypeOK'
    OBVIOUS
  <2>1. ASSUME NEW p \in G!Posters, NEW t \in OtherTasks, NEW k \in {"immediate", "delayed"},
               NEW d \in Nat, G!BeginCall(p, t, k, d)
        PROVE  GcdTypeOK'
    BY <2>1 DEF G!BeginCall, G!queueVars, GcdTypeOK, GcdCall
  <2>2. ASSUME NEW p \in G!Posters, G!PostTask(p) PROVE GcdTypeOK'
    <3>1. gcd_call[p].task \in OtherTasks
      BY <2>2 DEF G!PostTask, GcdTypeOK
    <3>2. gcd_blocks' \in Seq(OtherTasks \cup {G!Sync})
      BY <2>2, <3>1 DEF G!PostTask, GcdTypeOK
    <3> QED
      BY <2>2, <3>1, <3>2 DEF G!PostTask, G!Submitted, G!historyVars, G!NoCall, GcdTypeOK, GcdCall
  <2>3. ASSUME NEW p \in G!Posters, G!PostDelayedTask(p) PROVE GcdTypeOK'
    <3>1. gcd_call[p].task \in OtherTasks /\ gcd_now + gcd_call[p].delay \in Nat
      BY <2>3 DEF G!PostDelayedTask, GcdTypeOK, GcdCall
    <3> QED
      BY <2>3, <3>1
      DEF G!PostDelayedTask, G!Submitted, G!historyVars, G!NoCall, GcdTypeOK, GcdCall, GcdAfter
  <2>4. CASE G!TimeComes
    <3>1. PICK a \in gcd_after :
            gcd_after' = gcd_after \ {a} /\ gcd_blocks' = Append(gcd_blocks, a.task)
      BY <2>4 DEF G!TimeComes
    <3>2. gcd_blocks' \in Seq(OtherTasks \cup {G!Sync})
      BY <3>1 DEF GcdTypeOK, GcdAfter
    <3> QED
      BY <2>4, <3>1, <3>2 DEF G!TimeComes, G!historyVars, GcdTypeOK
  <2>5. CASE G!RunTask
    <3>1. gcd_blocks' \in Seq(OtherTasks \cup {G!Sync}) /\ Head(gcd_blocks) \in OtherTasks
      BY <2>5 DEF G!RunTask, GcdTypeOK
    <3> QED
      BY <2>5, <3>1 DEF G!RunTask, G!historyVars, GcdTypeOK
  <2>6. CASE G!FinishTask
    BY <2>6 DEF G!FinishTask, G!historyVars, GcdTypeOK
  <2>7. CASE G!Delete
    <3>1. gcd_blocks' \in Seq(OtherTasks \cup {G!Sync})
      BY <2>7 DEF G!Delete, GcdTypeOK
    <3> QED
      BY <2>7, <3>1 DEF G!Delete, G!historyVars, GcdTypeOK
  <2>8. CASE G!SetNotActive
    <3>1. gcd_blocks' \in Seq(OtherTasks \cup {G!Sync})
      BY <2>8 DEF G!SetNotActive, GcdTypeOK
    <3> QED
      BY <2>8, <3>1 DEF G!SetNotActive, G!historyVars, GcdTypeOK
  <2>9. CASE G!DeleteQueue \/ G!Tick \/ UNCHANGED G!vars
    BY <2>9 DEF G!DeleteQueue, G!Tick, G!vars, G!queueVars, G!historyVars, GcdTypeOK
  <2>10. \A d \in Delays : d \in Nat
    BY TasksAssumption
  <2> QED
    BY <2>1, <2>2, <2>3, <2>4, <2>5, <2>6, <2>7, <2>8, <2>9, <2>10 DEF G!Next
<1> QED
  BY <1>1, <1>2, PTL DEF G!Spec

(* A task is in one place: a call, a timer of libdispatch, a block or the  *)
(* one that runs.                                                          *)
GcdIn(t) == \E i \in DOMAIN gcd_blocks : gcd_blocks[i] = t
GcdOnce == \A i, j \in DOMAIN gcd_blocks : gcd_blocks[i] = gcd_blocks[j] => i = j
GcdCalling(p) == gcd_ppc[p] # "idle"

GcdOnePlace ==
  /\ \A p \in G!Posters : GcdCalling(p) => gcd_fate[gcd_call[p].task] = "calling"
  /\ \A p, q \in G!Posters :
       GcdCalling(p) /\ GcdCalling(q) /\ gcd_call[p].task = gcd_call[q].task => p = q
  /\ \A t \in OtherTasks :
       gcd_fate[t] = "calling" => \E p \in G!Posters : GcdCalling(p) /\ gcd_call[p].task = t
  /\ \A a \in gcd_after : gcd_fate[a.task] = "queued" /\ ~GcdIn(a.task)
  /\ \A a, b \in gcd_after : a.task = b.task => a = b
  /\ GcdOnce
  /\ \A t \in OtherTasks : GcdIn(t) => gcd_fate[t] = "queued"
  /\ \A t \in OtherTasks : gcd_fate[t] = "running" <=> gcd_block = t

(* Nothing is early, and an immediate task waits among the blocks only.    *)
GcdOnTime ==
  /\ \A p \in G!Posters : GcdCalling(p) =>
       /\ gcd_kind[gcd_call[p].task] = gcd_ppc[p]
       /\ gcd_notBefore[gcd_call[p].task] <= gcd_now + gcd_call[p].delay
       /\ gcd_ppc[p] = "immediate" => gcd_call[p].delay = 0
  /\ \A a \in gcd_after :
       gcd_kind[a.task] = "delayed" /\ gcd_notBefore[a.task] <= a.at
  /\ \A t \in OtherTasks : GcdIn(t) =>
       gcd_kind[t] \in {"immediate", "delayed"} /\ gcd_notBefore[t] <= gcd_now

(* How far Delete has come: its block is the last thing it waits for.      *)
GcdDeletion ==
  /\ gcd_is_active_ <=> gcd_dpc # "deleted"
  /\ gcd_dpc = "deleted" => gcd_block = G!Nothing
  /\ GcdIn(G!Sync) => gcd_dpc = "sync"
  /\ gcd_dpc # "live" => \A p \in Threads : gcd_ppc[p] = "idle"
  /\ gcd_ppc[Worker] # "idle" => gcd_block \in OtherTasks

GcdInv == GcdOnePlace /\ GcdOnTime /\ GcdDeletion

LEMMA GcdPut ==
  ASSUME GcdTypeOK, NEW x \in OtherTasks \cup {G!Sync}, gcd_blocks' = Append(gcd_blocks, x)
  PROVE  /\ \A t : GcdIn(t)' <=> GcdIn(t) \/ t = x
         /\ GcdOnce /\ ~GcdIn(x) => GcdOnce'
<1> DEFINE L == Len(gcd_blocks) + 1
<1>1. gcd_blocks \in Seq(OtherTasks \cup {G!Sync})
  BY DEF GcdTypeOK
<1>2. /\ DOMAIN gcd_blocks' = DOMAIN gcd_blocks \cup {L}
      /\ gcd_blocks'[L] = x
      /\ \A i \in DOMAIN gcd_blocks : gcd_blocks'[i] = gcd_blocks[i] /\ i # L
  BY <1>1
<1> HIDE DEF L
<1>3. \A t : GcdIn(t)' <=> GcdIn(t) \/ t = x
  BY <1>2 DEF GcdIn
<1>4. GcdOnce /\ ~GcdIn(x) => GcdOnce'
  BY <1>2 DEF GcdIn, GcdOnce
<1> QED
  BY <1>3, <1>4

LEMMA GcdTake ==
  ASSUME GcdTypeOK, GcdOnce, gcd_blocks # << >>, gcd_blocks' = Tail(gcd_blocks),
         NEW h, h = Head(gcd_blocks)
  PROVE  /\ GcdIn(h) /\ ~GcdIn(h)'
         /\ \A t : GcdIn(t)' => GcdIn(t)
         /\ GcdOnce'
<1>1. gcd_blocks \in Seq(OtherTasks \cup {G!Sync})
  BY DEF GcdTypeOK
<1>2. /\ 1 \in DOMAIN gcd_blocks /\ gcd_blocks[1] = h
      /\ \A i \in DOMAIN gcd_blocks' :
           i + 1 \in DOMAIN gcd_blocks /\ gcd_blocks'[i] = gcd_blocks[i + 1] /\ i + 1 # 1
      /\ \A i, j \in DOMAIN gcd_blocks' : i + 1 = j + 1 => i = j
  BY <1>1
<1>3. GcdIn(h)
  BY <1>2 DEF GcdIn
<1>4. ~GcdIn(h)'
  <2>1. \A i \in DOMAIN gcd_blocks' : gcd_blocks'[i] # h
    BY <1>2 DEF GcdOnce
  <2> QED
    BY <2>1 DEF GcdIn
<1>5. \A t : GcdIn(t)' => GcdIn(t)
  BY <1>2 DEF GcdIn
<1>6. GcdOnce'
  BY <1>2 DEF GcdOnce
<1> QED
  BY <1>3, <1>4, <1>5, <1>6

LEMMA GcdInvariant == G!Spec => []GcdInv
<1>0. G!Sync \notin OtherTasks /\ G!Nothing \notin OtherTasks /\ G!Nothing # G!Sync
  BY OtherTasksAssumption DEF G!Sync, G!Nothing
<1>1. G!Init => GcdInv
  <2> SUFFICES ASSUME G!Init PROVE GcdInv
    OBVIOUS
  <2>1. /\ \A u : ~GcdIn(u)
        /\ \A p \in G!Posters : ~GcdCalling(p)
        /\ gcd_after = {} /\ gcd_block = G!Nothing /\ gcd_is_active_ = TRUE /\ gcd_dpc = "live"
        /\ \A t \in OtherTasks : gcd_fate[t] = "new"
    BY DEF G!Init, GcdIn, GcdCalling
  <2>2. GcdOnce /\ gcd_ppc[Worker] = "idle"
    BY DEF G!Init, GcdOnce, G!Posters
  <2> QED
    BY <1>0, <2>1, <2>2 DEF GcdInv, GcdOnePlace, GcdOnTime, GcdDeletion
<1>2. GcdTypeOK /\ GcdInv /\ [G!Next]_G!vars => GcdInv'
  <2> SUFFICES ASSUME GcdTypeOK, GcdInv, [G!Next]_G!vars PROVE GcdInv'
    OBVIOUS
  <2>0. /\ \A a \in gcd_after : a.task \in OtherTasks /\ a.at \in Nat
        /\ \A p \in G!Posters : GcdCalling(p) => gcd_call[p].task \in OtherTasks
        /\ \A p \in G!Posters : gcd_call[p].delay \in Nat
        /\ gcd_now \in Nat
    BY DEF GcdTypeOK, GcdCalling, GcdCall, GcdAfter
  <2>1. ASSUME NEW p \in G!Posters, NEW t \in OtherTasks, NEW k \in {"immediate", "delayed"},
               NEW d \in Nat, G!BeginCall(p, t, k, d), k = "immediate" => d = 0
        PROVE  GcdInv'
    <3>1. /\ gcd_fate[t] = "new" /\ gcd_ppc[p] = "idle" /\ G!MayPost(p)
          /\ gcd_fate'[t] = "calling" /\ gcd_kind'[t] = k /\ gcd_notBefore'[t] = gcd_now + d
          /\ \A u \in OtherTasks \ {t} : /\ gcd_fate'[u] = gcd_fate[u]
                                         /\ gcd_kind'[u] = gcd_kind[u]
                                         /\ gcd_notBefore'[u] = gcd_notBefore[u]
          /\ UNCHANGED <<gcd_blocks, gcd_after, gcd_block, gcd_now, gcd_dpc, gcd_is_active_>>
      BY <2>1 DEF G!BeginCall, G!queueVars, GcdTypeOK
    <3>2. /\ ~GcdCalling(p) /\ GcdCalling(p)' /\ gcd_ppc'[p] = k
          /\ gcd_call'[p].task = t /\ gcd_call'[p].delay = d
          /\ \A q \in G!Posters \ {p} : gcd_ppc'[q] = gcd_ppc[q] /\ gcd_call'[q] = gcd_call[q]
      BY <2>1 DEF G!BeginCall, GcdCalling, GcdTypeOK
    <3>3. \A q \in G!Posters \ {p} : GcdCalling(q)' <=> GcdCalling(q)
      BY <3>2 DEF GcdCalling
    <3>4. \A q \in G!Posters \ {p} : GcdCalling(q) => gcd_call[q].task \in OtherTasks \ {t}
      BY <2>0, <3>1 DEF GcdInv, GcdOnePlace
    <3>5. \A u : GcdIn(u)' <=> GcdIn(u)
      BY <3>1 DEF GcdIn
    <3>6. \A u \in OtherTasks : GcdIn(u) => u # t
      BY <3>1 DEF GcdInv, GcdOnePlace
    <3>7. \A a \in gcd_after : a.task \in OtherTasks \ {t}
      BY <2>0, <3>1 DEF GcdInv, GcdOnePlace
    <3>8. GcdOnePlace'
      <4>1. \A u \in OtherTasks : gcd_fate'[u] = "calling" =>
              \E q \in G!Posters : GcdCalling(q)' /\ gcd_call'[q].task = u
        <5>1. ASSUME NEW u \in OtherTasks, u # t, gcd_fate'[u] = "calling"
              PROVE  \E q \in G!Posters : GcdCalling(q)' /\ gcd_call'[q].task = u
          <6>1. PICK q \in G!Posters : GcdCalling(q) /\ gcd_call[q].task = u
            BY <5>1, <3>1 DEF GcdInv, GcdOnePlace
          <6> QED
            BY <6>1, <3>2, <3>3
        <5> QED
          BY <5>1, <3>2
      <4>2. \A q \in G!Posters : GcdCalling(q)' => gcd_fate'[gcd_call'[q].task] = "calling"
        BY <3>1, <3>2, <3>3, <3>4 DEF GcdInv, GcdOnePlace
      <4>3. \A q, r \in G!Posters :
              GcdCalling(q)' /\ GcdCalling(r)' /\ gcd_call'[q].task = gcd_call'[r].task => q = r
        BY <3>2, <3>3, <3>4 DEF GcdInv, GcdOnePlace
      <4>4. GcdOnce'
        BY <3>1 DEF GcdInv, GcdOnePlace, GcdOnce
      <4>5. \A u \in OtherTasks : gcd_fate'[u] = "running" <=> gcd_block' = u
        BY <3>1 DEF GcdInv, GcdOnePlace
      <4>6. \A a \in gcd_after' : gcd_fate'[a.task] = "queued" /\ ~GcdIn(a.task)'
        BY <3>1, <3>5, <3>7 DEF GcdInv, GcdOnePlace
      <4>7. \A u \in OtherTasks : GcdIn(u)' => gcd_fate'[u] = "queued"
        BY <3>1, <3>5, <3>6 DEF GcdInv, GcdOnePlace
      <4> QED
        BY <3>1, <4>1, <4>2, <4>3, <4>4, <4>5, <4>6, <4>7 DEF GcdInv, GcdOnePlace
    <3>9. GcdOnTime'
      <4>1. \A q \in G!Posters \ {p} : GcdCalling(q)' =>
             /\ gcd_kind'[gcd_call'[q].task] = gcd_ppc'[q]
             /\ gcd_notBefore'[gcd_call'[q].task] <= gcd_now' + gcd_call'[q].delay
             /\ gcd_ppc'[q] = "immediate" => gcd_call'[q].delay = 0
        BY <3>1, <3>2, <3>3, <3>4 DEF GcdInv, GcdOnTime
      <4>2. \A a \in gcd_after' : gcd_kind'[a.task] = "delayed" /\ gcd_notBefore'[a.task] <= a.at
        BY <3>1, <3>7 DEF GcdInv, GcdOnTime
      <4>3. \A u \in OtherTasks : GcdIn(u)' =>
              gcd_kind'[u] \in {"immediate", "delayed"} /\ gcd_notBefore'[u] <= gcd_now'
        BY <3>1, <3>5, <3>6 DEF GcdInv, GcdOnTime
      <4>4. /\ gcd_kind'[gcd_call'[p].task] = gcd_ppc'[p]
            /\ gcd_notBefore'[gcd_call'[p].task] <= gcd_now' + gcd_call'[p].delay
            /\ gcd_ppc'[p] = "immediate" => gcd_call'[p].delay = 0
        BY <2>0, <2>1, <3>1, <3>2
      <4> QED
        BY <4>1, <4>2, <4>3, <4>4 DEF GcdOnTime
    <3>10. GcdDeletion'
      BY <3>1, <3>2, <3>5, TasksAssumption DEF GcdInv, GcdDeletion, G!MayPost, G!Posters
    <3> QED
      BY <3>8, <3>9, <3>10 DEF GcdInv
  <2>2. ASSUME NEW p \in G!Posters, G!Submitted(p), GcdCalling(p), gcd_dpc' = gcd_dpc,
               \/ /\ gcd_ppc[p] = "immediate" /\ gcd_after' = gcd_after
                  /\ gcd_blocks' = Append(gcd_blocks, gcd_call[p].task)
               \/ /\ gcd_ppc[p] = "delayed" /\ gcd_blocks' = gcd_blocks
                  /\ gcd_after' = gcd_after \cup
                       {[task |-> gcd_call[p].task, at |-> gcd_now + gcd_call[p].delay]}
        PROVE  GcdInv'
    <3> DEFINE t == gcd_call[p].task
               new == [task |-> t, at |-> gcd_now + gcd_call[p].delay]
    <3>1. /\ t \in OtherTasks /\ gcd_fate[t] = "calling" /\ gcd_fate'[t] = "queued"
          /\ \A u \in OtherTasks \ {t} : gcd_fate'[u] = gcd_fate[u]
          /\ UNCHANGED <<gcd_block, gcd_now, gcd_is_active_, gcd_kind, gcd_notBefore>>
      BY <2>0, <2>2 DEF G!Submitted, G!historyVars, GcdTypeOK, GcdInv, GcdOnePlace
    <3>2. /\ ~GcdCalling(p)' /\ gcd_ppc'[p] = "idle"
          /\ \A q \in G!Posters \ {p} : gcd_ppc'[q] = gcd_ppc[q] /\ gcd_call'[q] = gcd_call[q]
      BY <2>2 DEF G!Submitted, GcdCalling, GcdTypeOK
    <3>3. /\ \A q \in G!Posters \ {p} : GcdCalling(q)' <=> GcdCalling(q)
          /\ \A q \in G!Posters \ {p} : GcdCalling(q) => gcd_call[q].task \in OtherTasks \ {t}
      BY <2>0, <2>2, <3>2 DEF GcdCalling, GcdInv, GcdOnePlace
    <3>4. ~GcdIn(t) /\ \A a \in gcd_after : a.task # t
      BY <3>1 DEF GcdInv, GcdOnePlace
    <3>5. /\ gcd_kind[t] = gcd_ppc[p]
          /\ gcd_notBefore[t] <= gcd_now + gcd_call[p].delay
          /\ gcd_ppc[p] = "immediate" => gcd_notBefore[t] <= gcd_now
      BY <2>0, <2>2, <3>1 DEF GcdInv, GcdOnTime
    <3>6. new.task = t /\ new.at = gcd_now + gcd_call[p].delay
      OBVIOUS
    <3>7. /\ \/ /\ gcd_ppc[p] = "immediate" /\ gcd_after' = gcd_after
                /\ \A u : GcdIn(u)' <=> GcdIn(u) \/ u = t
             \/ /\ gcd_ppc[p] = "delayed" /\ gcd_after' = gcd_after \cup {new}
                /\ \A u : GcdIn(u)' <=> GcdIn(u)
          /\ GcdOnce'
      <4>1. CASE gcd_ppc[p] = "immediate"
        <5>1. gcd_blocks' = Append(gcd_blocks, t) /\ gcd_after' = gcd_after
          BY <2>2, <4>1
        <5>2. (\A u : GcdIn(u)' <=> GcdIn(u) \/ u = t) /\ (GcdOnce /\ ~GcdIn(t) => GcdOnce')
          BY <3>1, <5>1, GcdPut
        <5> QED
          BY <3>4, <4>1, <5>1, <5>2 DEF GcdInv, GcdOnePlace
      <4>2. CASE gcd_ppc[p] = "delayed"
        BY <2>2, <4>2 DEF GcdIn, GcdOnce, GcdInv, GcdOnePlace
      <4> QED
        BY <2>2, <4>1, <4>2
    <3> HIDE DEF t, new
    <3>8. GcdOnePlace'
      <4>1. \A u \in OtherTasks : gcd_fate'[u] = "calling" =>
              \E q \in G!Posters : GcdCalling(q)' /\ gcd_call'[q].task = u
        <5>1. ASSUME NEW u \in OtherTasks, gcd_fate'[u] = "calling"
              PROVE  \E q \in G!Posters : GcdCalling(q)' /\ gcd_call'[q].task = u
          <6>1. u # t /\ gcd_fate[u] = "calling"
            BY <5>1, <3>1
          <6>2. PICK q \in G!Posters : GcdCalling(q) /\ gcd_call[q].task = u
            BY <6>1 DEF GcdInv, GcdOnePlace
          <6> QED
            BY <6>1, <6>2, <3>2, <3>3 DEF t
        <5> QED
          BY <5>1
      <4>2. \A q \in G!Posters : GcdCalling(q)' => gcd_fate'[gcd_call'[q].task] = "calling"
        BY <3>1, <3>2, <3>3 DEF GcdInv, GcdOnePlace
      <4>3. \A q, r \in G!Posters :
              GcdCalling(q)' /\ GcdCalling(r)' /\ gcd_call'[q].task = gcd_call'[r].task => q = r
        BY <3>2, <3>3 DEF GcdInv, GcdOnePlace
      <4>4. \A a \in gcd_after : gcd_fate'[a.task] = "queued" /\ ~GcdIn(a.task)'
        BY <2>0, <3>1, <3>4, <3>7 DEF GcdInv, GcdOnePlace
      <4>5. \A a \in gcd_after' : gcd_fate'[a.task] = "queued" /\ ~GcdIn(a.task)'
        BY <3>1, <3>4, <3>6, <3>7, <4>4
      <4>6. \A a, b \in gcd_after' : a.task = b.task => a = b
        BY <3>4, <3>6, <3>7 DEF GcdInv, GcdOnePlace
      <4>7. \A u \in OtherTasks : GcdIn(u)' => gcd_fate'[u] = "queued"
        BY <3>1, <3>7 DEF GcdInv, GcdOnePlace
      <4>8. \A u \in OtherTasks : gcd_fate'[u] = "running" <=> gcd_block' = u
        BY <3>1 DEF GcdInv, GcdOnePlace
      <4> QED
        BY <3>7, <4>1, <4>2, <4>3, <4>5, <4>6, <4>7, <4>8 DEF GcdOnePlace
    <3>9. GcdOnTime'
      <4>1. \A q \in G!Posters : GcdCalling(q)' =>
             /\ gcd_kind'[gcd_call'[q].task] = gcd_ppc'[q]
             /\ gcd_notBefore'[gcd_call'[q].task] <= gcd_now' + gcd_call'[q].delay
             /\ gcd_ppc'[q] = "immediate" => gcd_call'[q].delay = 0
        BY <3>1, <3>2, <3>3 DEF GcdInv, GcdOnTime
      <4>2. \A a \in gcd_after' : gcd_kind'[a.task] = "delayed" /\ gcd_notBefore'[a.task] <= a.at
        BY <3>1, <3>5, <3>6, <3>7 DEF GcdInv, GcdOnTime
      <4>3. \A u \in OtherTasks : GcdIn(u)' =>
              gcd_kind'[u] \in {"immediate", "delayed"} /\ gcd_notBefore'[u] <= gcd_now'
        BY <3>1, <3>5, <3>7 DEF GcdInv, GcdOnTime
      <4> QED
        BY <4>1, <4>2, <4>3 DEF GcdOnTime
    <3>10. GcdDeletion'
      <4>1. GcdIn(G!Sync)' => GcdIn(G!Sync)
        BY <1>0, <3>1, <3>7
      <4>2. \A q \in G!Posters : gcd_ppc'[q] \in {gcd_ppc[q], "idle"}
        BY <3>2
      <4> QED
        BY <2>2, <3>1, <4>1, <4>2 DEF GcdInv, GcdDeletion, G!Posters
    <3> QED
      BY <3>8, <3>9, <3>10 DEF GcdInv
  <2> DEFINE Calls == UNCHANGED <<gcd_ppc, gcd_call, gcd_kind, gcd_notBefore>>
  <2>3. CASE G!TimeComes
    <3>1. PICK a \in gcd_after :
            /\ gcd_after' = gcd_after \ {a} /\ gcd_blocks' = Append(gcd_blocks, a.task)
            /\ a.at <= gcd_now
      BY <2>3 DEF G!TimeComes
    <3>2. Calls /\ UNCHANGED <<gcd_block, gcd_now, gcd_dpc, gcd_is_active_, gcd_fate>>
      BY <2>3 DEF G!TimeComes, G!historyVars
    <3>3. /\ a.task \in OtherTasks /\ a.at \in Nat /\ ~GcdIn(a.task) /\ gcd_fate[a.task] = "queued"
          /\ gcd_kind[a.task] = "delayed" /\ gcd_notBefore[a.task] <= a.at
          /\ gcd_notBefore[a.task] \in Nat
      BY <2>0 DEF GcdInv, GcdOnePlace, GcdOnTime, GcdTypeOK
    <3>4. (\A u : GcdIn(u)' <=> GcdIn(u) \/ u = a.task) /\ GcdOnce'
      BY <3>1, <3>3, GcdPut DEF GcdInv, GcdOnePlace
    <3>5. \A b \in gcd_after' : b \in gcd_after /\ b.task # a.task
      BY <3>1 DEF GcdInv, GcdOnePlace
    <3>6. GcdOnePlace'
      BY <3>2, <3>3, <3>4, <3>5 DEF GcdInv, GcdOnePlace, GcdCalling
    <3>7. gcd_notBefore[a.task] <= gcd_now
      BY <2>0, <3>1, <3>3
    <3>8. GcdOnTime'
      BY <3>2, <3>3, <3>4, <3>5, <3>7 DEF GcdInv, GcdOnTime, GcdCalling
    <3>9. GcdDeletion'
      BY <1>0, <3>2, <3>3, <3>4 DEF GcdInv, GcdDeletion
    <3> QED
      BY <3>6, <3>8, <3>9 DEF GcdInv
  <2>4. CASE G!RunTask
    <3>0. PICK t : t = Head(gcd_blocks)
      OBVIOUS
    <3>1. /\ gcd_block = G!Nothing /\ gcd_blocks # << >> /\ t \in OtherTasks
          /\ gcd_blocks' = Tail(gcd_blocks)
          /\ Calls /\ UNCHANGED <<gcd_after, gcd_now, gcd_dpc, gcd_is_active_>>
      BY <2>4, <3>0 DEF G!RunTask, G!historyVars
    <3>2. GcdIn(t) /\ ~GcdIn(t)' /\ (\A u : GcdIn(u)' => GcdIn(u)) /\ GcdOnce'
      BY <3>0, <3>1, GcdTake DEF GcdInv, GcdOnePlace
    <3>3. \/ gcd_is_active_ /\ gcd_block' = t /\ gcd_fate' = [gcd_fate EXCEPT ![t] = "running"]
          \/ ~gcd_is_active_ /\ gcd_block' = gcd_block
             /\ gcd_fate' = [gcd_fate EXCEPT ![t] = "destroyed"]
      BY <2>4, <3>0 DEF G!RunTask
    <3>4. /\ gcd_fate[t] = "queued" /\ \A u \in OtherTasks \ {t} : gcd_fate'[u] = gcd_fate[u]
          /\ gcd_fate'[t] = IF gcd_is_active_ THEN "running" ELSE "destroyed"
      BY <3>1, <3>2, <3>3 DEF GcdInv, GcdOnePlace, GcdTypeOK
    <3>5. \A a \in gcd_after : a.task # t
      BY <3>2 DEF GcdInv, GcdOnePlace
    <3>6. \A p \in G!Posters : GcdCalling(p) => gcd_call[p].task \in OtherTasks \ {t}
      BY <2>0, <3>4 DEF GcdInv, GcdOnePlace
    <3>7. \A u \in OtherTasks : gcd_fate'[u] = "running" <=> gcd_block' = u
      BY <1>0, <3>1, <3>3, <3>4 DEF GcdInv, GcdOnePlace
    <3>8. GcdOnePlace'
      <4>1. \A a \in gcd_after' : gcd_fate'[a.task] = "queued" /\ ~GcdIn(a.task)'
        BY <2>0, <3>1, <3>2, <3>4, <3>5 DEF GcdInv, GcdOnePlace
      <4>2. \A u \in OtherTasks : GcdIn(u)' => gcd_fate'[u] = "queued"
        BY <3>2, <3>4 DEF GcdInv, GcdOnePlace
      <4>3. \A p \in G!Posters : GcdCalling(p)' <=> GcdCalling(p)
        BY <3>1 DEF GcdCalling
      <4>4. \A u \in OtherTasks : gcd_fate'[u] = "calling" => gcd_fate[u] = "calling"
        BY <3>4
      <4>5. \A p \in G!Posters : GcdCalling(p)' => gcd_fate'[gcd_call'[p].task] = "calling"
        BY <3>1, <3>4, <3>6, <4>3 DEF GcdInv, GcdOnePlace
      <4> QED
        BY <3>1, <3>2, <3>7, <4>1, <4>2, <4>3, <4>4, <4>5 DEF GcdInv, GcdOnePlace
    <3>9. GcdOnTime'
      BY <3>1, <3>2 DEF GcdInv, GcdOnTime, GcdCalling
    <3>10. GcdDeletion'
      BY <3>1, <3>2, <3>3 DEF GcdInv, GcdDeletion
    <3> QED
      BY <3>8, <3>9, <3>10 DEF GcdInv
  <2>5. CASE G!FinishTask
    <3>1. /\ gcd_block \in OtherTasks /\ gcd_ppc[Worker] = "idle" /\ gcd_block' = G!Nothing
          /\ gcd_fate' = [gcd_fate EXCEPT ![gcd_block] = "run"]
          /\ Calls /\ UNCHANGED <<gcd_blocks, gcd_after, gcd_now, gcd_dpc, gcd_is_active_>>
      BY <2>5 DEF G!FinishTask, G!historyVars
    <3>2. /\ gcd_fate[gcd_block] = "running" /\ gcd_fate'[gcd_block] = "run"
          /\ \A u \in OtherTasks \ {gcd_block} : gcd_fate'[u] = gcd_fate[u] /\ gcd_fate[u] # "running"
      BY <3>1 DEF GcdInv, GcdOnePlace, GcdTypeOK
    <3>3. \A u : GcdIn(u)' <=> GcdIn(u)
      BY <3>1 DEF GcdIn
    <3>4. GcdOnePlace'
      <4>1. \A a \in gcd_after : a.task \in OtherTasks \ {gcd_block}
        BY <2>0, <3>2 DEF GcdInv, GcdOnePlace
      <4>2. \A u \in OtherTasks : GcdIn(u) => u # gcd_block
        BY <3>2 DEF GcdInv, GcdOnePlace
      <4>3. \A p \in G!Posters : GcdCalling(p) => gcd_call[p].task \in OtherTasks \ {gcd_block}
        BY <2>0, <3>2 DEF GcdInv, GcdOnePlace
      <4>4. \A p \in G!Posters : GcdCalling(p)' <=> GcdCalling(p)
        BY <3>1 DEF GcdCalling
      <4>5. GcdOnce'
        BY <3>1 DEF GcdInv, GcdOnePlace, GcdOnce
      <4>6. \A u \in OtherTasks : gcd_fate'[u] = "running" <=> gcd_block' = u
        BY <1>0, <3>1, <3>2
      <4>7. \A u \in OtherTasks : gcd_fate'[u] = "calling" => gcd_fate[u] = "calling"
        BY <3>2
      <4>8. \A p \in G!Posters : GcdCalling(p)' => gcd_fate'[gcd_call'[p].task] = "calling"
        BY <3>1, <3>2, <4>3, <4>4 DEF GcdInv, GcdOnePlace
      <4>9. \A a \in gcd_after' : gcd_fate'[a.task] = "queued" /\ ~GcdIn(a.task)'
        BY <3>1, <3>2, <3>3, <4>1 DEF GcdInv, GcdOnePlace
      <4>10. \A u \in OtherTasks : GcdIn(u)' => gcd_fate'[u] = "queued"
        BY <3>2, <3>3, <4>2 DEF GcdInv, GcdOnePlace
      <4> QED
        BY <3>1, <4>4, <4>5, <4>6, <4>7, <4>8, <4>9, <4>10 DEF GcdInv, GcdOnePlace
    <3>5. GcdOnTime'
      BY <3>1, <3>3 DEF GcdInv, GcdOnTime, GcdCalling
    <3>6. GcdDeletion'
      BY <3>1, <3>3 DEF GcdInv, GcdDeletion
    <3> QED
      BY <3>4, <3>5, <3>6 DEF GcdInv
  <2>6. ASSUME G!Delete \/ G!SetNotActive PROVE GcdInv'
    <3>1. Calls /\ UNCHANGED <<gcd_after, gcd_block, gcd_now, gcd_fate>>
      BY <2>6 DEF G!Delete, G!SetNotActive, G!historyVars
    <3>2. /\ \A u \in OtherTasks : GcdIn(u)' => GcdIn(u)
          /\ GcdOnce'
          /\ G!Delete => \A u \in OtherTasks : GcdIn(u)' <=> GcdIn(u)
          /\ G!SetNotActive => GcdIn(G!Sync) /\ ~GcdIn(G!Sync)'
      <4>1. CASE G!Delete
        <5>1. gcd_blocks' = Append(gcd_blocks, G!Sync) /\ ~GcdIn(G!Sync)
          BY <4>1 DEF G!Delete, GcdInv, GcdDeletion
        <5>2. ~G!SetNotActive
          BY <4>1 DEF G!Delete, G!SetNotActive
        <5>3. (\A u : GcdIn(u)' <=> GcdIn(u) \/ u = G!Sync) /\ GcdOnce'
          BY <5>1, GcdPut DEF GcdInv, GcdOnePlace
        <5> QED
          BY <1>0, <5>2, <5>3
      <4>2. CASE G!SetNotActive
        <5>1. /\ gcd_blocks # << >> /\ Head(gcd_blocks) = G!Sync
              /\ gcd_blocks' = Tail(gcd_blocks)
          BY <4>2 DEF G!SetNotActive
        <5>2. ~G!Delete
          BY <4>2 DEF G!Delete, G!SetNotActive
        <5>3. /\ GcdIn(G!Sync) /\ ~GcdIn(G!Sync)'
              /\ \A t : GcdIn(t)' => GcdIn(t)
              /\ GcdOnce'
          BY <5>1, GcdTake DEF GcdInv, GcdOnePlace, G!Sync
        <5> QED
          BY <5>2, <5>3
      <4> QED
        BY <2>6, <4>1, <4>2
    <3>3. GcdOnePlace'
      BY <2>0, <3>1, <3>2 DEF GcdInv, GcdOnePlace, GcdCalling
    <3>4. GcdOnTime'
      BY <3>1, <3>2 DEF GcdInv, GcdOnTime, GcdCalling
    <3>5. GcdDeletion'
      <4>1. CASE G!Delete
        BY <3>1, <4>1 DEF G!Delete, GcdInv, GcdDeletion
      <4>2. CASE G!SetNotActive
        BY <3>1, <3>2, <4>2 DEF G!SetNotActive, GcdInv, GcdDeletion
      <4> QED
        BY <2>6, <4>1, <4>2
    <3> QED
      BY <3>3, <3>4, <3>5 DEF GcdInv
  <2>7. CASE G!DeleteQueue \/ G!Tick \/ UNCHANGED G!vars
    <3>1. /\ Calls /\ UNCHANGED <<gcd_blocks, gcd_after, gcd_block, gcd_dpc, gcd_is_active_, gcd_fate>>
          /\ gcd_now' \in Nat /\ gcd_now <= gcd_now'
      BY <2>0, <2>7 DEF G!DeleteQueue, G!Tick, G!vars, G!queueVars, G!historyVars
    <3>2. \A u : GcdIn(u)' <=> GcdIn(u)
      BY <3>1 DEF GcdIn
    <3>3. GcdOnePlace'
      BY <3>1, <3>2 DEF GcdInv, GcdOnePlace, GcdCalling, GcdOnce
    <3>4. GcdOnTime'
      <4>1. \A t \in OtherTasks : gcd_notBefore[t] \in Nat
        BY DEF GcdTypeOK
      <4>2. ASSUME NEW p \in G!Posters, GcdCalling(p)
            PROVE  gcd_notBefore[gcd_call[p].task] <= gcd_now' + gcd_call[p].delay
        <5>1. /\ gcd_notBefore[gcd_call[p].task] \in Nat /\ gcd_call[p].delay \in Nat
              /\ gcd_notBefore[gcd_call[p].task] <= gcd_now + gcd_call[p].delay
          BY <2>0, <4>1, <4>2 DEF GcdInv, GcdOnTime
        <5> QED
          BY <2>0, <3>1, <5>1
      <4>3. \A t \in OtherTasks : GcdIn(t) => gcd_notBefore[t] <= gcd_now'
        BY <2>0, <3>1, <4>1 DEF GcdInv, GcdOnTime
      <4> QED
        BY <3>1, <3>2, <4>2, <4>3 DEF GcdInv, GcdOnTime, GcdCalling
    <3>5. GcdDeletion'
      BY <3>1, <3>2 DEF GcdInv, GcdDeletion
    <3> QED
      BY <3>3, <3>4, <3>5 DEF GcdInv
  <2>8. ASSUME NEW p \in G!Posters, G!PostTask(p) \/ G!PostDelayedTask(p) PROVE GcdInv'
    BY <2>2, <2>8 DEF G!PostTask, G!PostDelayedTask, G!Submitted, GcdCalling
  <2>9. \A d \in Delays : d \in Nat
    BY TasksAssumption
  <2> QED
    BY <2>1, <2>3, <2>4, <2>5, <2>6, <2>7, <2>8, <2>9 DEF G!Next
<1> QED
  BY <1>1, <1>2, GcdTypeCorrect, PTL DEF G!Spec

(* The immediate tasks among the blocks.                                   *)
GcdImmediates == {t \in OtherTasks : gcd_kind[t] = "immediate"}

LEMMA GcdFifoMembers ==
  ASSUME GcdTypeOK
  PROVE  /\ GcdFifo \in Seq(OtherTasks)
         /\ \A k \in DOMAIN GcdFifo : GcdFifo[k] \in GcdImmediates /\ GcdIn(GcdFifo[k])
<1>1. gcd_blocks \in Seq(OtherTasks \cup {G!Sync}) /\ GcdFifo = Only(gcd_blocks, GcdImmediates)
  BY DEF GcdTypeOK, GcdFifo, GcdImmediates
<1>2. GcdFifo \in Seq((OtherTasks \cup {G!Sync}) \cap GcdImmediates)
  BY <1>1, OnlyMembers
<1>3. (OtherTasks \cup {G!Sync}) \cap GcdImmediates = GcdImmediates
      /\ GcdImmediates \subseteq OtherTasks
  BY DEF GcdImmediates
<1>4. GcdFifo \in Seq(GcdImmediates)
  BY <1>2, <1>3
<1>5. \A k \in DOMAIN GcdFifo : GcdFifo[k] \in GcdImmediates
  BY <1>4
<1>6. GcdFifo \in Seq(OtherTasks)
  BY <1>3, <1>4
<1>7. ASSUME NEW k \in DOMAIN Only(gcd_blocks, GcdImmediates)
      PROVE  \E i \in DOMAIN gcd_blocks : gcd_blocks[i] = Only(gcd_blocks, GcdImmediates)[k]
  <2>1. gcd_blocks \in Seq(OtherTasks \cup {G!Sync})
    BY <1>1
  <2> QED
    BY ONLY <2>1, k \in DOMAIN Only(gcd_blocks, GcdImmediates), OnlyFrom
<1>8. \A k \in DOMAIN GcdFifo : GcdIn(GcdFifo[k])
  BY <1>1, <1>7 DEF GcdIn
<1> QED
  BY <1>5, <1>6, <1>8

LEMMA GcdFifoSame ==
  ASSUME GcdTypeOK, gcd_blocks' = gcd_blocks,
         \A t \in OtherTasks : GcdIn(t) => gcd_kind'[t] = gcd_kind[t]
  PROVE  GcdFifo' = GcdFifo
<1>1. \A i \in DOMAIN gcd_blocks : gcd_blocks[i] \in GcdImmediates' <=> gcd_blocks[i] \in GcdImmediates
  BY DEF GcdImmediates, GcdIn
<1>2. Only(gcd_blocks, GcdImmediates') = Only(gcd_blocks, GcdImmediates)
  BY <1>1, OnlySame
<1>3. GcdFifo = Only(gcd_blocks, GcdImmediates) /\ GcdFifo' = Only(gcd_blocks', GcdImmediates')
  BY DEF GcdFifo, GcdImmediates
<1> QED
  BY <1>2, <1>3

LEMMA GcdFifoPut ==
  ASSUME GcdTypeOK, NEW x \in OtherTasks \cup {G!Sync}, gcd_blocks' = Append(gcd_blocks, x),
         gcd_kind' = gcd_kind
  PROVE  GcdFifo' = IF x \in GcdImmediates THEN Append(GcdFifo, x) ELSE GcdFifo
<1>1. /\ GcdFifo = Only(gcd_blocks, GcdImmediates)
      /\ GcdFifo' = Only(Append(gcd_blocks, x), GcdImmediates)
      /\ gcd_blocks \in Seq(OtherTasks \cup {G!Sync})
  BY DEF GcdFifo, GcdImmediates, GcdTypeOK
<1>2. Only(Append(gcd_blocks, x), GcdImmediates)
        = IF x \in GcdImmediates THEN Append(Only(gcd_blocks, GcdImmediates), x)
                                 ELSE Only(gcd_blocks, GcdImmediates)
  <2>1. gcd_blocks \in Seq(OtherTasks \cup {G!Sync})
    BY <1>1
  <2> QED
    BY ONLY <2>1, x \in OtherTasks \cup {G!Sync}, OnlyAppend
<1> QED
  BY <1>1, <1>2

LEMMA GcdFifoTake ==
  ASSUME GcdTypeOK, gcd_blocks # << >>, gcd_blocks' = Tail(gcd_blocks), gcd_kind' = gcd_kind,
         NEW h, h = Head(gcd_blocks)
  PROVE  /\ h \in GcdImmediates =>
              GcdFifo # << >> /\ Head(GcdFifo) = h /\ GcdFifo' = Tail(GcdFifo)
         /\ h \notin GcdImmediates => GcdFifo' = GcdFifo
<1>1. /\ GcdFifo = Only(gcd_blocks, GcdImmediates)
      /\ GcdFifo' = Only(Tail(gcd_blocks), GcdImmediates)
      /\ gcd_blocks \in Seq(OtherTasks \cup {G!Sync})
  BY DEF GcdFifo, GcdImmediates, GcdTypeOK
<1> QED
  BY <1>1, OnlyTake

LEMMA GcdBeginIsCall ==
  ASSUME GcdTypeOK, GcdInv, NEW p \in G!Posters, NEW t \in OtherTasks, NEW k, NEW d,
         G!BeginCall(p, t, k, d)
  PROVE  D!Call(t, k, d)
<1>1. /\ gcd_fate[t] = "new" /\ G!MayPost(p)
      /\ gcd_kind' = [gcd_kind EXCEPT ![t] = k]
      /\ UNCHANGED <<gcd_blocks, gcd_dpc>>
  BY DEF G!BeginCall, G!queueVars
<1>2. \A u \in OtherTasks : GcdIn(u) => gcd_kind'[u] = gcd_kind[u]
  BY <1>1 DEF GcdInv, GcdOnePlace, GcdTypeOK
<1>3. GcdFifo' = GcdFifo
  BY <1>1, <1>2, GcdFifoSame
<1>4. gcd_dpc = "live" \/ (gcd_dpc = "sync" /\ D!Busy)
  <2>1. CASE p = Worker
    <3>1. gcd_block \in OtherTasks
      BY <1>1, <2>1 DEF G!MayPost
    <3>2. gcd_fate[gcd_block] = "running" /\ gcd_dpc # "deleted"
      BY <3>1, OtherTasksAssumption DEF GcdInv, GcdOnePlace, GcdDeletion, G!Nothing
    <3> QED
      BY <3>1, <3>2 DEF D!Busy, GcdTypeOK
  <2>2. CASE p # Worker
    BY <1>1, <2>2 DEF G!MayPost
  <2> QED
    BY <2>1, <2>2
<1> QED
  BY <1>1, <1>3, <1>4 DEF D!Call, G!BeginCall

LEMMA GcdSubmitIsAccept ==
  ASSUME GcdTypeOK, GcdInv, NEW p \in G!Posters, G!PostTask(p) \/ G!PostDelayedTask(p)
  PROVE  \E t \in OtherTasks : D!Accept(t)
<1>0. PICK t : t = gcd_call[p].task
  OBVIOUS
<1>1. /\ GcdCalling(p) /\ t \in OtherTasks /\ gcd_fate[t] = "calling"
      /\ gcd_kind[t] = gcd_ppc[p]
  BY <1>0 DEF G!PostTask, G!PostDelayedTask, GcdCalling, GcdInv, GcdOnePlace, GcdOnTime, GcdTypeOK
<1>2. /\ gcd_fate' = [gcd_fate EXCEPT ![t] = "queued"]
      /\ UNCHANGED <<gcd_now, gcd_kind, gcd_notBefore, gcd_dpc>>
  BY <1>0 DEF G!PostTask, G!PostDelayedTask, G!Submitted, G!historyVars
<1>3. GcdFifo' = IF gcd_kind[t] = "immediate" THEN Append(GcdFifo, t) ELSE GcdFifo
  <2>1. CASE G!PostTask(p)
    <3>1. gcd_blocks' = Append(gcd_blocks, t) /\ gcd_kind[t] = "immediate"
      BY <1>0, <1>1, <2>1 DEF G!PostTask
    <3>2. GcdFifo' = IF t \in GcdImmediates THEN Append(GcdFifo, t) ELSE GcdFifo
      BY <1>1, <1>2, <3>1, GcdFifoPut
    <3> QED
      BY <1>1, <3>1, <3>2 DEF GcdImmediates
  <2>2. CASE G!PostDelayedTask(p)
    <3>1. gcd_blocks' = gcd_blocks /\ gcd_kind[t] = "delayed"
      BY <1>1, <2>2 DEF G!PostDelayedTask
    <3> QED
      BY <1>2, <3>1, GcdFifoSame
  <2> QED
    BY <2>1, <2>2
<1>4. D!Accept(t)
  BY <1>1, <1>2, <1>3 DEF D!Accept
<1> QED
  BY <1>1, <1>4

LEMMA GcdTimeIsStutter ==
  ASSUME GcdTypeOK, GcdInv, G!TimeComes
  PROVE  UNCHANGED D!vars
<1>1. PICK a \in gcd_after : gcd_blocks' = Append(gcd_blocks, a.task)
  BY DEF G!TimeComes
<1>2. UNCHANGED <<gcd_now, gcd_fate, gcd_kind, gcd_notBefore, gcd_dpc>>
  BY DEF G!TimeComes, G!historyVars
<1>3. a.task \in OtherTasks /\ a.task \notin GcdImmediates
  BY DEF GcdTypeOK, GcdAfter, GcdInv, GcdOnTime, GcdImmediates
<1>4. GcdFifo' = GcdFifo
  BY <1>1, <1>2, <1>3, GcdFifoPut
<1> QED
  BY <1>2, <1>4 DEF D!vars

(* The block that comes up runs, or is dropped once Delete has returned.   *)
LEMMA GcdRunIsStart ==
  ASSUME GcdTypeOK, GcdInv, G!RunTask
  PROVE  (\E t \in OtherTasks : D!Start(t)) \/ (\E S \in SUBSET OtherTasks : D!Destroy(S))
<1>0. PICK t : t = Head(gcd_blocks)
  OBVIOUS
<1>1. /\ gcd_block = G!Nothing /\ gcd_blocks # << >> /\ t \in OtherTasks
      /\ gcd_blocks' = Tail(gcd_blocks)
      /\ UNCHANGED <<gcd_now, gcd_kind, gcd_notBefore, gcd_dpc>>
  BY <1>0 DEF G!RunTask, G!historyVars
<1>2. GcdIn(t)
  BY <1>0, <1>1, GcdTake DEF GcdInv, GcdOnePlace
<1>3. /\ gcd_fate[t] = "queued" /\ gcd_kind[t] \in {"immediate", "delayed"}
      /\ gcd_notBefore[t] <= gcd_now
  BY <1>1, <1>2 DEF GcdInv, GcdOnePlace, GcdOnTime
<1>4. /\ gcd_kind[t] = "immediate" =>
           GcdFifo # << >> /\ t = Head(GcdFifo) /\ GcdFifo' = Tail(GcdFifo)
      /\ gcd_kind[t] # "immediate" => GcdFifo' = GcdFifo
  <2>1. t \in GcdImmediates <=> gcd_kind[t] = "immediate"
    BY <1>1 DEF GcdImmediates
  <2>2. /\ t \in GcdImmediates => GcdFifo # << >> /\ Head(GcdFifo) = t /\ GcdFifo' = Tail(GcdFifo)
        /\ t \notin GcdImmediates => GcdFifo' = GcdFifo
    BY <1>0, <1>1, GcdFifoTake
  <2> QED
    BY <2>1, <2>2
<1>5. CASE gcd_is_active_
  <2>1. gcd_fate' = [gcd_fate EXCEPT ![t] = "running"]
    BY <1>0, <1>5 DEF G!RunTask
  <2>2. ~D!Busy /\ gcd_dpc # "deleted"
    BY <1>1, <1>5, OtherTasksAssumption
    DEF GcdInv, GcdOnePlace, GcdDeletion, D!Busy, G!Nothing
  <2>3. gcd_now >= gcd_notBefore[t]
    BY <1>1, <1>3 DEF GcdTypeOK
  <2>4. D!Start(t)
    BY <1>1, <1>3, <1>4, <2>1, <2>2, <2>3 DEF D!Start
  <2> QED
    BY <1>1, <2>4
<1>6. CASE ~gcd_is_active_
  <2>1. gcd_fate' = [gcd_fate EXCEPT ![t] = "destroyed"]
    BY <1>0, <1>6 DEF G!RunTask
  <2>2. gcd_dpc = "deleted"
    BY <1>6 DEF GcdInv, GcdDeletion
  <2>3. gcd_fate' = [u \in OtherTasks |-> IF u \in {t} THEN "destroyed" ELSE gcd_fate[u]]
    BY <2>1 DEF GcdTypeOK
  <2>4. GcdFifo' \in Seq(OtherTasks) /\ D!IsRest(GcdFifo', GcdFifo, {t})
    <3>0. GcdFifo \in Seq(OtherTasks)
      BY GcdFifoMembers
    <3>1. \A k \in DOMAIN GcdFifo' : \E i \in DOMAIN gcd_blocks' : gcd_blocks'[i] = GcdFifo'[k]
      <4>1. /\ gcd_blocks' \in Seq(OtherTasks \cup {G!Sync})
            /\ GcdFifo' = Only(gcd_blocks', GcdImmediates')
        BY <1>0, <1>1 DEF GcdTypeOK, GcdFifo, GcdImmediates
      <4>2. ASSUME NEW k \in DOMAIN Only(gcd_blocks', GcdImmediates')
            PROVE  \E i \in DOMAIN gcd_blocks' :
                     gcd_blocks'[i] = Only(gcd_blocks', GcdImmediates')[k]
        <5>1. gcd_blocks' \in Seq(OtherTasks \cup {G!Sync})
          BY <4>1
        <5> QED
          BY ONLY <5>1, k \in DOMAIN Only(gcd_blocks', GcdImmediates'), OnlyFrom
      <4> QED
        BY <4>1, <4>2
    <3>2. ~GcdIn(t)'
      BY <1>0, <1>1, GcdTake DEF GcdInv, GcdOnePlace
    <3>3. \A k \in DOMAIN GcdFifo' : GcdFifo'[k] # t
      BY <3>1, <3>2 DEF GcdIn
    <3>4. CASE gcd_kind[t] = "immediate"
      <4> DEFINE n == Len(GcdFifo) - 1
      <4>1. /\ GcdFifo' \in Seq(OtherTasks) /\ n \in Nat
            /\ DOMAIN GcdFifo = 1 .. n + 1 /\ DOMAIN GcdFifo' = 1 .. n
            /\ GcdFifo[1] = t
            /\ \A i \in 1 .. n : GcdFifo'[i] = GcdFifo[i + 1] /\ i + 1 \in 1 .. n + 1
        BY <1>4, <3>0, <3>4
      <4>2. \A i \in 1 .. n + 1 : i = 1 \/ (i - 1 \in 1 .. n /\ i = (i - 1) + 1)
        BY <4>1
      <4> HIDE DEF n
      <4>3. \A i \in 1 .. n : GcdFifo'[i] # t /\ \E j \in 1 .. n + 1 : GcdFifo[j] = GcdFifo'[i]
        BY <3>3, <4>1
      <4>4. \A j \in 1 .. n + 1 : GcdFifo[j] # t => \E i \in 1 .. n : GcdFifo'[i] = GcdFifo[j]
        <5>1. ASSUME NEW j \in 1 .. n + 1, GcdFifo[j] # t
              PROVE  \E i \in 1 .. n : GcdFifo'[i] = GcdFifo[j]
          <6>1. j - 1 \in 1 .. n /\ j = (j - 1) + 1
            BY <4>1, <4>2, <5>1
          <6> QED
            BY <4>1, <6>1
        <5> QED
          BY <5>1
      <4>7. {GcdFifo'[i] : i \in DOMAIN GcdFifo'} = {GcdFifo[i] : i \in DOMAIN GcdFifo} \ {t}
        <5>1. {GcdFifo'[i] : i \in 1 .. n} \subseteq {GcdFifo[i] : i \in 1 .. n + 1} \ {t}
          BY <4>3
        <5>2. {GcdFifo[i] : i \in 1 .. n + 1} \ {t} \subseteq {GcdFifo'[i] : i \in 1 .. n}
          BY <4>4
        <5> QED
          BY <4>1, <5>1, <5>2
      <4>5. \A i, j \in 1 .. n : i < j => i + 1 < j + 1
        BY <4>1
      <4>6. \A i, j \in DOMAIN GcdFifo' : i < j =>
              \E k, l \in DOMAIN GcdFifo :
                k < l /\ GcdFifo[k] = GcdFifo'[i] /\ GcdFifo[l] = GcdFifo'[j]
        BY <4>1, <4>5
      <4> QED
        BY <4>1, <4>7, <4>6 DEF D!IsRest
    <3>5. CASE gcd_kind[t] # "immediate"
      BY <1>4, <3>0, <3>3, <3>5 DEF D!IsRest
    <3> QED
      BY <3>4, <3>5
  <2>5. {t} \subseteq {u \in OtherTasks : gcd_fate[u] = "queued"}
    BY <1>1, <1>3
  <2>6. D!Destroyed({t})
    BY <2>3, <2>4, <2>5 DEF D!Destroyed
  <2>7. D!Destroy({t}) /\ {t} \in SUBSET OtherTasks
    BY <1>1, <2>2, <2>6 DEF D!Destroy
  <2> QED
    BY <2>7
<1> QED
  BY <1>5, <1>6

LEMMA GcdFinishIsFinish ==
  ASSUME GcdTypeOK, GcdInv, G!FinishTask
  PROVE  \E t \in OtherTasks : D!Finish(t)
<1>1. /\ gcd_block \in OtherTasks /\ gcd_fate[gcd_block] = "running"
      /\ gcd_fate' = [gcd_fate EXCEPT ![gcd_block] = "run"]
      /\ UNCHANGED <<gcd_blocks, gcd_now, gcd_kind, gcd_notBefore, gcd_dpc>>
  BY DEF G!FinishTask, G!historyVars, GcdInv, GcdOnePlace
<1>2. GcdFifo' = GcdFifo
  BY <1>1, GcdFifoSame
<1>3. D!Finish(gcd_block)
  BY <1>1, <1>2 DEF D!Finish
<1> QED
  BY <1>1, <1>3

LEMMA GcdDeleteIsCalled ==
  ASSUME GcdTypeOK, GcdInv, G!Delete
  PROVE  D!DeleteCalled
<1>1. /\ gcd_dpc = "live" /\ gcd_dpc' = "sync" /\ gcd_blocks' = Append(gcd_blocks, G!Sync)
      /\ UNCHANGED <<gcd_now, gcd_fate, gcd_kind, gcd_notBefore>>
  BY DEF G!Delete, G!historyVars
<1>2. G!Sync \notin GcdImmediates
  BY OtherTasksAssumption DEF GcdImmediates, G!Sync
<1>3. GcdFifo' = GcdFifo
  BY <1>1, <1>2, GcdFifoPut
<1> QED
  BY <1>1, <1>3 DEF D!DeleteCalled

LEMMA GcdSyncIsReturn ==
  ASSUME GcdTypeOK, GcdInv, G!SetNotActive
  PROVE  D!DeleteReturns({})
<1>1. /\ gcd_block = G!Nothing /\ gcd_blocks # << >> /\ G!Sync = Head(gcd_blocks)
      /\ gcd_blocks' = Tail(gcd_blocks) /\ gcd_dpc' = "deleted"
      /\ UNCHANGED <<gcd_now, gcd_fate, gcd_kind, gcd_notBefore>>
  BY DEF G!SetNotActive, G!historyVars
<1>2. GcdIn(G!Sync)
  BY <1>1, GcdTake DEF GcdInv, GcdOnePlace
<1>3. gcd_dpc = "sync"
  BY <1>2 DEF GcdInv, GcdDeletion
<1>4. G!Sync \notin GcdImmediates /\ G!Nothing \notin OtherTasks
  BY OtherTasksAssumption DEF GcdImmediates, G!Sync, G!Nothing
<1>5. GcdFifo' = GcdFifo
  BY <1>1, <1>4, GcdFifoTake
<1>6. \A t \in OtherTasks : gcd_fate[t] \notin {"running", "calling"}
  <2>1. \A p \in G!Posters : ~GcdCalling(p)
    BY <1>1, <1>3, <1>4 DEF GcdInv, GcdDeletion, GcdCalling, G!Posters
  <2> QED
    BY <1>1, <1>4, <2>1 DEF GcdInv, GcdOnePlace
<1>7. D!IsRest(GcdFifo, GcdFifo, {})
  BY DEF D!IsRest
<1>8. D!Destroyed({})
  BY <1>1, <1>5, <1>7, GcdFifoMembers DEF D!Destroyed, GcdTypeOK
<1> QED
  BY <1>1, <1>3, <1>6, <1>8 DEF D!DeleteReturns

LEMMA GcdStepIsContractStep ==
  ASSUME GcdTypeOK, GcdInv, [G!Next]_G!vars
  PROVE  [D!Next]_D!vars
<1>0. UNCHANGED <<gcd_now, gcd_fate, gcd_kind, gcd_blocks, gcd_notBefore, gcd_dpc>> => UNCHANGED D!vars
  BY DEF D!vars, GcdFifo
<1>1. ASSUME NEW p \in G!Posters, NEW t \in OtherTasks, G!BeginCall(p, t, "immediate", 0)
      PROVE  D!Next
  BY <1>1, GcdBeginIsCall DEF D!Next
<1>2. ASSUME NEW p \in G!Posters, NEW t \in OtherTasks, NEW d \in Delays,
             G!BeginCall(p, t, "delayed", d)
      PROVE  D!Next
  BY <1>2, GcdBeginIsCall DEF D!Next
<1>3. ASSUME NEW p \in G!Posters, G!PostTask(p) \/ G!PostDelayedTask(p) PROVE D!Next
  BY <1>3, GcdSubmitIsAccept DEF D!Next
<1>4. CASE G!TimeComes
  BY <1>4, GcdTimeIsStutter
<1>5. CASE G!RunTask
  BY <1>5, GcdRunIsStart DEF D!Next
<1>6. CASE G!FinishTask
  BY <1>6, GcdFinishIsFinish DEF D!Next
<1>7. CASE G!Delete
  BY <1>7, GcdDeleteIsCalled DEF D!Next
<1>8. CASE G!SetNotActive
  BY <1>8, GcdSyncIsReturn DEF D!Next
<1>9. CASE G!DeleteQueue
  BY <1>9, <1>0 DEF G!DeleteQueue, G!queueVars, G!historyVars
<1>10. CASE G!Tick
  BY <1>10 DEF G!Tick, G!queueVars, G!historyVars, GcdFifo, D!Next, D!Tick
<1>11. CASE UNCHANGED G!vars
  BY <1>11, <1>0 DEF G!vars, G!queueVars, G!historyVars
<1> QED
  BY <1>1, <1>2, <1>3, <1>4, <1>5, <1>6, <1>7, <1>8, <1>9, <1>10, <1>11 DEF G!Next

(* What TaskQueueBase promises holds of libdispatch's queue.               *)
LEMMA GcdContractIsKept == G!Spec => D!Spec
<1>1. G!Init => D!Init
  <2> SUFFICES ASSUME G!Init PROVE D!Init
    OBVIOUS
  <2>1. /\ gcd_blocks = << >> /\ gcd_blocks \in Seq(OtherTasks) /\ DOMAIN gcd_blocks = {}
        /\ GcdFifo = Only(gcd_blocks, GcdImmediates)
    BY DEF G!Init, GcdFifo, GcdImmediates
  <2>2. /\ Only(gcd_blocks, GcdImmediates) \in Seq(OtherTasks \cap GcdImmediates)
        /\ \A k \in DOMAIN Only(gcd_blocks, GcdImmediates) : \E i \in DOMAIN gcd_blocks : TRUE
    BY <2>1, OnlyMembers
  <2>3. DOMAIN GcdFifo = {}
    BY <2>1, <2>2
  <2>4. GcdFifo \in Seq(OtherTasks)
    BY <2>1, <2>2
  <2>5. GcdFifo = << >>
    BY <2>3, <2>4
  <2> QED
    BY <2>5 DEF G!Init, D!Init
<1>2. GcdTypeOK /\ GcdInv /\ [G!Next]_G!vars => [D!Next]_D!vars
  BY GcdStepIsContractStep
<1> QED
  BY <1>1, <1>2, GcdTypeCorrect, GcdInvariant, PTL DEF G!Spec, D!Spec

-----------------------------------------------------------------------------
(* The Windows queue: where its tasks are.                                 *)
WinCalling(p) == win_ppc[p] # "idle"
WinIn(t) == \E i \in DOMAIN win_pending_ : win_pending_[i] = t
WinInOnce == \A i, j \in DOMAIN win_pending_ : win_pending_[i] = win_pending_[j] => i = j
WinSent(t) == \E i \in DOMAIN win_messages : win_messages[i].task = t
WinSentOnce ==
  \A i, j \in DOMAIN win_messages : win_messages[i].task = win_messages[j].task => i = j
WinTimed(t) == \E d \in win_timer_tasks_ : d.task = t

WinTyped ==
  /\ win_pending_ \in Seq(OtherTasks)
  /\ win_wpc \in {"wait", "messages", "timer", "due", "runDue", "queue", "pending", "run",
                  "exited"}
  /\ win_back \in {"wait", "messages", "timer", "queue"}
  /\ win_dueBy \in Nat /\ win_dueBy <= win_now
  /\ win_dpc \in {"live", "join", "deleted"}
  /\ win_fate \in [OtherTasks -> {"new", "calling", "queued", "running", "run", "destroyed"}]
  /\ win_kind \in [OtherTasks -> {"none", "immediate", "delayed"}]
  /\ win_notBefore \in [OtherTasks -> Nat]

(* A task is in one place: a call, pending_, a message, a timer task or    *)
(* running; a timer task stays in its list while it runs.                  *)
WinOnePlace ==
  /\ \A p \in W!Posters : WinCalling(p) =>
       win_call[p].task \in OtherTasks /\ win_fate[win_call[p].task] = "calling"
  /\ \A p, q \in W!Posters :
       WinCalling(p) /\ WinCalling(q) /\ win_call[p].task = win_call[q].task => p = q
  /\ \A t \in OtherTasks :
       win_fate[t] = "calling" => \E p \in W!Posters : WinCalling(p) /\ win_call[p].task = t
  /\ WinInOnce /\ WinSentOnce
  /\ \A t \in OtherTasks :
       /\ WinIn(t) => win_fate[t] = "queued" /\ win_kind[t] = "immediate"
       /\ WinSent(t) => win_fate[t] = "queued" /\ win_kind[t] = "delayed" /\ ~WinTimed(t)
       /\ WinTimed(t) =>
            /\ win_kind[t] = "delayed"
            /\ win_fate[t] = "queued" \/ (win_wpc = "runDue" /\ win_run_task = t)
       /\ win_fate[t] = "running" <=> win_wpc \in {"run", "runDue"} /\ win_run_task = t
  /\ win_wpc \in {"run", "runDue"} => win_run_task \in OtherTasks

WinOnTime ==
  /\ \A p \in W!Posters :
       /\ win_ppc[p] = "push" => win_kind[win_call[p].task] = "immediate"
       /\ win_ppc[p] = "send" => /\ win_kind[win_call[p].task] = "delayed"
                                 /\ win_call[p].due_time = win_notBefore[win_call[p].task]
  /\ \A i \in DOMAIN win_messages : win_messages[i].task \in OtherTasks =>
       win_messages[i].due_time = win_notBefore[win_messages[i].task]
  /\ \A d \in win_timer_tasks_ :
       d.task \in OtherTasks /\ d.due_time = win_notBefore[d.task]
  /\ \A t \in OtherTasks : win_kind[t] = "immediate" => win_notBefore[t] <= win_now

(* How far Delete has come.                                                *)
WinDeletion ==
  /\ \A i \in DOMAIN win_messages :
       win_messages[i].task \in OtherTasks \/ (win_messages[i] = W!Quit /\ win_dpc # "live")
  /\ win_dpc = "live" => win_wpc # "exited"
  /\ win_dpc = "deleted" => win_wpc = "exited"
  /\ win_dpc # "live" /\ p1 # Worker => win_ppc[p1] = "idle"
  /\ win_ppc[Worker] # "idle" => win_wpc \in {"run", "runDue"}

WinInv == WinTyped /\ WinOnePlace /\ WinOnTime /\ WinDeletion

LEMMA WinPut ==
  ASSUME WinTyped, NEW x \in OtherTasks, win_pending_' = Append(win_pending_, x)
  PROVE  /\ \A t : WinIn(t)' <=> WinIn(t) \/ t = x
         /\ WinInOnce /\ ~WinIn(x) => WinInOnce'
         /\ win_pending_' \in Seq(OtherTasks)
<1> DEFINE L == Len(win_pending_) + 1
<1>1. win_pending_ \in Seq(OtherTasks)
  BY DEF WinTyped
<1>2. /\ DOMAIN win_pending_' = DOMAIN win_pending_ \cup {L}
      /\ win_pending_'[L] = x
      /\ \A i \in DOMAIN win_pending_ : win_pending_'[i] = win_pending_[i] /\ i # L
      /\ win_pending_' \in Seq(OtherTasks)
  BY <1>1
<1> HIDE DEF L
<1>3. \A t : WinIn(t)' <=> WinIn(t) \/ t = x
  BY <1>2 DEF WinIn
<1>4. WinInOnce /\ ~WinIn(x) => WinInOnce'
  BY <1>2 DEF WinIn, WinInOnce
<1> QED
  BY <1>2, <1>3, <1>4

LEMMA WinTake ==
  ASSUME WinTyped, WinInOnce, win_pending_ # << >>, win_pending_' = Tail(win_pending_),
         NEW h, h = Head(win_pending_)
  PROVE  /\ h \in OtherTasks /\ WinIn(h) /\ ~WinIn(h)'
         /\ \A t : WinIn(t)' => WinIn(t)
         /\ WinInOnce'
         /\ win_pending_' \in Seq(OtherTasks)
<1>1. win_pending_ \in Seq(OtherTasks)
  BY DEF WinTyped
<1>2. /\ 1 \in DOMAIN win_pending_ /\ win_pending_[1] = h /\ h \in OtherTasks
      /\ \A i \in DOMAIN win_pending_' :
           i + 1 \in DOMAIN win_pending_ /\ win_pending_'[i] = win_pending_[i + 1] /\ i + 1 # 1
      /\ \A i, j \in DOMAIN win_pending_' : i + 1 = j + 1 => i = j
      /\ win_pending_' \in Seq(OtherTasks)
  BY <1>1
<1>3. WinIn(h)
  BY <1>2 DEF WinIn
<1>4. ~WinIn(h)'
  <2>1. \A i \in DOMAIN win_pending_' : win_pending_'[i] # h
    BY <1>2 DEF WinInOnce
  <2> QED
    BY <2>1 DEF WinIn
<1>5. \A t : WinIn(t)' => WinIn(t)
  BY <1>2 DEF WinIn
<1>6. WinInOnce'
  BY <1>2 DEF WinInOnce
<1> QED
  BY <1>2, <1>3, <1>4, <1>5, <1>6

LEMMA WinSend ==
  ASSUME WinTypeOK, NEW m \in WinInfo, win_messages' = Append(win_messages, m)
  PROVE  /\ \A t : WinSent(t)' <=> WinSent(t) \/ t = m.task
         /\ WinSentOnce /\ ~WinSent(m.task) => WinSentOnce'
         /\ \A i \in DOMAIN win_messages' :
              win_messages'[i] = m \/ \E j \in DOMAIN win_messages :
                                        win_messages'[i] = win_messages[j]
<1> DEFINE L == Len(win_messages) + 1
<1>1. win_messages \in Seq(WinInfo)
  BY DEF WinTypeOK
<1>2. /\ DOMAIN win_messages' = DOMAIN win_messages \cup {L}
      /\ win_messages'[L] = m
      /\ \A i \in DOMAIN win_messages : win_messages'[i] = win_messages[i] /\ i # L
  BY <1>1
<1> HIDE DEF L
<1>3. \A t : WinSent(t)' <=> WinSent(t) \/ t = m.task
  BY <1>2 DEF WinSent
<1>4. WinSentOnce /\ ~WinSent(m.task) => WinSentOnce'
  BY <1>2 DEF WinSent, WinSentOnce
<1> QED
  BY <1>2, <1>3, <1>4

LEMMA WinReceive ==
  ASSUME WinTypeOK, WinSentOnce, win_messages # << >>, win_messages' = Tail(win_messages),
         NEW h, h = Head(win_messages)
  PROVE  /\ WinSent(h.task) /\ ~WinSent(h.task)' /\ h \in WinInfo
         /\ \E i \in DOMAIN win_messages : win_messages[i] = h
         /\ \A t : WinSent(t)' => WinSent(t)
         /\ WinSentOnce'
         /\ \A i \in DOMAIN win_messages' : \E j \in DOMAIN win_messages :
              win_messages'[i] = win_messages[j]
<1>1. win_messages \in Seq(WinInfo)
  BY DEF WinTypeOK
<1>2. /\ 1 \in DOMAIN win_messages /\ win_messages[1] = h /\ h \in WinInfo
      /\ \A i \in DOMAIN win_messages' :
           i + 1 \in DOMAIN win_messages /\ win_messages'[i] = win_messages[i + 1] /\ i + 1 # 1
      /\ \A i, j \in DOMAIN win_messages' : i + 1 = j + 1 => i = j
  BY <1>1
<1>3. WinSent(h.task)
  BY <1>2 DEF WinSent
<1>4. ~WinSent(h.task)'
  <2>1. \A i \in DOMAIN win_messages' : win_messages'[i].task # h.task
    BY <1>2 DEF WinSentOnce
  <2> QED
    BY <2>1 DEF WinSent
<1>5. \A t : WinSent(t)' => WinSent(t)
  BY <1>2 DEF WinSent
<1>6. WinSentOnce'
  BY <1>2 DEF WinSentOnce
<1> QED
  BY <1>2, <1>3, <1>4, <1>5, <1>6

(* What the thread does between two tasks moves none of them.              *)
LEMMA WinIdleStep ==
  ASSUME WinTypeOK, WinInv,
         UNCHANGED <<win_pending_, win_messages, win_timer_tasks_, win_run_task, win_ppc,
                     win_call, win_dpc, win_fate, win_kind, win_notBefore>>,
         win_now' \in Nat, win_now <= win_now', win_dueBy' \in {win_dueBy, win_now},
         win_back' \in {"wait", "messages", "timer", "queue"},
         \/ win_wpc' = win_wpc
         \/ {win_wpc, win_wpc'} \subseteq {"wait", "messages", "timer", "due", "queue", "pending"}
  PROVE  WinInv'
<1>1. /\ \A p : WinCalling(p)' <=> WinCalling(p)
      /\ \A t : WinIn(t)' <=> WinIn(t)
      /\ \A t : WinSent(t)' <=> WinSent(t)
      /\ \A t : WinTimed(t)' <=> WinTimed(t)
      /\ WinInOnce' <=> WinInOnce
      /\ WinSentOnce' <=> WinSentOnce
  BY DEF WinCalling, WinIn, WinSent, WinTimed, WinInOnce, WinSentOnce
<1>2. win_wpc' \in {"run", "runDue"} <=> win_wpc \in {"run", "runDue"}
  OBVIOUS
<1>3. win_wpc' = "runDue" <=> win_wpc = "runDue"
  OBVIOUS
<1>4. WinTyped'
  <2>1. win_dueBy' \in Nat /\ win_dueBy' <= win_now'
    BY DEF WinInv, WinTyped, WinTypeOK
  <2>2. win_wpc' \in {"wait", "messages", "timer", "due", "runDue", "queue", "pending", "run",
                      "exited"}
    BY DEF WinInv, WinTyped
  <2> QED
    BY <2>1, <2>2 DEF WinInv, WinTyped
<1>5. WinOnePlace'
  BY <1>1, <1>2, <1>3 DEF WinInv, WinOnePlace
<1>6. WinOnTime'
  <2>1. \A t \in OtherTasks : win_kind[t] = "immediate" => win_notBefore[t] <= win_now'
    BY DEF WinInv, WinOnTime, WinTyped, WinTypeOK
  <2> QED
    BY <2>1 DEF WinInv, WinOnTime
<1>7. WinDeletion'
  BY <1>2 DEF WinInv, WinDeletion
<1> QED
  BY <1>4, <1>5, <1>6, <1>7 DEF WinInv

LEMMA WinInvariant == W!Spec => []WinInv
<1>0. "WM_QUIT" \notin OtherTasks /\ W!NoTask \notin OtherTasks /\ W!Quit.task = "WM_QUIT"
  BY OtherTasksAssumption DEF W!Quit, W!NoTask
<1>1. W!Init => WinInv
  <2> SUFFICES ASSUME W!Init PROVE WinInv
    OBVIOUS
  <2>1. /\ \A u : ~WinIn(u) /\ ~WinSent(u) /\ ~WinTimed(u)
        /\ \A p \in W!Posters : ~WinCalling(p) /\ win_ppc[p] = "idle"
        /\ win_timer_tasks_ = {} /\ win_dpc = "live" /\ win_wpc = "wait"
        /\ DOMAIN win_messages = {}
        /\ \A t \in OtherTasks : win_fate[t] = "new" /\ win_kind[t] = "none"
    BY DEF W!Init, WinIn, WinSent, WinTimed, WinCalling
  <2>2. WinInOnce /\ WinSentOnce
    BY DEF W!Init, WinInOnce, WinSentOnce
  <2>3. win_pending_ \in Seq(OtherTasks)
    BY DEF W!Init
  <2>4. WinTyped
    BY <2>3 DEF W!Init, WinTyped
  <2>5. WinOnePlace
    BY <2>1, <2>2 DEF WinOnePlace
  <2>6. WinOnTime /\ WinDeletion
    BY <2>1 DEF WinOnTime, WinDeletion, W!Posters
  <2> QED
    BY <2>4, <2>5, <2>6 DEF WinInv
<1>2. WinTypeOK /\ WinInv /\ [W!Next]_W!vars => WinInv'
  <2> SUFFICES ASSUME WinTypeOK, WinInv, [W!Next]_W!vars PROVE WinInv'
    OBVIOUS
  <2>0. /\ \A p \in W!Posters : WinCalling(p) =>
             win_call[p].task \in OtherTasks /\ win_fate[win_call[p].task] = "calling"
        /\ \A d \in win_timer_tasks_ : d.task \in OtherTasks /\ d.due_time \in Nat
        /\ \A t \in OtherTasks : win_notBefore[t] \in Nat
        /\ win_now \in Nat
    BY DEF WinInv, WinOnePlace, WinOnTime, WinTyped, WinTypeOK, WinInfo
  <2>1. ASSUME NEW p \in W!Posters, NEW t \in OtherTasks, NEW d \in WinDelays,
               W!BeginCall(p, t, d)
        PROVE  WinInv'
    <3> DEFINE k == IF d <= 0 THEN "immediate" ELSE "delayed"
               at == IF d <= 0 THEN win_now ELSE win_now + d
    <3>0. d \in Int /\ win_now + d \in Int /\ at \in Nat
      BY <2>0, WinDelaysAssumption
    <3>1. /\ win_fate[t] = "new" /\ win_ppc[p] = "idle" /\ W!MayPost(p)
          /\ win_fate' = [win_fate EXCEPT ![t] = "calling"]
          /\ win_kind' = [win_kind EXCEPT ![t] = k]
          /\ win_notBefore' = [win_notBefore EXCEPT ![t] = at]
          /\ UNCHANGED <<win_pending_, win_messages, win_timer_tasks_, win_run_task, win_dpc,
                         win_wpc, win_back, win_dueBy, win_now>>
      BY <2>1 DEF W!BeginCall, W!pendingVars, W!timerVars, W!messageVars, W!threadVars
    <3>2. /\ ~WinCalling(p) /\ WinCalling(p)' /\ win_call'[p].task = t
          /\ win_ppc'[p] = IF d <= 0 THEN "push" ELSE "send"
          /\ win_call'[p].due_time = win_now + d
          /\ \A q \in W!Posters \ {p} : win_ppc'[q] = win_ppc[q] /\ win_call'[q] = win_call[q]
      BY <2>1 DEF W!BeginCall, WinCalling, WinTypeOK
    <3> HIDE DEF k, at
    <3>3. /\ win_fate'[t] = "calling" /\ win_kind'[t] = k /\ win_notBefore'[t] = at
          /\ \A u \in OtherTasks \ {t} : /\ win_fate'[u] = win_fate[u]
                                         /\ win_kind'[u] = win_kind[u]
                                         /\ win_notBefore'[u] = win_notBefore[u]
      BY <3>1 DEF WinInv, WinTyped
    <3>4. /\ \A q \in W!Posters \ {p} : WinCalling(q)' <=> WinCalling(q)
          /\ \A q \in W!Posters \ {p} : WinCalling(q) => win_call[q].task \in OtherTasks \ {t}
      BY <2>0, <3>1, <3>2 DEF WinCalling
    <3>5. /\ \A u : WinIn(u)' <=> WinIn(u)
          /\ \A u : WinSent(u)' <=> WinSent(u)
          /\ \A u : WinTimed(u)' <=> WinTimed(u)
          /\ WinInOnce' /\ WinSentOnce'
      BY <3>1 DEF WinIn, WinSent, WinTimed, WinInv, WinOnePlace, WinInOnce, WinSentOnce
    <3>6. ~WinIn(t) /\ ~WinSent(t) /\ ~WinTimed(t) /\ (win_wpc \in {"run", "runDue"} => win_run_task # t)
      BY <3>1 DEF WinInv, WinOnePlace
    <3>7. WinTyped'
      <4>1. k \in {"immediate", "delayed"}
        BY DEF k
      <4> QED
        BY <3>0, <3>1, <4>1 DEF WinInv, WinTyped
    <3>8. WinOnePlace'
      <4>1. \A u \in OtherTasks : win_fate'[u] = "calling" =>
              \E q \in W!Posters : WinCalling(q)' /\ win_call'[q].task = u
        <5>1. ASSUME NEW u \in OtherTasks, u # t, win_fate'[u] = "calling"
              PROVE  \E q \in W!Posters : WinCalling(q)' /\ win_call'[q].task = u
          <6>1. PICK q \in W!Posters : WinCalling(q) /\ win_call[q].task = u
            BY <5>1, <3>3 DEF WinInv, WinOnePlace
          <6> QED
            BY <6>1, <3>2, <3>4
        <5> QED
          BY <5>1, <3>2
      <4>2. \A q \in W!Posters : WinCalling(q)' =>
              win_call'[q].task \in OtherTasks /\ win_fate'[win_call'[q].task] = "calling"
        BY <2>0, <3>2, <3>3, <3>4
      <4>3. \A q, r \in W!Posters :
              WinCalling(q)' /\ WinCalling(r)' /\ win_call'[q].task = win_call'[r].task => q = r
        BY <3>2, <3>4 DEF WinInv, WinOnePlace
      <4>4. \A u \in OtherTasks :
             /\ WinIn(u)' => win_fate'[u] = "queued" /\ win_kind'[u] = "immediate"
             /\ WinSent(u)' => win_fate'[u] = "queued" /\ win_kind'[u] = "delayed" /\ ~WinTimed(u)'
             /\ WinTimed(u)' =>
                  /\ win_kind'[u] = "delayed"
                  /\ win_fate'[u] = "queued" \/ (win_wpc' = "runDue" /\ win_run_task' = u)
             /\ win_fate'[u] = "running" <=> win_wpc' \in {"run", "runDue"} /\ win_run_task' = u
        <5>1. ASSUME NEW u \in OtherTasks, u # t
              PROVE  /\ WinIn(u)' => win_fate'[u] = "queued" /\ win_kind'[u] = "immediate"
                     /\ WinSent(u)' =>
                          win_fate'[u] = "queued" /\ win_kind'[u] = "delayed" /\ ~WinTimed(u)'
                     /\ WinTimed(u)' =>
                          /\ win_kind'[u] = "delayed"
                          /\ win_fate'[u] = "queued" \/ (win_wpc' = "runDue" /\ win_run_task' = u)
                     /\ win_fate'[u] = "running"
                          <=> win_wpc' \in {"run", "runDue"} /\ win_run_task' = u
          BY <3>1, <3>3, <3>5, <5>1 DEF WinInv, WinOnePlace
        <5> QED
          BY <3>1, <3>3, <3>5, <3>6, <5>1
      <4>5. win_wpc' \in {"run", "runDue"} => win_run_task' \in OtherTasks
        BY <3>1 DEF WinInv, WinOnePlace
      <4> QED
        BY <3>5, <4>1, <4>2, <4>3, <4>4, <4>5 DEF WinOnePlace
    <3>9. WinOnTime'
      <4>1. \A q \in W!Posters \ {p} :
              /\ win_ppc'[q] = "push" => win_kind'[win_call'[q].task] = "immediate"
              /\ win_ppc'[q] = "send" =>
                   /\ win_kind'[win_call'[q].task] = "delayed"
                   /\ win_call'[q].due_time = win_notBefore'[win_call'[q].task]
        BY <3>2, <3>3, <3>4 DEF WinInv, WinOnTime, WinCalling
      <4>2. /\ win_ppc'[p] = "push" => win_kind'[t] = "immediate"
            /\ win_ppc'[p] = "send" =>
                 win_kind'[t] = "delayed" /\ win_call'[p].due_time = win_notBefore'[t]
        BY <3>2, <3>3 DEF k, at
      <4>3. \A i \in DOMAIN win_messages' : win_messages'[i].task \in OtherTasks =>
              win_messages'[i].due_time = win_notBefore'[win_messages'[i].task]
        BY <3>1, <3>3, <3>6 DEF WinInv, WinOnTime, WinSent
      <4>4. \A e \in win_timer_tasks_' :
              e.task \in OtherTasks /\ e.due_time = win_notBefore'[e.task]
        BY <3>1, <3>3, <3>6 DEF WinInv, WinOnTime, WinTimed
      <4>5. \A u \in OtherTasks : win_kind'[u] = "immediate" => win_notBefore'[u] <= win_now'
        <5>1. k = "immediate" => at <= win_now
          BY <2>0 DEF k, at
        <5> QED
          BY <3>1, <3>3, <5>1 DEF WinInv, WinOnTime
      <4> QED
        BY <3>2, <4>1, <4>2, <4>3, <4>4, <4>5 DEF WinOnTime
    <3>10. WinDeletion'
      <4>1. win_ppc'[Worker] # "idle" => win_wpc \in {"run", "runDue"}
        BY <3>1, <3>2 DEF WinInv, WinDeletion, W!MayPost, W!Posters
      <4>2. win_dpc # "live" /\ p1 # Worker => win_ppc'[p1] = "idle"
        BY <3>1, <3>2 DEF WinInv, WinDeletion, W!MayPost, W!Posters
      <4> QED
        BY <3>1, <4>1, <4>2 DEF WinInv, WinDeletion
    <3> QED
      BY <3>7, <3>8, <3>9, <3>10 DEF WinInv
  <2>2. ASSUME NEW p \in W!Posters, W!PostTask(p) \/ W!PostDelayedTask(p)
        PROVE  WinInv'
    <3>0. PICK t : t = win_call[p].task
      OBVIOUS
    <3>1. /\ WinCalling(p) /\ t \in OtherTasks /\ win_fate[t] = "calling"
          /\ win_ppc' = [win_ppc EXCEPT ![p] = "idle"]
          /\ UNCHANGED <<win_timer_tasks_, win_run_task, win_dpc, win_wpc, win_back, win_dueBy,
                         win_now, win_kind, win_notBefore, win_call>>
      BY <2>0, <2>2, <3>0 DEF W!PostTask, W!PostDelayedTask, W!timerVars, W!threadVars,
         W!historyVars, WinCalling
    <3>2. ~WinIn(t) /\ ~WinSent(t) /\ ~WinTimed(t)
          /\ (win_wpc \in {"run", "runDue"} => win_run_task # t)
      BY <3>1 DEF WinInv, WinOnePlace
    <3>3. PICK f \in {"queued", "destroyed"} :
            /\ win_fate' = [win_fate EXCEPT ![t] = f]
            /\ \A u : WinIn(u)' <=> WinIn(u) \/ (u = t /\ f = "queued" /\ win_kind[t] = "immediate")
            /\ \A u : WinSent(u)' <=> WinSent(u) \/ (u = t /\ f = "queued" /\ win_kind[t] = "delayed")
            /\ WinInOnce' /\ WinSentOnce' /\ win_pending_' \in Seq(OtherTasks)
            /\ \A i \in DOMAIN win_messages' :
                 \/ win_messages'[i].task = t /\ win_messages'[i].due_time = win_notBefore[t]
                 \/ \E j \in DOMAIN win_messages : win_messages'[i] = win_messages[j]
      <4>1. CASE W!PostTask(p)
        <5>1. /\ win_pending_' = Append(win_pending_, t) /\ win_messages' = win_messages
              /\ win_fate' = [win_fate EXCEPT ![t] = "queued"]
              /\ win_kind[t] = "immediate"
          BY <3>0, <4>1 DEF W!PostTask, W!messageVars, WinInv, WinOnTime
        <5>2. /\ \A u : WinIn(u)' <=> WinIn(u) \/ u = t
              /\ WinInOnce' /\ win_pending_' \in Seq(OtherTasks)
          BY <3>1, <3>2, <5>1, WinPut DEF WinInv, WinOnePlace
        <5>3. WinSentOnce' /\ \A u : WinSent(u)' <=> WinSent(u)
          BY <5>1 DEF WinSent, WinSentOnce, WinInv, WinOnePlace
        <5>4. \A i \in DOMAIN win_messages' : \E j \in DOMAIN win_messages :
                win_messages'[i] = win_messages[j]
          BY <5>1
        <5> QED
          BY <5>1, <5>2, <5>3, <5>4
      <4>2. CASE W!PostDelayedTask(p)
        <5>1. /\ win_pending_' = win_pending_ /\ win_kind[t] = "delayed"
              /\ win_call[p].due_time = win_notBefore[t] /\ win_call[p] \in WinInfo
              /\ \/ /\ win_messages' = Append(win_messages, win_call[p])
                    /\ win_fate' = [win_fate EXCEPT ![t] = "queued"]
                 \/ /\ win_messages' = win_messages
                    /\ win_fate' = [win_fate EXCEPT ![t] = "destroyed"]
          BY <3>0, <4>2 DEF W!PostDelayedTask, W!PostThreadMessage, W!messageVars, W!pendingVars,
             WinInv, WinOnTime, WinTypeOK
        <5>2. /\ \A u : WinIn(u)' <=> WinIn(u)
              /\ WinInOnce' /\ win_pending_' \in Seq(OtherTasks)
          BY <5>1 DEF WinIn, WinInOnce, WinInv, WinOnePlace, WinTyped
        <5>3. CASE win_messages' = Append(win_messages, win_call[p])
                   /\ win_fate' = [win_fate EXCEPT ![t] = "queued"]
          <6>1. /\ \A u : WinSent(u)' <=> WinSent(u) \/ u = t
                /\ WinSentOnce'
                /\ \A i \in DOMAIN win_messages' :
                     \/ win_messages'[i] = win_call[p]
                     \/ \E j \in DOMAIN win_messages : win_messages'[i] = win_messages[j]
            BY <3>0, <3>2, <5>1, <5>3, WinSend DEF WinInv, WinOnePlace
          <6> QED
            BY <3>0, <5>1, <5>2, <5>3, <6>1
        <5>4. CASE win_messages' = win_messages
                   /\ win_fate' = [win_fate EXCEPT ![t] = "destroyed"]
          <6>1. WinSentOnce' /\ \A u : WinSent(u)' <=> WinSent(u)
            BY <5>4 DEF WinSent, WinSentOnce, WinInv, WinOnePlace
          <6>2. \A i \in DOMAIN win_messages' : \E j \in DOMAIN win_messages :
                  win_messages'[i] = win_messages[j]
            BY <5>4
          <6> QED
            BY <5>2, <5>4, <6>1, <6>2
        <5> QED
          BY <5>1, <5>3, <5>4
      <4> QED
        BY <2>2, <4>1, <4>2
    <3>4. /\ win_fate'[t] = f /\ \A u \in OtherTasks \ {t} : win_fate'[u] = win_fate[u]
          /\ win_kind[t] \in {"immediate", "delayed"}
      <4>1. win_kind[t] \in {"immediate", "delayed"}
        BY <2>2, <3>0 DEF W!PostTask, W!PostDelayedTask, WinInv, WinOnTime
      <4> QED
        BY <3>1, <3>3, <4>1 DEF WinInv, WinTyped
    <3>5. /\ ~WinCalling(p)' /\ win_ppc'[p] = "idle"
          /\ \A q \in W!Posters \ {p} : win_ppc'[q] = win_ppc[q]
          /\ \A q \in W!Posters \ {p} : WinCalling(q)' <=> WinCalling(q)
      BY <3>1 DEF WinCalling, WinTypeOK
    <3>6. \A q \in W!Posters \ {p} : WinCalling(q) => win_call[q].task \in OtherTasks \ {t}
      BY <2>0, <3>0, <3>1 DEF WinInv, WinOnePlace
    <3>7. \A u : WinTimed(u)' <=> WinTimed(u)
      BY <3>1 DEF WinTimed
    <3>8. WinTyped'
      BY <3>1, <3>3 DEF WinInv, WinTyped
    <3>9. WinOnePlace'
      <4>1. \A u \in OtherTasks : win_fate'[u] = "calling" =>
              \E q \in W!Posters : WinCalling(q)' /\ win_call'[q].task = u
        <5>1. ASSUME NEW u \in OtherTasks, win_fate'[u] = "calling"
              PROVE  \E q \in W!Posters : WinCalling(q)' /\ win_call'[q].task = u
          <6>1. u # t /\ win_fate[u] = "calling"
            BY <5>1, <3>4
          <6>2. PICK q \in W!Posters : WinCalling(q) /\ win_call[q].task = u
            BY <6>1 DEF WinInv, WinOnePlace
          <6> QED
            BY <6>1, <6>2, <3>0, <3>1, <3>5
        <5> QED
          BY <5>1
      <4>2. \A q \in W!Posters : WinCalling(q)' =>
              win_call'[q].task \in OtherTasks /\ win_fate'[win_call'[q].task] = "calling"
        BY <2>0, <3>1, <3>4, <3>5, <3>6
      <4>3. \A q, r \in W!Posters :
              WinCalling(q)' /\ WinCalling(r)' /\ win_call'[q].task = win_call'[r].task => q = r
        BY <3>1, <3>5 DEF WinInv, WinOnePlace
      <4>4. ASSUME NEW u \in OtherTasks, u # t
            PROVE  /\ WinIn(u)' => win_fate'[u] = "queued" /\ win_kind'[u] = "immediate"
                   /\ WinSent(u)' =>
                        win_fate'[u] = "queued" /\ win_kind'[u] = "delayed" /\ ~WinTimed(u)'
                   /\ WinTimed(u)' =>
                        /\ win_kind'[u] = "delayed"
                        /\ win_fate'[u] = "queued" \/ (win_wpc' = "runDue" /\ win_run_task' = u)
                   /\ win_fate'[u] = "running"
                        <=> win_wpc' \in {"run", "runDue"} /\ win_run_task' = u
        BY <3>1, <3>3, <3>4, <3>7, <4>4 DEF WinInv, WinOnePlace
      <4>5. /\ WinIn(t)' => win_fate'[t] = "queued" /\ win_kind'[t] = "immediate"
            /\ WinSent(t)' => win_fate'[t] = "queued" /\ win_kind'[t] = "delayed" /\ ~WinTimed(t)'
            /\ ~WinTimed(t)' /\ win_fate'[t] # "running"
            /\ ~(win_wpc' \in {"run", "runDue"} /\ win_run_task' = t)
        BY <3>1, <3>2, <3>3, <3>4, <3>7
      <4>6. win_wpc' \in {"run", "runDue"} => win_run_task' \in OtherTasks
        BY <3>1 DEF WinInv, WinOnePlace
      <4> QED
        BY <3>3, <4>1, <4>2, <4>3, <4>4, <4>5, <4>6 DEF WinOnePlace
    <3>10. WinOnTime'
      <4>1. \A q \in W!Posters :
              /\ win_ppc'[q] = "push" => win_kind'[win_call'[q].task] = "immediate"
              /\ win_ppc'[q] = "send" =>
                   /\ win_kind'[win_call'[q].task] = "delayed"
                   /\ win_call'[q].due_time = win_notBefore'[win_call'[q].task]
        BY <3>1, <3>5 DEF WinInv, WinOnTime
      <4>2. \A i \in DOMAIN win_messages' : win_messages'[i].task \in OtherTasks =>
              win_messages'[i].due_time = win_notBefore'[win_messages'[i].task]
        BY <3>1, <3>3 DEF WinInv, WinOnTime
      <4> QED
        BY <3>1, <4>1, <4>2 DEF WinInv, WinOnTime
    <3>11. WinDeletion'
      <4>1. \A i \in DOMAIN win_messages' :
              win_messages'[i].task \in OtherTasks \/ (win_messages'[i] = W!Quit /\ win_dpc' # "live")
        BY <3>1, <3>3 DEF WinInv, WinDeletion
      <4>2. \A q \in W!Posters : win_ppc'[q] \in {win_ppc[q], "idle"}
        BY <3>5
      <4> QED
        BY <3>1, <4>1, <4>2 DEF WinInv, WinDeletion, W!Posters
    <3> QED
      BY <3>8, <3>9, <3>10, <3>11 DEF WinInv
  <2>3. CASE W!DeleteQuit
    <3>1. /\ win_dpc = "live" /\ win_dpc' = "join" /\ win_messages' = Append(win_messages, W!Quit)
          /\ win_ppc[p1] = "idle"
          /\ UNCHANGED <<win_pending_, win_timer_tasks_, win_run_task, win_wpc, win_back,
                         win_dueBy, win_now, win_kind, win_notBefore, win_call, win_ppc, win_fate>>
      BY <2>3 DEF W!DeleteQuit, W!PostThreadMessage, W!timerVars, W!threadVars, W!pendingVars,
         W!historyVars
    <3>2. W!Quit \in WinInfo /\ ~WinSent("WM_QUIT")
      BY <1>0, <3>1 DEF W!Quit, WinInfo, WinInv, WinDeletion, WinSent
    <3>3. /\ \A u : WinSent(u)' <=> WinSent(u) \/ u = "WM_QUIT"
          /\ WinSentOnce'
          /\ \A i \in DOMAIN win_messages' :
               \/ win_messages'[i] = W!Quit
               \/ \E j \in DOMAIN win_messages : win_messages'[i] = win_messages[j]
      BY <1>0, <3>1, <3>2, WinSend DEF WinInv, WinOnePlace
    <3>4. /\ \A q : WinCalling(q)' <=> WinCalling(q)
          /\ \A u : WinIn(u)' <=> WinIn(u)
          /\ \A u : WinTimed(u)' <=> WinTimed(u)
          /\ WinInOnce' <=> WinInOnce
          /\ \A u \in OtherTasks : WinSent(u)' <=> WinSent(u)
      BY <1>0, <3>1, <3>3 DEF WinCalling, WinIn, WinTimed, WinInOnce
    <3>5. WinTyped'
      BY <3>1 DEF WinInv, WinTyped
    <3>6. WinOnePlace'
      BY <3>1, <3>3, <3>4 DEF WinInv, WinOnePlace
    <3>7. WinOnTime'
      BY <1>0, <3>1, <3>3 DEF WinInv, WinOnTime
    <3>8. WinDeletion'
      BY <3>1, <3>3 DEF WinInv, WinDeletion
    <3> QED
      BY <3>5, <3>6, <3>7, <3>8 DEF WinInv
  <2>4. CASE W!DeleteJoin
    <3>1. /\ win_dpc = "join" /\ win_dpc' = "deleted" /\ win_wpc = "exited"
          /\ win_pending_' = << >> /\ win_timer_tasks_' = {}
          /\ win_fate' = [t \in OtherTasks |->
               IF WinIn(t) \/ WinTimed(t) THEN "destroyed" ELSE win_fate[t]]
          /\ UNCHANGED <<win_messages, win_run_task, win_wpc, win_back, win_dueBy, win_now,
                         win_kind, win_notBefore, win_call, win_ppc>>
      BY <2>4 DEF W!DeleteJoin, W!messageVars, W!timerVars, W!threadVars, W!historyVars,
         WinIn, WinTimed
    <3>2. /\ \A q : WinCalling(q)' <=> WinCalling(q)
          /\ \A u : ~WinIn(u)' /\ ~WinTimed(u)'
          /\ \A u : WinSent(u)' <=> WinSent(u)
          /\ WinInOnce' /\ WinSentOnce'
      BY <3>1 DEF WinCalling, WinIn, WinTimed, WinSent, WinInOnce, WinSentOnce, WinInv, WinOnePlace
    <3>3. \A u \in OtherTasks :
            /\ WinIn(u) \/ WinTimed(u) => win_fate'[u] = "destroyed" /\ win_fate[u] = "queued"
                                          /\ ~WinSent(u)
            /\ ~(WinIn(u) \/ WinTimed(u)) => win_fate'[u] = win_fate[u]
      BY <3>1 DEF WinInv, WinOnePlace
    <3>4. WinTyped'
      <4>1. win_pending_' \in Seq(OtherTasks)
        BY <3>1
      <4> QED
        BY <3>1, <4>1 DEF WinInv, WinTyped
    <3>5. WinOnePlace'
      <4>1. \A u \in OtherTasks : win_fate'[u] = "calling" <=> win_fate[u] = "calling"
        BY <3>3
      <4>2. \A u \in OtherTasks : win_fate'[u] = "running" <=> win_fate[u] = "running"
        BY <3>3
      <4>3. \A u \in OtherTasks : WinSent(u) =>
              win_fate'[u] = "queued" /\ win_kind[u] = "delayed"
        BY <3>3 DEF WinInv, WinOnePlace
      <4>4. \A q \in W!Posters : WinCalling(q) =>
              win_call[q].task \in OtherTasks /\ win_fate'[win_call[q].task] = "calling"
        BY <2>0, <4>1
      <4> QED
        BY <3>1, <3>2, <4>1, <4>2, <4>3, <4>4 DEF WinInv, WinOnePlace
    <3>6. WinOnTime'
      BY <3>1 DEF WinInv, WinOnTime
    <3>7. WinDeletion'
      BY <3>1 DEF WinInv, WinDeletion
    <3> QED
      BY <3>4, <3>5, <3>6, <3>7 DEF WinInv
  <2>5. CASE W!ProcessMessage
    <3>0. PICK h : h = Head(win_messages)
      OBVIOUS
    <3>1. /\ win_wpc = "messages" /\ win_messages # << >> /\ win_messages' = Tail(win_messages)
          /\ \/ /\ h = W!Quit /\ win_wpc' = "exited" /\ win_timer_tasks_' = win_timer_tasks_
             \/ /\ h # W!Quit /\ win_wpc' \in {"messages", "timer"}
                /\ win_timer_tasks_' = win_timer_tasks_ \cup {h}
          /\ UNCHANGED <<win_pending_, win_run_task, win_back, win_dueBy, win_now, win_dpc,
                         win_kind, win_notBefore, win_call, win_ppc, win_fate>>
      BY <2>5, <3>0 DEF W!ProcessMessage, W!QueueDelayed, W!pendingVars, W!posterVars,
         W!historyVars
    <3>2. /\ WinSent(h.task) /\ ~WinSent(h.task)' /\ h \in WinInfo
          /\ \E i \in DOMAIN win_messages : win_messages[i] = h
          /\ \A t : WinSent(t)' => WinSent(t)
          /\ WinSentOnce'
          /\ \A i \in DOMAIN win_messages' : \E j \in DOMAIN win_messages :
               win_messages'[i] = win_messages[j]
      BY <3>0, <3>1, WinReceive DEF WinInv, WinOnePlace
    <3>3. /\ h # W!Quit => h.task \in OtherTasks /\ h.due_time = win_notBefore[h.task]
          /\ h = W!Quit => win_dpc # "live"
      BY <1>0, <3>2 DEF WinInv, WinDeletion, WinOnTime
    <3>4. win_dpc # "deleted"
      BY <3>1 DEF WinInv, WinDeletion
    <3>5. /\ \A q : WinCalling(q)' <=> WinCalling(q)
          /\ \A u : WinIn(u)' <=> WinIn(u)
          /\ WinInOnce'
          /\ \A u \in OtherTasks : WinTimed(u)' <=> WinTimed(u) \/ (h # W!Quit /\ u = h.task)
      BY <3>1, <1>0 DEF WinCalling, WinIn, WinTimed, WinInOnce, WinInv, WinOnePlace
    <3>6. WinTyped'
      BY <3>1 DEF WinInv, WinTyped
    <3>7. WinOnePlace'
      <4>1. ASSUME NEW u \in OtherTasks
            PROVE  /\ WinSent(u)' =>
                        win_fate'[u] = "queued" /\ win_kind'[u] = "delayed" /\ ~WinTimed(u)'
                   /\ WinTimed(u)' => win_kind'[u] = "delayed" /\ win_fate'[u] = "queued"
        BY <3>1, <3>2, <3>5 DEF WinInv, WinOnePlace
      <4>2. win_wpc' \notin {"run", "runDue"} /\ win_wpc \notin {"run", "runDue"}
        BY <3>1
      <4> QED
        BY <3>1, <3>2, <3>5, <4>1, <4>2 DEF WinInv, WinOnePlace
    <3>8. WinOnTime'
      BY <3>1, <3>2, <3>3 DEF WinInv, WinOnTime
    <3>9. WinDeletion'
      BY <3>1, <3>2, <3>3, <3>4 DEF WinInv, WinDeletion
    <3> QED
      BY <3>6, <3>7, <3>8, <3>9 DEF WinInv
  <2>6. CASE W!RunDueTask \/ W!RunPendingTask
    <3>1. PICK t \in OtherTasks :
            /\ win_fate' = [win_fate EXCEPT ![t] = "running"] /\ win_run_task' = t
            /\ win_fate[t] = "queued"
            /\ \A u \in OtherTasks : WinIn(u)' => WinIn(u) /\ u # t
            /\ ~WinSent(t) /\ WinInOnce' /\ win_pending_' \in Seq(OtherTasks)
            /\ \/ win_wpc = "due" /\ win_wpc' = "runDue"
               \/ win_wpc = "pending" /\ win_wpc' = "run" /\ ~WinTimed(t)
            /\ UNCHANGED <<win_messages, win_timer_tasks_, win_back, win_dueBy, win_now, win_dpc,
                           win_kind, win_notBefore, win_call, win_ppc>>
      <4>1. CASE W!RunDueTask
        <5>1. PICK e \in win_timer_tasks_ :
                win_run_task' = e.task /\ win_fate' = [win_fate EXCEPT ![e.task] = "running"]
          BY <4>1 DEF W!RunDueTask
        <5>2. /\ win_wpc = "due" /\ win_wpc' = "runDue"
              /\ UNCHANGED <<win_messages, win_timer_tasks_, win_back, win_dueBy, win_now, win_dpc,
                             win_kind, win_notBefore, win_call, win_ppc, win_pending_>>
          BY <4>1 DEF W!RunDueTask, W!messageVars, W!pendingVars, W!posterVars, W!historyVars
        <5>3. PICK t \in OtherTasks : t = e.task
          BY <2>0
        <5>4. WinTimed(t) /\ win_fate[t] = "queued" /\ win_kind[t] = "delayed" /\ ~WinSent(t) /\ ~WinIn(t)
          BY <5>2, <5>3 DEF WinInv, WinOnePlace, WinTimed
        <5>5. WinInOnce' /\ win_pending_' \in Seq(OtherTasks) /\ \A u : WinIn(u)' <=> WinIn(u)
          BY <5>2 DEF WinInv, WinOnePlace, WinInOnce, WinIn, WinTyped
        <5> QED
          BY <5>1, <5>2, <5>3, <5>4, <5>5
      <4>2. CASE W!RunPendingTask
        <5>1. PICK t : t = Head(win_pending_)
          OBVIOUS
        <5>2. /\ win_wpc = "pending" /\ win_wpc' = "run" /\ win_pending_ # << >>
              /\ win_run_task' = t /\ win_pending_' = Tail(win_pending_)
              /\ win_fate' = [win_fate EXCEPT ![t] = "running"]
              /\ UNCHANGED <<win_messages, win_timer_tasks_, win_back, win_dueBy, win_now, win_dpc,
                             win_kind, win_notBefore, win_call, win_ppc>>
          BY <4>2, <5>1 DEF W!RunPendingTask, W!messageVars, W!posterVars, W!historyVars
        <5>3. /\ t \in OtherTasks /\ WinIn(t) /\ ~WinIn(t)' /\ \A u : WinIn(u)' => WinIn(u)
              /\ WinInOnce' /\ win_pending_' \in Seq(OtherTasks)
          BY <5>1, <5>2, WinTake DEF WinInv, WinOnePlace
        <5>4. win_fate[t] = "queued" /\ ~WinTimed(t) /\ ~WinSent(t)
          BY <5>3 DEF WinInv, WinOnePlace
        <5> QED
          BY <5>2, <5>3, <5>4
      <4> QED
        BY <2>6, <4>1, <4>2
    <3>2. win_fate'[t] = "running" /\ \A u \in OtherTasks \ {t} : win_fate'[u] = win_fate[u]
      BY <3>1 DEF WinInv, WinTyped
    <3>3. /\ \A q : WinCalling(q)' <=> WinCalling(q)
          /\ \A u : WinTimed(u)' <=> WinTimed(u)
          /\ \A u : WinSent(u)' <=> WinSent(u)
          /\ WinSentOnce'
      BY <3>1 DEF WinCalling, WinTimed, WinSent, WinSentOnce, WinInv, WinOnePlace
    <3>4. WinTyped'
      BY <3>1 DEF WinInv, WinTyped
    <3>5. WinOnePlace'
      <4>1. \A q \in W!Posters : WinCalling(q) => win_call[q].task \in OtherTasks \ {t}
        BY <2>0, <3>1
      <4>2. \A q \in W!Posters : WinCalling(q)' =>
              win_call'[q].task \in OtherTasks /\ win_fate'[win_call'[q].task] = "calling"
        BY <2>0, <3>1, <3>2, <3>3, <4>1
      <4>3. ASSUME NEW u \in OtherTasks, u # t
            PROVE  /\ WinIn(u)' => win_fate'[u] = "queued" /\ win_kind'[u] = "immediate"
                   /\ WinSent(u)' =>
                        win_fate'[u] = "queued" /\ win_kind'[u] = "delayed" /\ ~WinTimed(u)'
                   /\ WinTimed(u)' => win_kind'[u] = "delayed" /\ win_fate'[u] = "queued"
                   /\ win_fate'[u] # "running" /\ win_run_task' # u
                   /\ win_fate'[u] = "calling" => win_fate[u] = "calling"
        BY <3>1, <3>2, <3>3, <4>3 DEF WinInv, WinOnePlace
      <4>4. /\ ~WinIn(t)' /\ ~WinSent(t)' /\ win_fate'[t] = "running"
            /\ WinTimed(t)' => win_kind'[t] = "delayed" /\ win_wpc' = "runDue" /\ win_run_task' = t
            /\ win_wpc' \in {"run", "runDue"} /\ win_run_task' = t
        BY <3>1, <3>2, <3>3 DEF WinInv, WinOnePlace
      <4>5. \A u \in OtherTasks : win_fate'[u] = "calling" =>
              \E q \in W!Posters : WinCalling(q)' /\ win_call'[q].task = u
        BY <3>1, <3>3, <4>3, <4>4 DEF WinInv, WinOnePlace
      <4>6. \A q, r \in W!Posters :
              WinCalling(q)' /\ WinCalling(r)' /\ win_call'[q].task = win_call'[r].task => q = r
        BY <3>1, <3>3 DEF WinInv, WinOnePlace
      <4> QED
        BY <3>1, <3>3, <4>2, <4>3, <4>4, <4>5, <4>6 DEF WinOnePlace
    <3>6. WinOnTime'
      BY <3>1 DEF WinInv, WinOnTime
    <3>7. WinDeletion'
      BY <3>1 DEF WinInv, WinDeletion
    <3> QED
      BY <3>4, <3>5, <3>6, <3>7 DEF WinInv
  <2>7. CASE W!FinishDueTask \/ W!FinishTask
    <3>1. PICK t \in OtherTasks :
            /\ win_run_task = t /\ win_fate[t] = "running"
            /\ win_fate' = [win_fate EXCEPT ![t] = "run"]
            /\ \/ /\ win_wpc = "runDue" /\ win_wpc' = "due"
                  /\ win_timer_tasks_' = {e \in win_timer_tasks_ : e.task # t}
               \/ /\ win_wpc = "run" /\ win_wpc' = "pending"
                  /\ win_timer_tasks_' = win_timer_tasks_
            /\ win_ppc[Worker] = "idle"
            /\ UNCHANGED <<win_pending_, win_messages, win_back, win_dueBy, win_now, win_dpc,
                           win_kind, win_notBefore, win_call, win_ppc>>
      BY <2>7 DEF W!FinishDueTask, W!FinishTask, W!messageVars, W!pendingVars, W!posterVars,
         W!historyVars, WinInv, WinOnePlace
    <3>2. win_fate'[t] = "run" /\ \A u \in OtherTasks \ {t} : win_fate'[u] = win_fate[u]
      BY <3>1 DEF WinInv, WinTyped
    <3>3. /\ \A q : WinCalling(q)' <=> WinCalling(q)
          /\ \A u : WinTimed(u)' <=> WinTimed(u) /\ (u # t \/ win_wpc = "run")
          /\ \A u : WinSent(u)' <=> WinSent(u)
          /\ \A u : WinIn(u)' <=> WinIn(u)
          /\ WinSentOnce' /\ WinInOnce'
      BY <3>1 DEF WinCalling, WinTimed, WinSent, WinIn, WinSentOnce, WinInOnce, WinInv, WinOnePlace
    <3>4. ~WinIn(t)' /\ ~WinSent(t)' /\ ~WinTimed(t)'
      BY <3>1, <3>3 DEF WinInv, WinOnePlace
    <3>5. WinTyped'
      BY <3>1 DEF WinInv, WinTyped
    <3>6. WinOnePlace'
      <4>1. \A q \in W!Posters : WinCalling(q) => win_call[q].task \in OtherTasks \ {t}
        BY <2>0, <3>1
      <4>2. \A q \in W!Posters : WinCalling(q)' =>
              win_call'[q].task \in OtherTasks /\ win_fate'[win_call'[q].task] = "calling"
        BY <2>0, <3>1, <3>2, <3>3, <4>1
      <4>3. ASSUME NEW u \in OtherTasks, u # t
            PROVE  /\ WinIn(u)' => win_fate'[u] = "queued" /\ win_kind'[u] = "immediate"
                   /\ WinSent(u)' =>
                        win_fate'[u] = "queued" /\ win_kind'[u] = "delayed" /\ ~WinTimed(u)'
                   /\ WinTimed(u)' => win_kind'[u] = "delayed" /\ win_fate'[u] = "queued"
                   /\ win_fate'[u] # "running"
                   /\ win_fate'[u] = "calling" => win_fate[u] = "calling"
        BY <3>1, <3>2, <3>3, <4>3 DEF WinInv, WinOnePlace
      <4>5. \A u \in OtherTasks : win_fate'[u] = "calling" =>
              \E q \in W!Posters : WinCalling(q)' /\ win_call'[q].task = u
        BY <3>1, <3>2, <3>3, <4>3 DEF WinInv, WinOnePlace
      <4>6. \A q, r \in W!Posters :
              WinCalling(q)' /\ WinCalling(r)' /\ win_call'[q].task = win_call'[r].task => q = r
        BY <3>1, <3>3 DEF WinInv, WinOnePlace
      <4>7. win_wpc' \notin {"run", "runDue"} /\ win_fate'[t] # "running"
        BY <3>1, <3>2
      <4> QED
        BY <3>3, <3>4, <4>2, <4>3, <4>5, <4>6, <4>7 DEF WinOnePlace
    <3>7. WinOnTime'
      BY <3>1 DEF WinInv, WinOnTime
    <3>8. WinDeletion'
      BY <3>1 DEF WinInv, WinDeletion
    <3> QED
      BY <3>5, <3>6, <3>7, <3>8 DEF WinInv
  <2>8. ASSUME \/ W!TimerFires \/ W!MsgWait \/ W!ProcessTimerMessage \/ W!NoMessage
               \/ W!CheckTimer \/ W!NoneDue \/ W!CheckQueue \/ W!NonePending \/ W!Tick
               \/ UNCHANGED W!vars
        PROVE  WinInv'
    <3>1. UNCHANGED <<win_pending_, win_messages, win_timer_tasks_, win_run_task, win_ppc,
                      win_call, win_dpc, win_fate, win_kind, win_notBefore>>
      BY <2>8
      DEF W!TimerFires, W!MsgWait, W!ProcessTimerMessage, W!NoMessage, W!CheckTimer, W!NoneDue,
          W!CheckQueue, W!NonePending, W!Tick, W!vars, W!pendingVars, W!timerVars,
          W!messageVars, W!threadVars, W!posterVars, W!historyVars
    <3>2. win_now' \in Nat /\ win_now <= win_now'
      BY <2>0, <2>8
      DEF W!TimerFires, W!MsgWait, W!ProcessTimerMessage, W!NoMessage, W!CheckTimer, W!NoneDue,
          W!CheckQueue, W!NonePending, W!Tick, W!vars
    <3>3. /\ win_dueBy' \in {win_dueBy, win_now}
          /\ win_back' \in {win_back, "messages", "timer", "queue"}
      BY <2>8
      DEF W!TimerFires, W!MsgWait, W!ProcessTimerMessage, W!NoMessage, W!CheckTimer, W!NoneDue,
          W!CheckQueue, W!NonePending, W!Tick, W!vars, W!threadVars
    <3>4. win_back \in {"wait", "messages", "timer", "queue"}
      BY DEF WinInv, WinTyped
    <3>5. \/ win_wpc' = win_wpc
          \/ {win_wpc, win_wpc'} \subseteq {"wait", "messages", "timer", "due", "queue", "pending"}
      BY <2>8, <3>4
      DEF W!TimerFires, W!MsgWait, W!ProcessTimerMessage, W!NoMessage, W!CheckTimer, W!NoneDue,
          W!CheckQueue, W!NonePending, W!Tick, W!vars, W!threadVars
    <3> QED
      BY <3>1, <3>2, <3>3, <3>4, <3>5, WinIdleStep
  <2> QED
    BY <2>1, <2>2, <2>3, <2>4, <2>5, <2>6, <2>7, <2>8 DEF W!Next
<1> QED
  BY <1>1, <1>2, WinTypeCorrect, PTL DEF W!Spec

(* A posted task finds room: the messages a thread holds are of other      *)
(* tasks, one each, and one to quit.                                       *)
LEMMA WinRoom ==
  ASSUME WinTypeOK, WinInv, NEW p \in W!Posters, win_ppc[p] = "send",
         WinQuota \in Nat, IsFiniteSet(OtherTasks), Cardinality(OtherTasks) < WinQuota
  PROVE  Len(win_messages) < WinQuota
<1> DEFINE t == win_call[p].task
           T == (OtherTasks \ {t}) \cup {"WM_QUIT"}
           L == Len(win_messages)
           f == [i \in 1 .. L |-> win_messages[i].task]
<1>1. t \in OtherTasks /\ ~WinSent(t)
  BY DEF WinInv, WinOnePlace, WinCalling
<1>2. IsFiniteSet(T) /\ Cardinality(T) = Cardinality(OtherTasks) /\ Cardinality(T) \in Nat
  <2>1. /\ IsFiniteSet(OtherTasks \ {t})
        /\ Cardinality(OtherTasks \ {t}) = Cardinality(OtherTasks) - 1
    BY <1>1, FS_RemoveElement
  <2>2. "WM_QUIT" \notin OtherTasks \ {t}
    BY OtherTasksAssumption
  <2>3. IsFiniteSet(T) /\ Cardinality(T) = Cardinality(OtherTasks \ {t}) + 1
    BY <2>1, <2>2, FS_AddElement
  <2>4. Cardinality(OtherTasks) \in Nat
    BY FS_CardinalityType
  <2> QED
    BY <2>1, <2>3, <2>4
<1>3. L \in Nat /\ DOMAIN win_messages = 1 .. L
  BY DEF WinTypeOK
<1>4. \A i \in DOMAIN win_messages : win_messages[i].task \in T
  BY <1>1 DEF WinInv, WinDeletion, W!Quit, WinSent
<1>5. f \in [1 .. L -> T] /\ \A i, j \in 1 .. L : f[i] = f[j] => i = j
  BY <1>3, <1>4 DEF WinInv, WinOnePlace, WinSentOnce
<1> HIDE DEF T, L, f, t
<1>6. IsFiniteSet(1 .. L) /\ Cardinality(1 .. L) = L
  <2>1. 1 \in Int /\ L \in Int
    BY <1>3
  <2>2. IsFiniteSet(1 .. L) /\ Cardinality(1 .. L) = IF 1 > L THEN 0 ELSE L - 1 + 1
    BY ONLY <2>1, FS_Interval
  <2> QED
    BY <1>3, <2>2
<1>7. ~(Cardinality(T) < Cardinality(1 .. L))
  <2> SUFFICES ASSUME Cardinality(T) < Cardinality(1 .. L) PROVE FALSE
    OBVIOUS
  <2>1. f \in [1 .. L -> T] /\ IsFiniteSet(1 .. L) /\ IsFiniteSet(T)
    BY <1>2, <1>5, <1>6
  <2>2. \E i, j \in 1 .. L : i # j /\ f[i] = f[j]
    BY ONLY <2>1, Cardinality(T) < Cardinality(1 .. L), FS_PigeonHole
  <2> QED
    BY <1>5, <2>2
<1>8. L < WinQuota
  BY <1>2, <1>3, <1>6, <1>7
<1> QED
  BY <1>8 DEF L

LEMMA WinBeginIsCall ==
  ASSUME WinTypeOK, WinInv, NEW p \in W!Posters, NEW t \in OtherTasks, NEW d \in WinDelays,
         W!BeginCall(p, t, d)
  PROVE  W!Contract!Call(t, "immediate", 0) \/ W!Contract!Call(t, "delayed", d)
<1>0. d \in Int /\ win_now \in Nat
  BY WinDelaysAssumption DEF WinTypeOK
<1>1. /\ win_fate[t] = "new" /\ W!MayPost(p)
      /\ win_fate' = [win_fate EXCEPT ![t] = "calling"]
      /\ UNCHANGED <<win_pending_, win_dpc, win_now>>
  BY DEF W!BeginCall, W!pendingVars
<1>2. win_dpc = "live" \/ (win_dpc = "join" /\ W!Contract!Busy)
  <2>1. CASE p = Worker
    <3>1. win_wpc \in {"run", "runDue"}
      BY <1>1, <2>1 DEF W!MayPost
    <3>2. win_run_task \in OtherTasks /\ win_fate[win_run_task] = "running" /\ win_dpc # "deleted"
      BY <3>1 DEF WinInv, WinOnePlace, WinDeletion
    <3> QED
      BY <3>2 DEF W!Contract!Busy, WinInv, WinTyped
  <2>2. CASE p # Worker
    BY <1>1, <2>2 DEF W!MayPost
  <2> QED
    BY <2>1, <2>2
<1>3. CASE d <= 0
  <2>1. W!Contract!Call(t, "immediate", 0)
    BY <1>0, <1>1, <1>2, <1>3 DEF W!Contract!Call, W!BeginCall
  <2> QED
    BY <2>1
<1>4. CASE ~(d <= 0)
  <2>1. W!Contract!Call(t, "delayed", d)
    BY <1>0, <1>1, <1>2, <1>4 DEF W!Contract!Call, W!BeginCall
  <2> QED
    BY <2>1
<1> QED
  BY <1>3, <1>4

LEMMA WinPostIsAccept ==
  ASSUME WinTypeOK, WinInv, NEW p \in W!Posters, W!PostTask(p) \/ W!PostDelayedTask(p),
         WinQuota \in Nat, IsFiniteSet(OtherTasks), Cardinality(OtherTasks) < WinQuota
  PROVE  \E t \in OtherTasks : W!Contract!Accept(t)
<1>0. PICK t : t = win_call[p].task
  OBVIOUS
<1>1. t \in OtherTasks /\ win_fate[t] = "calling"
  BY <1>0 DEF W!PostTask, W!PostDelayedTask, WinInv, WinOnePlace, WinCalling
<1>2. /\ win_fate' = [win_fate EXCEPT ![t] = "queued"]
      /\ UNCHANGED <<win_now, win_kind, win_notBefore, win_dpc>>
      /\ win_pending_' = IF win_kind[t] = "immediate" THEN Append(win_pending_, t)
                                                      ELSE win_pending_
  <2>1. CASE W!PostTask(p)
    BY <1>0, <2>1 DEF W!PostTask, W!historyVars, WinInv, WinOnTime
  <2>2. CASE W!PostDelayedTask(p)
    <3>1. Len(win_messages) < WinQuota
      BY <2>2, WinRoom DEF W!PostDelayedTask
    <3>2. win_kind[t] = "delayed"
      BY <1>0, <2>2 DEF W!PostDelayedTask, WinInv, WinOnTime
    <3> QED
      BY <1>0, <2>2, <3>1, <3>2 DEF W!PostDelayedTask, W!pendingVars, W!historyVars
  <2> QED
    BY <2>1, <2>2
<1>3. W!Contract!Accept(t)
  BY <1>1, <1>2 DEF W!Contract!Accept
<1> QED
  BY <1>1, <1>3

LEMMA WinRunIsStart ==
  ASSUME WinTypeOK, WinInv, W!RunPendingTask \/ W!RunDueTask
  PROVE  \E t \in OtherTasks : W!Contract!Start(t)
<1>1. ~W!Contract!Busy /\ win_dpc # "deleted"
  BY DEF W!RunPendingTask, W!RunDueTask, W!Contract!Busy, WinInv, WinOnePlace, WinDeletion
<1>2. CASE W!RunPendingTask
  <2>0. PICK t : t = Head(win_pending_)
    OBVIOUS
  <2>1. /\ win_pending_ # << >> /\ win_pending_' = Tail(win_pending_)
        /\ win_fate' = [win_fate EXCEPT ![t] = "running"]
        /\ UNCHANGED <<win_now, win_kind, win_notBefore, win_dpc>>
    BY <1>2, <2>0 DEF W!RunPendingTask, W!posterVars, W!historyVars
  <2>2. t \in OtherTasks /\ WinIn(t)
    BY <2>0, <2>1, WinTake DEF WinInv, WinOnePlace
  <2>3. win_fate[t] = "queued" /\ win_kind[t] = "immediate"
    BY <2>2 DEF WinInv, WinOnePlace
  <2>4. win_now >= win_notBefore[t]
    BY <2>2, <2>3 DEF WinInv, WinOnTime, WinTyped, WinTypeOK
  <2>5. W!Contract!Start(t)
    BY <1>1, <2>0, <2>1, <2>3, <2>4 DEF W!Contract!Start
  <2> QED
    BY <2>2, <2>5
<1>3. CASE W!RunDueTask
  <2>1. PICK e \in win_timer_tasks_ :
          e.due_time <= win_dueBy /\ win_fate' = [win_fate EXCEPT ![e.task] = "running"]
    BY <1>3 DEF W!RunDueTask
  <2>2. PICK t \in OtherTasks : t = e.task /\ e.due_time = win_notBefore[t]
    BY DEF WinInv, WinOnTime
  <2>3. UNCHANGED <<win_pending_, win_now, win_kind, win_notBefore, win_dpc>>
    BY <1>3 DEF W!RunDueTask, W!pendingVars, W!posterVars, W!historyVars
  <2>4. WinTimed(t) /\ win_wpc = "due"
    BY <1>3, <2>2 DEF WinTimed, W!RunDueTask
  <2>5. win_fate[t] = "queued" /\ win_kind[t] = "delayed"
    BY <2>4 DEF WinInv, WinOnePlace
  <2>6. win_now >= win_notBefore[t]
    BY <2>1, <2>2 DEF WinInv, WinTyped, WinTypeOK
  <2>7. W!Contract!Start(t)
    BY <1>1, <2>1, <2>2, <2>3, <2>5, <2>6 DEF W!Contract!Start
  <2> QED
    BY <2>7
<1> QED
  BY <1>2, <1>3

LEMMA WinFinishIsFinish ==
  ASSUME WinTypeOK, WinInv, W!FinishTask \/ W!FinishDueTask
  PROVE  \E t \in OtherTasks : W!Contract!Finish(t)
<1>1. /\ win_run_task \in OtherTasks /\ win_fate[win_run_task] = "running"
      /\ win_fate' = [win_fate EXCEPT ![win_run_task] = "run"]
      /\ UNCHANGED <<win_pending_, win_now, win_kind, win_notBefore, win_dpc>>
  BY DEF W!FinishTask, W!FinishDueTask, W!pendingVars, W!posterVars, W!historyVars,
     WinInv, WinOnePlace
<1>2. W!Contract!Finish(win_run_task)
  BY <1>1 DEF W!Contract!Finish
<1> QED
  BY <1>1, <1>2

(* What is left when the thread has gone is destroyed with the queue.      *)
LEMMA WinJoinIsDeleteReturns ==
  ASSUME WinTypeOK, WinInv, W!DeleteJoin
  PROVE  \E S \in SUBSET OtherTasks : W!Contract!DeleteReturns(S)
<1> DEFINE S == {t \in OtherTasks : WinIn(t) \/ WinTimed(t)}
<1>1. /\ win_dpc = "join" /\ win_dpc' = "deleted" /\ win_wpc = "exited"
      /\ win_pending_' = << >>
      /\ win_fate' = [t \in OtherTasks |->
           IF WinIn(t) \/ WinTimed(t) THEN "destroyed" ELSE win_fate[t]]
      /\ UNCHANGED <<win_now, win_kind, win_notBefore>>
  BY DEF W!DeleteJoin, W!historyVars, WinIn, WinTimed
<1>2. win_fate' = [t \in OtherTasks |-> IF t \in S THEN "destroyed" ELSE win_fate[t]]
  BY <1>1
<1>3. \A t \in S : win_fate[t] = "queued"
  BY <1>1 DEF WinInv, WinOnePlace
<1>4. \A t \in OtherTasks : win_fate[t] \notin {"running", "calling"}
  <2>1. win_ppc[Worker] = "idle"
    BY <1>1 DEF WinInv, WinDeletion
  <2>2. \A p \in W!Posters : win_ppc[p] = "idle"
    BY <1>1, <2>1 DEF WinInv, WinDeletion, W!Posters
  <2> QED
    BY <1>1, <2>2 DEF WinInv, WinOnePlace, WinCalling
<1>5. \A i \in DOMAIN win_pending_ : win_pending_[i] \in S
  BY DEF WinIn, WinInv, WinTyped
<1> HIDE DEF S
<1>6. win_pending_' \in Seq(OtherTasks) /\ DOMAIN win_pending_' = {}
  BY <1>1
<1>7. W!Contract!IsRest(win_pending_', win_pending_, S)
  BY <1>5, <1>6 DEF W!Contract!IsRest
<1>8. S \subseteq {t \in OtherTasks : win_fate[t] = "queued"}
  BY <1>3 DEF S
<1>9. W!Contract!Destroyed(S)
  BY <1>2, <1>6, <1>7, <1>8 DEF W!Contract!Destroyed
<1>10. W!Contract!DeleteReturns(S)
  BY <1>1, <1>4, <1>9 DEF W!Contract!DeleteReturns
<1> QED
  BY <1>8, <1>10

LEMMA WinStepIsContractStep ==
  ASSUME WinTypeOK, WinInv, [W!Next]_W!vars,
         WinQuota \in Nat, IsFiniteSet(OtherTasks), Cardinality(OtherTasks) < WinQuota
  PROVE  [W!Contract!Next]_W!Contract!vars
<1>0. UNCHANGED <<win_now, win_fate, win_kind, win_pending_, win_notBefore, win_dpc>>
        => UNCHANGED W!Contract!vars
  BY DEF W!Contract!vars
<1>1. ASSUME NEW p \in W!Posters, NEW t \in OtherTasks, NEW d \in WinDelays,
             W!BeginCall(p, t, d)
      PROVE  W!Contract!Next
  BY <1>1, WinBeginIsCall DEF W!Contract!Next
<1>2. ASSUME NEW p \in W!Posters, W!PostTask(p) \/ W!PostDelayedTask(p)
      PROVE  W!Contract!Next
  BY <1>2, WinPostIsAccept DEF W!Contract!Next
<1>3. CASE W!DeleteQuit
  <2>1. W!Contract!DeleteCalled
    BY <1>3 DEF W!DeleteQuit, W!pendingVars, W!historyVars, W!Contract!DeleteCalled
  <2> QED
    BY <2>1 DEF W!Contract!Next
<1>4. CASE W!DeleteJoin
  BY <1>4, WinJoinIsDeleteReturns DEF W!Contract!Next
<1>5. CASE W!RunPendingTask \/ W!RunDueTask
  BY <1>5, WinRunIsStart DEF W!Contract!Next
<1>6. CASE W!FinishTask \/ W!FinishDueTask
  BY <1>6, WinFinishIsFinish DEF W!Contract!Next
<1>7. CASE W!Tick
  BY <1>7 DEF W!Tick, W!pendingVars, W!posterVars, W!historyVars, W!Contract!Next, W!Contract!Tick
<1>8. ASSUME \/ W!TimerFires \/ W!MsgWait \/ W!ProcessMessage \/ W!ProcessTimerMessage
             \/ W!NoMessage \/ W!CheckTimer \/ W!NoneDue \/ W!CheckQueue \/ W!NonePending
             \/ UNCHANGED W!vars
      PROVE  UNCHANGED W!Contract!vars
  BY <1>0, <1>8
  DEF W!TimerFires, W!MsgWait, W!ProcessMessage, W!ProcessTimerMessage, W!NoMessage,
      W!CheckTimer, W!NoneDue, W!CheckQueue, W!NonePending, W!vars, W!pendingVars, W!posterVars,
      W!historyVars
<1> QED
  BY <1>1, <1>2, <1>3, <1>4, <1>5, <1>6, <1>7, <1>8 DEF W!Next

LEMMA WinContractIsKept ==
  ASSUME WinQuota \in Nat, IsFiniteSet(OtherTasks), Cardinality(OtherTasks) < WinQuota
  PROVE  W!Spec => W!ImplementsTaskQueueBase
<1>1. W!Init => W!Contract!Init
  BY DEF W!Init, W!Contract!Init
<1>2. WinTypeOK /\ WinInv /\ [W!Next]_W!vars => [W!Contract!Next]_W!Contract!vars
  BY WinStepIsContractStep
<1> QED
  BY <1>1, <1>2, WinTypeCorrect, WinInvariant, PTL
  DEF W!Spec, W!ImplementsTaskQueueBase, W!Contract!Spec

LEMMA GcdRuns == MCSpec => G!Spec
<1>1. gcdVars' = gcdVars => UNCHANGED G!vars
  BY DEF gcdVars, G!vars, G!queueVars, G!historyVars
<1>2. [MCNext]_allVars => [G!Next]_G!vars
  BY <1>1 DEF MCNext, Libevent, allVars
<1>3. MCInit => G!Init
  BY DEF MCInit
<1>4. QED
  BY <1>2, <1>3, PTL DEF MCSpec, G!Spec

(* What TaskQueueBase promises holds of the queue of Windows, as long as   *)
(* there are fewer tasks than messages a thread's queue takes, and of      *)
(* libdispatch's, for every set of tasks and delays.                       *)
THEOREM OthersKeepContract ==
  ASSUME WinQuota \in Nat, IsFiniteSet(OtherTasks), Cardinality(OtherTasks) < WinQuota
  PROVE  MCSpec => OthersImplementTaskQueueBase
<1>1. W!Spec => W!ImplementsTaskQueueBase
  BY WinContractIsKept
<1> QED
  BY <1>1, WindowsRuns, GcdRuns, GcdContractIsKept, PTL DEF OthersImplementTaskQueueBase
===========================================================================
