-------------------------- MODULE MCPlatformQueues --------------------------
(***************************************************************************)
(* The task queues built on what a platform offers, each on its own:       *)
(* `subject` says which one a behaviour is about.  That of libevent is     *)
(* extended, those of Windows and of libdispatch are instances.            *)
(***************************************************************************)
EXTENDS TaskQueueLibevent

CONSTANTS p1, OtherTasks, WinDelays, WinQuota

ASSUME WinDelaysAssumption == WinDelays \subseteq Int
ASSUME OtherTasksAssumption ==
  OtherTasks \cap {"no task", "WM_QUIT", "SetNotActive", "nothing"} = {}

VARIABLES subject,
          win_pending_, win_in_queue_, win_timer_tasks_, win_timer_,
          win_timerEvent, win_timer_id_, win_messages, win_news, win_now,
          win_wpc, win_back, win_result, win_dueBy, win_run_task, win_ppc,
          win_call, win_dpc, win_fate, win_kind, win_notBefore,
          gcd_is_active_, gcd_blocks, gcd_after, gcd_block, gcd_freed,
          gcd_now, gcd_ppc, gcd_call, gcd_dpc, gcd_fate, gcd_kind,
          gcd_notBefore

W == INSTANCE TaskQueueWin WITH
  Tasks <- OtherTasks, Threads <- {p1}, Delays <- WinDelays, Quota <- WinQuota,
  pending_ <- win_pending_, in_queue_ <- win_in_queue_,
  timer_tasks_ <- win_timer_tasks_, timer_ <- win_timer_,
  timerEvent <- win_timerEvent, timer_id_ <- win_timer_id_,
  messages <- win_messages, news <- win_news, now <- win_now, wpc <- win_wpc,
  back <- win_back, result <- win_result, dueBy <- win_dueBy,
  run_task <- win_run_task, ppc <- win_ppc, call <- win_call, dpc <- win_dpc,
  fate <- win_fate, kind <- win_kind, notBefore <- win_notBefore

G == INSTANCE TaskQueueGcd WITH
  Tasks <- OtherTasks, MaxTime <- 2,
  is_active_ <- gcd_is_active_, blocks <- gcd_blocks, after <- gcd_after,
  block <- gcd_block, freed <- gcd_freed, now <- gcd_now, ppc <- gcd_ppc,
  call <- gcd_call, dpc <- gcd_dpc, fate <- gcd_fate, kind <- gcd_kind,
  notBefore <- gcd_notBefore

winVars == <<
  win_pending_, win_in_queue_, win_timer_tasks_, win_timer_, win_timerEvent,
  win_timer_id_, win_messages, win_news, win_now, win_wpc, win_back,
  win_result, win_dueBy, win_run_task, win_ppc, win_call, win_dpc, win_fate,
  win_kind, win_notBefore>>
gcdVars == <<
  gcd_is_active_, gcd_blocks, gcd_after, gcd_block, gcd_freed, gcd_now,
  gcd_ppc, gcd_call, gcd_dpc, gcd_fate, gcd_kind, gcd_notBefore>>
allVars == <<subject, vars, winVars, gcdVars>>

MCInit == Init /\ W!Init /\ G!Init /\ subject \in {"libevent", "Windows", "libdispatch"}

Libevent(A) == subject = "libevent" /\ A /\ UNCHANGED <<subject, winVars, gcdVars>>

MCNext ==
  \/ Libevent(Next)
  \/ subject = "Windows" /\ W!Next /\ UNCHANGED <<subject, vars, gcdVars>>
  \/ subject = "libdispatch" /\ G!Next /\ UNCHANGED <<subject, vars, winVars>>

(* The fairness of TaskQueueLibevent, whose liveness is checked.           *)
MCSpec ==
  /\ MCInit /\ [][MCNext]_allVars
  /\ WF_allVars(Libevent(WorkerStep))
  /\ \A p \in Posters : WF_allVars(Libevent(Poster(p)))
  /\ WF_allVars(Libevent(DeleteJoin))
  /\ WF_allVars(Libevent(Tick))

(* Each queue is told of its work: the Windows timer never fires too late; *)
(* a byte of libevent's pipe always fits, and its timers are not deleted   *)
(* before they fired.                                                      *)
NeverSleepsPastWork == W!NeverSleepsPastWork /\ WriteSucceeds /\ TimersAlive

(* What libdispatch holds, and the contract of TaskQueueBase.  Tasks that   *)
(* are still in the queue when Delete returns are destroyed one by one     *)
(* after it.                                                               *)
GcdFifo == Only(gcd_blocks, {t \in OtherTasks : gcd_kind[t] = "immediate"})

D == INSTANCE TaskQueueBase WITH
  Tasks <- OtherTasks, now <- gcd_now, fate <- gcd_fate, kind <- gcd_kind,
  notBefore <- gcd_notBefore, fifo <- GcdFifo,
  deletion <- IF gcd_dpc = "sync" THEN "deleting" ELSE gcd_dpc

(* The other two queues implement the contract as well.                    *)
OthersImplementTaskQueueBase == W!ImplementsTaskQueueBase /\ D!Spec
===============================================================================
